----------------------------- MODULE Induction -----------------------------
(***************************************************************************)
(* Induction as facts about sets: to show that something holds of every    *)
(* natural number, or of every finite set, one looks at the set of those   *)
(* it does not hold of.  Unlike induction over a predicate, these can be   *)
(* cited by name with the sets in hand.  What follows from them for folds, *)
(* sums, powers of two and places in a set.                                 *)
(***************************************************************************)
EXTENDS Naturals, FiniteSetsExt, FiniteSetTheorems, WellFoundedInduction, TLAPS
-----------------------------------------------------------------------------
\* Every nonempty set of natural numbers has a least member.
LEMMA LeastNatural ==
    ASSUME NEW S \in SUBSET Nat, S # {}
    PROVE  \E n \in S : \A m \in S : n <= m
<1> DEFINE R == OpToRel(<, Nat)
<1>1. R = {ss \in Nat \X Nat : ss[1] < ss[2]}
  BY DEF OpToRel
<1>2. \E n \in S : \A m \in S : <<m, n>> \notin R
  <2> HIDE DEF R
  <2>1. IsWellFoundedOn(R, Nat)
    BY NatLessThanWellFounded DEF R
  <2> QED BY <2>1, WFMin
<1>3. PICK n \in S : \A m \in S : <<m, n>> \notin R
  BY <1>2
<1>4. \A m \in S : <<m, n>> \in Nat \X Nat
  OBVIOUS
<1>5. \A m \in S : ~(m < n)
  <2> HIDE DEF R
  <2> QED BY <1>1, <1>3, <1>4
<1> QED BY <1>5

\* What holds of zero and passes on to the successor holds of every number up to n.
LEMMA Stepwise ==
    ASSUME NEW n \in Nat, NEW S, 0 \in S, \A m \in 0..n : m < n /\ m \in S => m + 1 \in S
    PROVE  0..n \subseteq S
<1> SUFFICES ASSUME NEW k \in 0..n, k \notin S PROVE FALSE
  OBVIOUS
<1> DEFINE T == {m \in Nat : m \in 0..n /\ m \notin S}
<1>1. k \in T
  OBVIOUS
<1>2. PICK m \in T : \A o \in T : m <= o
  <2>1. T \in SUBSET Nat /\ T # {}
    BY <1>1
  <2> HIDE DEF T
  <2> QED BY <2>1, LeastNatural
<1>3. m \in 0..n /\ m \notin S /\ m # 0
  OBVIOUS
<1>4. m - 1 \in Nat /\ m - 1 \in 0..n /\ m - 1 \notin T /\ (m - 1) + 1 = m
  BY <1>2, <1>3
<1>5. m - 1 \in S
  BY <1>4
<1> QED BY <1>3, <1>4, <1>5

\* Every nonempty family of finite sets has a member none is smaller than.
LEMMA LeastFiniteSet ==
    ASSUME NEW F, F # {}, \A X \in F : IsFiniteSet(X)
    PROVE  \E X \in F : \A Y \in F : Cardinality(X) <= Cardinality(Y)
<1> DEFINE S == {Cardinality(X) : X \in F}
<1>1. S \in SUBSET Nat /\ S # {}
  BY FS_CardinalityType
<1>2. PICK c \in S : \A d \in S : c <= d
  <2> HIDE DEF S
  <2> QED BY <1>1, LeastNatural
<1>3. PICK X \in F : Cardinality(X) = c
  OBVIOUS
<1>4. \A Y \in F : Cardinality(Y) \in S
  OBVIOUS
<1> QED BY <1>2, <1>3, <1>4

\* What holds of the empty set and of a set with one more element, within a finite
\* set, holds of all of it.
LEMMA Elementwise ==
    ASSUME NEW X, IsFiniteSet(X), NEW S, {} \in S,
           \A Y \in SUBSET X : Y \in S => \A x \in X \ Y : Y \cup {x} \in S
    PROVE  SUBSET X \subseteq S
<1> SUFFICES ASSUME NEW Z \in SUBSET X, Z \notin S PROVE FALSE
  OBVIOUS
<1> DEFINE F == {Y \in SUBSET X : Y \notin S}
<1>1. \A Y \in F : IsFiniteSet(Y)
  BY FS_Subset
<1>2. PICK Y \in F : \A V \in F : Cardinality(Y) <= Cardinality(V)
  <2>1. F # {}
    OBVIOUS
  <2> HIDE DEF F
  <2> QED BY <1>1, <2>1, LeastFiniteSet
<1>3. PICK y \in Y : TRUE
  BY <1>2
<1> DEFINE V == Y \ {y}
<1>4. V \in SUBSET X /\ y \in X \ V /\ V \cup {y} = Y
  BY <1>2, <1>3
<1>5. Cardinality(V) = Cardinality(Y) - 1 /\ Cardinality(V) \in Nat /\ Cardinality(Y) \in Nat
  <2>1. IsFiniteSet(Y)
    BY <1>1
  <2>2. IsFiniteSet(V)
    BY <2>1, FS_Subset
  <2> QED BY <1>3, <2>1, <2>2, FS_RemoveElement, FS_CardinalityType
<1>6. V \in S
  <2>1. V \notin F
    <3> HIDE DEF V, F
    <3> QED BY <1>2, <1>5
  <2> QED BY <1>4, <2>1
<1>7. V \cup {y} \in S
  <2> HIDE DEF V
  <2> QED BY <1>4, <1>6
<1> QED BY <1>4, <1>7
-----------------------------------------------------------------------------
\* A nonempty finite set of natural numbers has a greatest member.
LEMMA MaxIsGreatest ==
    ASSUME NEW S \in SUBSET Nat, IsFiniteSet(S), S # {}
    PROVE  Max(S) \in S /\ \A y \in S : Max(S) >= y
<1> DEFINE HasMax(T) == \E x \in T : \A y \in T : x >= y
           G == {T \in SUBSET S : T = {} \/ HasMax(T)}
<1>1. ASSUME NEW T \in SUBSET S, T \in G, NEW x \in S \ T
      PROVE  T \cup {x} \in G
  <2>1. CASE T = {}
    BY <2>1
  <2>2. ASSUME NEW z \in T, \A y \in T : z >= y
        PROVE  HasMax(T \cup {x})
    <3>1. CASE z >= x
      BY <2>2, <3>1
    <3>2. CASE ~(z >= x)
      BY <2>2, <3>2
    <3> QED BY <3>1, <3>2
  <2> QED BY <1>1, <2>1, <2>2
<1>2. SUBSET S \subseteq G
  <2>1. {} \in G
    OBVIOUS
  <2> HIDE DEF G
  <2> QED BY <1>1, <2>1, Elementwise
<1>3. HasMax(S)
  BY <1>2
<1> QED BY <1>3 DEF Max
-----------------------------------------------------------------------------
(* Folds over a finite set, which pick one element after the other.         *)

Picks(E) == {pick \in [(SUBSET E) \ {{}} -> E] : \A s \in DOMAIN pick : pick[s] \in s}

StepsIn(A, E) == [A \X E -> A]

IsFold(E, pick, base, step, it) ==
    it = [s \in SUBSET E |-> IF s = {} THEN base ELSE step[<<it[s \ {pick[s]}], pick[s]>>]]

LEMMA PickedLess ==
    ASSUME NEW E, IsFiniteSet(E), NEW pick \in Picks(E), NEW s \in SUBSET E, s # {}
    PROVE  /\ pick[s] \in s /\ pick[s] \in E /\ s \ {pick[s]} \in SUBSET E
           /\ Cardinality(s) \in Nat
           /\ Cardinality(s \ {pick[s]}) = Cardinality(s) - 1
           /\ Cardinality(s \ {pick[s]}) \in Nat
<1>1. pick[s] \in s
  BY DEF Picks
<1>2. IsFiniteSet(s) /\ IsFiniteSet(s \ {pick[s]})
  BY FS_Subset
<1> QED BY <1>1, <1>2, FS_RemoveElement, FS_CardinalityType

\* What folds sets of up to m elements is extended to m + 1.
LEMMA FoldExists ==
    ASSUME NEW E, IsFiniteSet(E), NEW pick \in Picks(E), NEW base, NEW step
    PROVE  \E it : IsFold(E, pick, base, step, it)
<1> DEFINE F(it) == [s \in SUBSET E |-> IF s = {} THEN base
                                         ELSE step[<<it[s \ {pick[s]}], pick[s]>>]]
           Good(it, m) == \A s \in SUBSET E : Cardinality(s) <= m => it[s] = F(it)[s]
           Able == {m \in Nat : \E it : Good(it, m)}
<1>0. ASSUME NEW it, NEW s \in SUBSET E
      PROVE  F(it)[s] = IF s = {} THEN base ELSE step[<<it[s \ {pick[s]}], pick[s]>>]
  OBVIOUS
<1> HIDE DEF F
<1>1. 0 \in Able
  <2> DEFINE it == [s \in SUBSET E |-> base]
  <2>1. ASSUME NEW s \in SUBSET E, Cardinality(s) <= 0
        PROVE  it[s] = F(it)[s]
    <3>1. s = {}
      <4>1. IsFiniteSet(s)
        BY FS_Subset
      <4> HIDE DEF it
      <4> QED BY <2>1, <4>1, FS_EmptySet, FS_CardinalityType
    <3> QED BY <1>0, <3>1
  <2>2. Good(it, 0)
    BY <2>1
  <2> QED BY <2>2
<1>2. ASSUME NEW m \in Nat, m \in Able
      PROVE  m + 1 \in Able
  <2>1. PICK it : Good(it, m)
    BY <1>2
  <2> DEFINE g == [s \in SUBSET E |-> F(it)[s]]
  <2>2. ASSUME NEW s \in SUBSET E, Cardinality(s) <= m + 1
        PROVE  g[s] = F(g)[s]
    <3>1. g[s] = F(it)[s]
      OBVIOUS
    <3>2. /\ F(g)[s] = IF s = {} THEN base ELSE step[<<g[s \ {pick[s]}], pick[s]>>]
          /\ F(it)[s] = IF s = {} THEN base ELSE step[<<it[s \ {pick[s]}], pick[s]>>]
      BY <1>0
    <3>3. ASSUME s # {}
          PROVE  g[s \ {pick[s]}] = it[s \ {pick[s]}]
      <4>1. s \ {pick[s]} \in SUBSET E /\ Cardinality(s \ {pick[s]}) <= m
        BY <2>2, <3>3, PickedLess
      <4> QED BY <2>1, <4>1
    <3> HIDE DEF g
    <3> QED BY <3>1, <3>2, <3>3
  <2> HIDE DEF g
  <2>3. Good(g, m + 1)
    BY <2>2
  <2> HIDE DEF Good
  <2> QED BY <2>3
<1> DEFINE n == Cardinality(E)
<1>3. n \in Nat
  BY FS_CardinalityType
<1>4. n \in Able
  <2> HIDE DEF Able, n
  <2> QED BY <1>1, <1>2, <1>3, Stepwise
<1>5. PICK it : Good(it, n)
  BY <1>4
<1>6. \A s \in SUBSET E : it[s] = F(it)[s]
  <2>1. \A s \in SUBSET E : Cardinality(s) <= n
    BY FS_Subset
  <2> QED BY <1>5, <2>1
<1> DEFINE g == [s \in SUBSET E |-> it[s]]
<1>7. ASSUME NEW s \in SUBSET E
      PROVE  F(g)[s] = F(it)[s]
  <2>1. g[s \ {pick[s]}] = it[s \ {pick[s]}]
    OBVIOUS
  <2> HIDE DEF g
  <2>2. F(g)[s] = IF s = {} THEN base ELSE step[<<g[s \ {pick[s]}], pick[s]>>]
    BY <1>0
  <2>3. F(it)[s] = IF s = {} THEN base ELSE step[<<it[s \ {pick[s]}], pick[s]>>]
    BY <1>0
  <2> QED BY <2>1, <2>2, <2>3
<1>8. g = F(g)
  <2>1. F(g) = [s \in SUBSET E |-> F(g)[s]]
    BY DEF F
  <2>2. g = [s \in SUBSET E |-> F(g)[s]]
    BY <1>6, <1>7
  <2> HIDE DEF g
  <2> QED BY <2>1, <2>2
<1> QED BY <1>8 DEF F, IsFold

LEMMA FoldIsTyped ==
    ASSUME NEW E, IsFiniteSet(E), NEW pick \in Picks(E), NEW A, NEW base \in A,
           NEW step \in StepsIn(A, E), NEW it, IsFold(E, pick, base, step, it)
    PROVE  it \in [SUBSET E -> A]
<1> DEFINE F == {s \in SUBSET E : it[s] \notin A}
<1>1. F = {}
  <2> SUFFICES ASSUME F # {} PROVE FALSE
    OBVIOUS
  <2>1. PICK s \in F : \A r \in F : Cardinality(s) <= Cardinality(r)
    <3>1. \A r \in F : IsFiniteSet(r)
      BY FS_Subset
    <3> HIDE DEF F
    <3> QED BY <3>1, LeastFiniteSet
  <2>2. it[s] = IF s = {} THEN base ELSE step[<<it[s \ {pick[s]}], pick[s]>>]
    BY DEF IsFold
  <2>3. s # {}
    BY <2>2
  <2>4. it[s \ {pick[s]}] \in A /\ pick[s] \in E
    BY <2>1, <2>3, PickedLess
  <2> QED BY <2>2, <2>3, <2>4 DEF StepsIn
<1> QED BY <1>1 DEF IsFold
-----------------------------------------------------------------------------
(* Sums over a finite set.                                                  *)

One(s) == CHOOSE x \in s : TRUE

Sums(E, w, it) ==
    [s \in SUBSET E |-> IF s = {} THEN 0 ELSE w[One(s)] + it[s \ {One(s)}]]

LEMMA OneLess ==
    ASSUME NEW E, IsFiniteSet(E), NEW s \in SUBSET E, s # {}
    PROVE  /\ One(s) \in s /\ One(s) \in E /\ s \ {One(s)} \in SUBSET E
           /\ Cardinality(s) \in Nat
           /\ Cardinality(s \ {One(s)}) = Cardinality(s) - 1
           /\ Cardinality(s \ {One(s)}) \in Nat
<1>1. One(s) \in s
  BY DEF One
<1>2. IsFiniteSet(s) /\ IsFiniteSet(s \ {One(s)})
  BY FS_Subset
<1> QED BY <1>1, <1>2, FS_RemoveElement, FS_CardinalityType

LEMMA SumsExist ==
    ASSUME NEW E, IsFiniteSet(E), NEW w \in [E -> Nat]
    PROVE  \E it : it = Sums(E, w, it)
<1> DEFINE pick == [s \in (SUBSET E) \ {{}} |-> One(s)]
           step == [x \in Nat \X E |-> w[x[2]] + x[1]]
<1>1. pick \in Picks(E)
  BY DEF Picks, One
<1>2. step \in [Nat \X E -> Nat]
  OBVIOUS
<1>3. PICK it : IsFold(E, pick, 0, step, it)
  <2> HIDE DEF pick, step
  <2> QED BY <1>1, FoldExists
<1>4. it \in [SUBSET E -> Nat]
  <2> DEFINE A == Nat
             base == 0
  <2>1. base \in A /\ step \in StepsIn(A, E) /\ IsFold(E, pick, base, step, it)
    BY <1>2, <1>3 DEF StepsIn
  <2> HIDE DEF pick, step, A, base
  <2>2. it \in [SUBSET E -> A]
    BY <1>1, <2>1, FoldIsTyped
  <2> QED BY <2>2 DEF A
<1>5. ASSUME NEW s \in SUBSET E
      PROVE  it[s] = IF s = {} THEN 0 ELSE w[One(s)] + it[s \ {One(s)}]
  <2>1. it[s] = IF s = {} THEN 0 ELSE step[<<it[s \ {pick[s]}], pick[s]>>]
    <3> HIDE DEF pick, step
    <3> QED BY <1>3 DEF IsFold
  <2>2. ASSUME s # {}
        PROVE  step[<<it[s \ {pick[s]}], pick[s]>>] = w[One(s)] + it[s \ {One(s)}]
    <3>1. pick[s] = One(s) /\ One(s) \in E /\ it[s \ {One(s)}] \in Nat
      BY <1>4, <2>2 DEF One
    <3> HIDE DEF pick
    <3> QED BY <3>1
  <2> QED BY <2>1, <2>2
<1>6. it = [s \in SUBSET E |-> it[s]]
  BY <1>4
<1> HIDE DEF pick, step
<1>7. it = Sums(E, w, it)
  BY <1>5, <1>6 DEF Sums
<1> QED BY <1>7

LEMMA SumsAreNatural ==
    ASSUME NEW E, IsFiniteSet(E), NEW w \in [E -> Nat], NEW it, it = Sums(E, w, it)
    PROVE  \A s \in SUBSET E : it[s] \in Nat
<1> DEFINE F == {s \in SUBSET E : it[s] \notin Nat}
<1> SUFFICES ASSUME F # {} PROVE FALSE
  OBVIOUS
<1>1. PICK s \in F : \A r \in F : Cardinality(s) <= Cardinality(r)
  <2>1. \A r \in F : IsFiniteSet(r)
    BY FS_Subset
  <2> HIDE DEF F
  <2> QED BY <2>1, LeastFiniteSet
<1>2. it[s] = IF s = {} THEN 0 ELSE w[One(s)] + it[s \ {One(s)}]
  BY DEF Sums
<1>3. s # {}
  BY <1>2
<1>4. it[s \ {One(s)}] \in Nat
  BY <1>1, <1>3, OneLess
<1> QED BY <1>2, <1>3, <1>4, OneLess

\* When every element weighs c times as much, so does every set of them.
LEMMA SumsScale ==
    ASSUME NEW E, IsFiniteSet(E), NEW c \in Nat, NEW w \in [E -> Nat], NEW v \in [E -> Nat],
           \A e \in E : w[e] = c * v[e],
           NEW it, it = Sums(E, w, it), NEW jt, jt = Sums(E, v, jt)
    PROVE  \A s \in SUBSET E : it[s] = c * jt[s]
<1> DEFINE F == {s \in SUBSET E : it[s] # c * jt[s]}
<1> SUFFICES ASSUME F # {} PROVE FALSE
  OBVIOUS
<1>1. PICK s \in F : \A r \in F : Cardinality(s) <= Cardinality(r)
  <2>1. \A r \in F : IsFiniteSet(r)
    BY FS_Subset
  <2> HIDE DEF F
  <2> QED BY <2>1, LeastFiniteSet
<1>2. /\ it[s] = IF s = {} THEN 0 ELSE w[One(s)] + it[s \ {One(s)}]
      /\ jt[s] = IF s = {} THEN 0 ELSE v[One(s)] + jt[s \ {One(s)}]
  BY DEF Sums
<1>3. s # {}
  BY <1>2
<1> DEFINE r == s \ {One(s)}
<1>4. /\ One(s) \in E /\ r \in SUBSET E
      /\ Cardinality(s) \in Nat /\ Cardinality(r) \in Nat /\ Cardinality(r) < Cardinality(s)
  <2>1. s \in SUBSET E
    OBVIOUS
  <2>2. Cardinality(r) = Cardinality(s) - 1
    BY <1>3, <2>1, OneLess
  <2>3. /\ One(s) \in E /\ r \in SUBSET E
        /\ Cardinality(s) \in Nat /\ Cardinality(r) \in Nat
    BY <1>3, <2>1, OneLess
  <2> HIDE DEF r
  <2> QED BY <2>2, <2>3
<1>5. it[r] = c * jt[r]
  <2> HIDE DEF r
  <2> QED BY <1>1, <1>4
<1>6. jt[r] \in Nat /\ v[One(s)] \in Nat /\ w[One(s)] = c * v[One(s)]
  <2>1. \A q \in SUBSET E : jt[q] \in Nat
    BY SumsAreNatural
  <2> HIDE DEF r
  <2> QED BY <1>4, <2>1
<1>7. it[s] = c * v[One(s)] + c * jt[r] /\ jt[s] = v[One(s)] + jt[r]
  BY <1>2, <1>3, <1>5, <1>6
<1>8. c * (v[One(s)] + jt[r]) = c * v[One(s)] + c * jt[r]
  <2>1. \A a, b \in Nat : c * (a + b) = c * a + c * b
    OBVIOUS
  <2> HIDE DEF r
  <2> QED BY <1>6, <2>1
<1> QED BY <1>7, <1>8
-----------------------------------------------------------------------------
\* Powers of two, as numbers of subsets: half of the subsets of 1..n+1 have n+1.
LEMMA PowersOfTwo ==
    ASSUME NEW n \in Nat
    PROVE  2 ^ n \in Nat /\ 2 ^ n > 0 /\ 2 ^ (n + 1) = 2 * 2 ^ n
<1> DEFINE low == SUBSET (1..n)
           high == {S \cup {n + 1} : S \in low}
<1>1. ASSUME NEW m \in Nat
      PROVE  /\ IsFiniteSet(SUBSET (1..m)) /\ Cardinality(SUBSET (1..m)) = 2 ^ m
             /\ 2 ^ m \in Nat /\ 2 ^ m > 0
  <2>1. IsFiniteSet(1..m) /\ Cardinality(1..m) = m
    BY FS_Interval
  <2>2. IsFiniteSet(SUBSET (1..m)) /\ Cardinality(SUBSET (1..m)) = 2 ^ m
    BY <2>1, FS_SUBSET
  <2>3. Cardinality(SUBSET (1..m)) \in Nat /\ Cardinality(SUBSET (1..m)) # 0
    BY <2>2, FS_CardinalityType, FS_EmptySet
  <2> QED BY <2>2, <2>3
<1>2. IsFiniteSet(low) /\ Cardinality(low) = 2 ^ n
  BY <1>1
<1>3. IsFiniteSet(high) /\ Cardinality(high) = 2 ^ n
  <2> DEFINE f == [S \in low |-> S \cup {n + 1}]
  <2>1. f \in Bijection(low, high)
    <3>1. f \in [low -> high] /\ \A H \in high : \E S \in low : f[S] = H
      OBVIOUS
    <3>2. \A S \in low : n + 1 \notin S
      OBVIOUS
    <3>3. \A S, T \in low : S \cup {n + 1} = T \cup {n + 1} => S = T
      BY <3>2
    <3>4. \A S \in low : f[S] = S \cup {n + 1}
      OBVIOUS
    <3> HIDE DEF low, high, f
    <3> QED BY <3>1, <3>3, <3>4 DEF Bijection, Injection, Surjection, IsInjective
  <2>2. ExistsBijection(low, high)
    BY <2>1 DEF ExistsBijection
  <2> HIDE DEF low, high
  <2> QED BY <1>2, <2>2, FS_Bijection
<1>4. SUBSET (1..n + 1) = low \cup high
  <2>1. low \cup high \subseteq SUBSET (1..n + 1)
    <3>1. 1..n \subseteq 1..n + 1 /\ n + 1 \in 1..n + 1
      OBVIOUS
    <3>2. low \subseteq SUBSET (1..n + 1)
      BY <3>1
    <3>3. ASSUME NEW S \in low PROVE S \cup {n + 1} \in SUBSET (1..n + 1)
      BY <3>1
    <3>4. \A H \in high : H \in SUBSET (1..n + 1)
      BY <3>3
    <3> HIDE DEF low, high
    <3> QED BY <3>2, <3>4
  <2>2. ASSUME NEW S \in SUBSET (1..n + 1)
        PROVE  S \in low \cup high
    <3>1. S \ {n + 1} \in low
      OBVIOUS
    <3>2. CASE n + 1 \in S
      <4>1. S = (S \ {n + 1}) \cup {n + 1}
        BY <3>2
      <4> QED BY <3>1, <4>1
    <3>3. CASE n + 1 \notin S
      <4>1. S = S \ {n + 1}
        BY <3>3
      <4> QED BY <3>1, <4>1
    <3> QED BY <3>2, <3>3
  <2> QED BY <2>1, <2>2
<1>5. low \cap high = {}
  OBVIOUS
<1>6. Cardinality(low \cup high) = 2 ^ n + 2 ^ n - 0
  <2>1. Cardinality(low \cup high) = Cardinality(low) + Cardinality(high) - Cardinality(low \cap high)
    <3> HIDE DEF low, high
    <3> QED BY <1>2, <1>3, FS_Union
  <2>2. Cardinality(low \cap high) = 0
    BY <1>5, FS_EmptySet
  <2> HIDE DEF low, high
  <2> QED BY <1>2, <1>3, <2>1, <2>2
<1>7. Cardinality(SUBSET (1..n + 1)) = 2 ^ (n + 1)
  BY <1>1
<1>8. 2 ^ (n + 1) = 2 ^ n + 2 ^ n - 0
  BY <1>4, <1>6, <1>7
<1>9. 2 ^ n \in Nat /\ 2 ^ n > 0
  BY <1>1
<1> HIDE DEF low, high
<1> QED BY <1>8, <1>9
-----------------------------------------------------------------------------
(* Places in a finite set of natural numbers.                                *)

\* How many come before k.
Place(ks, k) == Cardinality({j \in ks : j < k})

LEMMA PlaceType ==
    ASSUME NEW ks \in SUBSET Nat, IsFiniteSet(ks), NEW k \in ks
    PROVE  Place(ks, k) \in Nat /\ Place(ks, k) < Cardinality(ks) /\ Cardinality(ks) \in Nat
<1> DEFINE before == {j \in ks : j < k}
<1>1. before \in SUBSET (ks \ {k})
  OBVIOUS
<1>2. /\ IsFiniteSet(ks \ {k}) /\ Cardinality(ks \ {k}) = Cardinality(ks) - 1
      /\ Cardinality(ks) \in Nat /\ Cardinality(ks \ {k}) \in Nat
  BY FS_RemoveElement, FS_CardinalityType
<1> HIDE DEF before
<1>3. IsFiniteSet(before) /\ Cardinality(before) <= Cardinality(ks \ {k}) /\ Cardinality(before) \in Nat
  BY <1>1, <1>2, FS_Subset, FS_CardinalityType
<1>4. Cardinality(before) \in Nat /\ Cardinality(before) < Cardinality(ks)
  BY <1>2, <1>3
<1> QED BY <1>2, <1>4 DEF Place, before

LEMMA PlaceGrows ==
    ASSUME NEW ks \in SUBSET Nat, IsFiniteSet(ks), NEW i \in ks, NEW k \in ks, i < k
    PROVE  Place(ks, i) < Place(ks, k)
<1> DEFINE low == {j \in ks : j < i}
           high == {j \in ks : j < k}
<1>1. low \in SUBSET (high \ {i}) /\ i \in high /\ high \in SUBSET ks
  <2>1. \A j \in low : j \in high /\ j # i
    OBVIOUS
  <2> QED BY <2>1
<1> HIDE DEF low, high
<1>2. IsFiniteSet(high)
  BY <1>1, FS_Subset
<1>3. /\ IsFiniteSet(high \ {i}) /\ Cardinality(high \ {i}) = Cardinality(high) - 1
      /\ Cardinality(high) \in Nat /\ Cardinality(high \ {i}) \in Nat
  BY <1>1, <1>2, FS_RemoveElement, FS_CardinalityType
<1>4. IsFiniteSet(low) /\ Cardinality(low) <= Cardinality(high \ {i}) /\ Cardinality(low) \in Nat
  BY <1>1, <1>3, FS_Subset, FS_CardinalityType
<1>5. Cardinality(low) < Cardinality(high)
  BY <1>3, <1>4
<1> QED BY <1>5 DEF Place, low, high

LEMMA PlaceIsUnique ==
    ASSUME NEW ks \in SUBSET Nat, IsFiniteSet(ks), NEW i \in ks, NEW k \in ks,
           Place(ks, i) = Place(ks, k)
    PROVE  i = k
<1>1. Place(ks, i) \in Nat /\ Place(ks, k) \in Nat
  BY PlaceType
<1>2. CASE i < k
  BY <1>1, <1>2, PlaceGrows
<1>3. CASE k < i
  BY <1>1, <1>3, PlaceGrows
<1> QED BY <1>2, <1>3

\* Each number below that of the elements is the place of one.
LEMMA PlaceExists ==
    ASSUME NEW ks \in SUBSET Nat, IsFiniteSet(ks), NEW n \in Nat, n < Cardinality(ks)
    PROVE  \E k \in ks : Place(ks, k) = n
<1> DEFINE m == Cardinality(ks)
           T == 0..(m - 1)
           f == [k \in ks |-> Place(ks, k)]
<1>1. m \in Nat
  BY FS_CardinalityType
<1>2. IsFiniteSet(T) /\ Cardinality(T) = m
  <2>1. 0 \in Int /\ m - 1 \in Int
    BY <1>1
  <2> HIDE DEF m
  <2>2. IsFiniteSet(0..(m - 1)) /\ Cardinality(0..(m - 1)) = IF 0 > m - 1 THEN 0 ELSE m - 1 - 0 + 1
    BY <2>1, FS_Interval
  <2> QED BY <1>1, <2>2
<1>3. f \in [ks -> T]
  <2> SUFFICES ASSUME NEW k \in ks PROVE Place(ks, k) \in T
    OBVIOUS
  <2>1. Place(ks, k) \in Nat /\ Place(ks, k) < m
    BY PlaceType
  <2> HIDE DEF m
  <2> QED BY <1>1, <2>1
<1>4. \A i, k \in ks : f[i] = f[k] => i = k
  BY PlaceIsUnique
<1>5. f \in Injection(ks, T)
  <2> HIDE DEF f, T
  <2> QED BY <1>3, <1>4 DEF Injection, IsInjective
<1>6. f \in Surjection(ks, T)
  <2> HIDE DEF f, T, m
  <2>1. Cardinality(ks) = Cardinality(T)
    BY <1>2 DEF m
  <2> QED BY <1>2, <1>5, <2>1, FS_Injection
<1>7. n \in T
  BY <1>1
<1>8. PICK k \in ks : f[k] = n
  <2> HIDE DEF f, T
  <2> QED BY <1>6, <1>7 DEF Surjection
<1> QED BY <1>8

\* The least has none before it.
LEMMA PlaceOfMin ==
    ASSUME NEW ks \in SUBSET Nat, NEW k \in ks, IsFiniteSet(ks), Place(ks, k) = 0
    PROVE  k = Min(ks)
<1>1. {j \in ks : j < k} = {}
  <2>1. IsFiniteSet({j \in ks : j < k})
    BY FS_Subset
  <2> QED BY <2>1, FS_EmptySet DEF Place
<1>2. \A j \in ks : k <= j
  BY <1>1
<1>3. PICK x \in ks : x = Min(ks) /\ \A y \in ks : x <= y
  BY <1>2 DEF Min
<1> QED BY <1>2, <1>3

\* More elements, all of them behind the others.
LEMMA PlaceInUnion ==
    ASSUME NEW ks \in SUBSET Nat, NEW more \in SUBSET Nat, IsFiniteSet(ks), IsFiniteSet(more),
           \A k \in ks, m \in more : k < m
    PROVE  /\ IsFiniteSet(ks \cup more) /\ ks \cup more \in SUBSET Nat
           /\ Cardinality(ks \cup more) = Cardinality(ks) + Cardinality(more)
           /\ \A k \in ks : Place(ks \cup more, k) = Place(ks, k)
           /\ \A m \in more : Place(ks \cup more, m) = Cardinality(ks) + Place(more, m)
<1>0. Cardinality(ks) \in Nat /\ Cardinality(more) \in Nat
  BY FS_CardinalityType
<1>1. ASSUME NEW S \in SUBSET more
      PROVE  IsFiniteSet(ks \cup S) /\ Cardinality(ks \cup S) = Cardinality(ks) + Cardinality(S)
  <2>1. IsFiniteSet(S) /\ Cardinality(S) \in Nat
    BY FS_Subset, FS_CardinalityType
  <2>2. \A x : ~(x \in ks /\ x \in S)
    <3> SUFFICES ASSUME NEW x, x \in ks, x \in S PROVE FALSE
      OBVIOUS
    <3>1. x \in more /\ x \in Nat
      OBVIOUS
    <3>2. x < x
      BY <3>1
    <3> QED BY <3>1, <3>2
  <2>3. ks \cap S = {}
    BY <2>2
  <2>4. Cardinality(ks \cap S) = 0
    BY <2>3, FS_EmptySet
  <2>5. IsFiniteSet(ks \cup S)
        /\ Cardinality(ks \cup S) = Cardinality(ks) + Cardinality(S) - Cardinality(ks \cap S)
    BY <2>1, FS_Union
  <2> QED BY <1>0, <2>1, <2>4, <2>5
<1>2. ASSUME NEW k \in ks
      PROVE  {j \in ks \cup more : j < k} = {j \in ks : j < k}
  <2>1. \A j \in more : ~(j < k)
    OBVIOUS
  <2> QED BY <2>1
<1>3. ASSUME NEW m \in more
      PROVE  {j \in ks \cup more : j < m} = ks \cup {j \in more : j < m}
  <2>1. \A j \in ks : j < m
    OBVIOUS
  <2> QED BY <2>1
<1>4. \A m \in more : {j \in more : j < m} \in SUBSET more
  OBVIOUS
<1> QED BY <1>1, <1>2, <1>3, <1>4 DEF Place
=============================================================================
