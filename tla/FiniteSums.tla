---------------------------- MODULE FiniteSums -----------------------------
(***************************************************************************)
(* Sums over finite sets.  MapThenSumSet computes one by a recursive       *)
(* function on the subsets, which is shown to exist and to be unique from  *)
(* the well-foundedness of the strict subset order.                        *)
(***************************************************************************)
EXTENDS Totals, FiniteSetTheorems, WellFoundedInduction, TLAPS

Some(s) == CHOOSE x \in s : TRUE

(* What a sum over s is by the sums over smaller sets.                     *)
OneMore(v, g, s) == IF s = {} THEN 0 ELSE v[Some(s)] + g[s \ {Some(s)}]

(* g is the sum of v over each subset of S.                                *)
SumsUp(v, g, S) == \A s \in SUBSET S : g[s] = OneMore(v, g, s)

Sums(v, S) == CHOOSE g : g = [s \in SUBSET S |-> OneMore(v, g, s)]

LEMMA TotalIsSum == \A v : SumOf(v) = Sums(v, DOMAIN v)[DOMAIN v]
  BY DEF SumOf, MapThenSumSet, MapThenFoldSet, Sums, Some, OneMore

(* A set of subsets of a finite set has a least one.                       *)
LEMMA LeastSubset ==
    ASSUME NEW S, IsFiniteSet(S), NEW T \in SUBSET (SUBSET S), T # {}
    PROVE  \E s \in T : \A t \in T : ~(t \subseteq s /\ t # s)
  <1>1. IsWellFoundedOn(StrictSubsetOrdering(S), SUBSET S)
    BY FS_StrictSubsetOrderingWellFounded, FS_FiniteSubsetsOfFinite
  <1>2. PICK s \in T : \A t \in T : ~(<<t, s>> \in StrictSubsetOrdering(S))
    BY <1>1, WFMin
  <1>3. ASSUME NEW t \in T, t \subseteq s, t # s PROVE FALSE
    <2>1. t \in SUBSET S /\ s \in SUBSET S
      OBVIOUS
    <2>2. <<t, s>> \in StrictSubsetOrdering(S)
      BY <1>3, <2>1 DEF StrictSubsetOrdering
    <2>3. QED
      BY <1>2, <2>2
  <1>4. QED
    BY <1>3

LEMMA SomeIsIn == \A s : s # {} => Some(s) \in s
  BY DEF Some

(* Functions that agree on S have the same sums.                           *)
LEMMA SumsAgree ==
    ASSUME NEW S, IsFiniteSet(S), NEW v, NEW w, \A x \in S : v[x] = w[x],
           NEW g, NEW h, SumsUp(v, g, S), SumsUp(w, h, S)
    PROVE  \A s \in SUBSET S : g[s] = h[s]
  <1> DEFINE T == {s \in SUBSET S : g[s] # h[s]}
  <1>1. ASSUME T # {} PROVE FALSE
    <2>1. PICK s \in T : \A t \in T : ~(t \subseteq s /\ t # s)
      <3>1. T \in SUBSET (SUBSET S)
        OBVIOUS
      <3> HIDE DEF T
      <3>2. QED
        BY <1>1, <3>1, LeastSubset
    <2>2. CASE s = {}
      BY <2>1, <2>2 DEF SumsUp, OneMore
    <2>3. CASE s # {}
      <3> DEFINE x == Some(s)
      <3>1. x \in s /\ s \ {x} \in SUBSET S
        BY <2>1, <2>3, SomeIsIn
      <3>2. s \ {x} \notin T
        BY <2>1, <3>1
      <3>3. g[s \ {x}] = h[s \ {x}] /\ v[x] = w[x]
        BY <2>1, <3>1, <3>2
      <3>4. QED
        BY <2>1, <2>3, <3>3 DEF SumsUp, OneMore
    <2>4. QED
      BY <2>2, <2>3
  <1>2. QED
    BY <1>1

LEMMA SumsOfSubset ==
    ASSUME NEW v, NEW g, NEW S, SumsUp(v, g, S), NEW T \in SUBSET S
    PROVE  SumsUp(v, g, T)
  BY DEF SumsUp

LEMMA SumsExist ==
    ASSUME NEW S, IsFiniteSet(S), NEW v
    PROVE  \E g : SumsUp(v, g, S)
  <1> DEFINE T == {t \in SUBSET S : ~\E g : SumsUp(v, g, t)}
  <1>1. ASSUME T # {} PROVE FALSE
    <2>1. PICK t \in T : \A s \in T : ~(s \subseteq t /\ s # t)
      <3>1. T \in SUBSET (SUBSET S)
        OBVIOUS
      <3> HIDE DEF T
      <3>2. QED
        BY <1>1, <3>1, LeastSubset
    <2> DEFINE H(s) == CHOOSE g : SumsUp(v, g, s)
    <2>2. \A s \in SUBSET t : s # t => SumsUp(v, H(s), s)
      <3> SUFFICES ASSUME NEW s \in SUBSET t, s # t PROVE SumsUp(v, H(s), s)
        OBVIOUS
      <3>1. \E g : SumsUp(v, g, s)
        BY <2>1
      <3>2. QED
        BY <3>1
    <2> HIDE DEF H
    <2> DEFINE G == [s \in SUBSET t |-> OneMore(v, H(s \ {Some(s)}), s)]
    <2>3. ASSUME NEW s \in SUBSET t, s # t PROVE G[s] = H(s)[s]
      <3>1. CASE s = {}
        BY <2>2, <2>3, <3>1 DEF SumsUp, OneMore
      <3>2. CASE s # {}
        <4> DEFINE r == s \ {Some(s)}
        <4>1. Some(s) \in s /\ r \in SUBSET t /\ r # t /\ r \in SUBSET s /\ r \in SUBSET r
          BY <3>2, SomeIsIn
        <4>2. SumsUp(v, H(s), s) /\ SumsUp(v, H(r), r)
          BY <2>2, <2>3, <4>1
        <4>3. SumsUp(v, H(s), r)
          BY <4>1, <4>2, SumsOfSubset
        <4>4. IsFiniteSet(r)
          BY <2>1, <4>1, FS_Subset
        <4>5. H(s)[r] = H(r)[r]
          BY <4>1, <4>2, <4>3, <4>4, SumsAgree
        <4>6. H(s)[s] = v[Some(s)] + H(s)[r]
          BY <3>2, <4>2 DEF SumsUp, OneMore
        <4>7. G[s] = v[Some(s)] + H(r)[r]
          BY <3>2 DEF OneMore
        <4>8. QED
          BY <4>5, <4>6, <4>7
      <3>3. QED
        BY <3>1, <3>2
    <2>4. ASSUME NEW s \in SUBSET t PROVE G[s] = OneMore(v, G, s)
      <3>1. CASE s = {}
        BY <3>1 DEF OneMore
      <3>2. CASE s # {}
        <4> DEFINE r == s \ {Some(s)}
        <4>1. r \in SUBSET t /\ r # t
          BY <3>2, SomeIsIn
        <4>2. G[r] = H(r)[r]
          BY <2>3, <4>1
        <4>3. QED
          BY <3>2, <4>2 DEF OneMore
      <3>3. QED
        BY <3>1, <3>2
    <2>5. SumsUp(v, G, t)
      BY <2>4 DEF SumsUp
    <2>6. QED
      BY <2>1, <2>5
  <1>2. S \notin T
    BY <1>1
  <1>3. QED
    BY <1>2

(* Sums satisfies its equation.                                            *)
LEMMA SumsEquation ==
    ASSUME NEW S, IsFiniteSet(S), NEW v
    PROVE  Sums(v, S) = [s \in SUBSET S |-> OneMore(v, Sums(v, S), s)]
  <1>1. PICK g : SumsUp(v, g, S)
    BY SumsExist
  <1> DEFINE G == [s \in SUBSET S |-> g[s]]
  <1>2. ASSUME NEW s \in SUBSET S PROVE OneMore(v, g, s) = OneMore(v, G, s)
    <2>1. s \ {Some(s)} \in SUBSET S
      OBVIOUS
    <2>2. QED
      BY <2>1 DEF OneMore
  <1>3. G = [s \in SUBSET S |-> OneMore(v, G, s)]
    BY <1>1, <1>2 DEF SumsUp
  <1> HIDE DEF G
  <1>4. QED
    BY <1>3 DEF Sums

LEMMA SumsDefined ==
    ASSUME NEW S, IsFiniteSet(S), NEW v
    PROVE  SumsUp(v, Sums(v, S), S)
  <1>1. Sums(v, S) = [s \in SUBSET S |-> OneMore(v, Sums(v, S), s)]
    BY SumsEquation
  <1>2. QED
    BY <1>1 DEF SumsUp

LEMMA Exchange ==
    ASSUME NEW p \in Nat, NEW q \in Nat, NEW c \in Nat, NEW a, NEW b, NEW d,
           b = q + c, a = p + b, d = p + c
    PROVE  a = q + d
  OBVIOUS

(* A sum of naturals is a natural, and may be taken in any order.          *)
LEMMA SumsTake ==
    ASSUME NEW S, IsFiniteSet(S), NEW v, \A x \in S : v[x] \in Nat
    PROVE  \A s \in SUBSET S : /\ Sums(v, S)[s] \in Nat
                               /\ \A x \in s : Sums(v, S)[s] = v[x] + Sums(v, S)[s \ {x}]
  <1> DEFINE g == Sums(v, S)
             T == {s \in SUBSET S : ~(/\ g[s] \in Nat
                                     /\ \A x \in s : g[s] = v[x] + g[s \ {x}])}
  <1>1. SumsUp(v, g, S)
    BY SumsDefined
  <1> HIDE DEF g
  <1>2. ASSUME T # {} PROVE FALSE
    <2>1. PICK s \in T : \A t \in T : ~(t \subseteq s /\ t # s)
      <3>1. T \in SUBSET (SUBSET S)
        OBVIOUS
      <3> HIDE DEF T
      <3>2. QED
        BY <1>2, <3>1, LeastSubset
    <2>2. \A t \in SUBSET s : t # s =>
             g[t] \in Nat /\ \A x \in t : g[t] = v[x] + g[t \ {x}]
      BY <2>1
    <2>3. CASE s = {}
      <3>1. g[s] = 0
        BY <1>1, <2>1, <2>3 DEF SumsUp, OneMore
      <3>2. QED
        BY <2>1, <2>3, <3>1
    <2>4. CASE s # {}
      <3> DEFINE y == Some(s)
      <3>1. y \in s /\ s \ {y} \in SUBSET s /\ s \ {y} # s
        BY <2>4, SomeIsIn
      <3>2. g[s] = v[y] + g[s \ {y}]
        BY <1>1, <2>1, <2>4 DEF SumsUp, OneMore
      <3> HIDE DEF y
      <3>3. g[s \ {y}] \in Nat /\ v[y] \in Nat
        BY <2>1, <2>2, <3>1
      <3>4. ASSUME NEW x \in s PROVE g[s] = v[x] + g[s \ {x}]
        <4>1. CASE x = y
          BY <3>2, <4>1
        <4>2. CASE x # y
          <5>1. /\ x \in s \ {y} /\ y \in s \ {x} /\ s \ {x} \in SUBSET s /\ s \ {x} # s
                /\ (s \ {x}) \ {y} = (s \ {y}) \ {x}
                /\ (s \ {x}) \ {y} \in SUBSET s /\ (s \ {x}) \ {y} # s
            BY <3>1, <4>2
          <5>2. g[s \ {y}] = v[x] + g[(s \ {y}) \ {x}]
            BY <2>2, <3>1, <5>1
          <5>3. g[s \ {x}] = v[y] + g[(s \ {x}) \ {y}]
            BY <2>2, <5>1
          <5>4. v[x] \in Nat /\ g[(s \ {x}) \ {y}] \in Nat
            BY <2>1, <2>2, <5>1
          <5>5. g[s \ {x}] = v[y] + g[(s \ {y}) \ {x}]
            BY <5>1, <5>3
          <5>6. v[x] \in Nat /\ g[(s \ {y}) \ {x}] \in Nat
            BY <5>1, <5>4
          <5> HIDE DEF T
          <5>7. QED
            BY <3>2, <3>3, <5>2, <5>5, <5>6, Exchange
        <4>3. QED
          BY <4>1, <4>2
      <3>5. g[s] \in Nat
        BY <3>2, <3>3
      <3>6. QED
        BY <2>1, <3>4, <3>5
    <2>5. QED
      BY <2>3, <2>4
  <1>3. QED
    BY <1>2 DEF g

LEMMA SumsRestrict ==
    ASSUME NEW S, IsFiniteSet(S), NEW v, NEW T \in SUBSET S, NEW w, \A x \in T : v[x] = w[x]
    PROVE  Sums(v, S)[T] = Sums(w, T)[T]
  <1>1. IsFiniteSet(T)
    BY FS_Subset
  <1>2. SumsUp(v, Sums(v, S), T) /\ SumsUp(w, Sums(w, T), T)
    BY <1>1, SumsDefined, SumsOfSubset
  <1>3. T \in SUBSET T
    OBVIOUS
  <1>4. QED
    BY <1>1, <1>2, <1>3, SumsAgree

LEMMA TotalNat ==
    ASSUME NEW S, IsFiniteSet(S), NEW v \in [S -> Nat]
    PROVE  SumOf(v) \in Nat
  <1>1. \A x \in S : v[x] \in Nat
    OBVIOUS
  <1>2. Sums(v, S)[S] \in Nat
    BY <1>1, SumsTake
  <1>3. QED
    BY <1>2, TotalIsSum

LEMMA TotalEmpty == \A v : DOMAIN v = {} => SumOf(v) = 0
  <1> SUFFICES ASSUME NEW v, DOMAIN v = {} PROVE SumOf(v) = 0
    OBVIOUS
  <1>1. SumsUp(v, Sums(v, {}), {})
    BY SumsDefined, FS_EmptySet
  <1>2. QED
    BY <1>1, TotalIsSum DEF SumsUp, OneMore

Without(v, x) == [y \in (DOMAIN v) \ {x} |-> v[y]]

LEMMA TotalTake ==
    ASSUME NEW S, IsFiniteSet(S), NEW v \in [S -> Nat], NEW x \in S
    PROVE  SumOf(v) = v[x] + SumOf(Without(v, x))
  <1> DEFINE w == Without(v, x)
             T == S \ {x}
  <1>1. DOMAIN w = T /\ T \in SUBSET S /\ \A y \in T : v[y] = w[y]
    BY DEF Without
  <1>2. \A y \in S : v[y] \in Nat
    OBVIOUS
  <1>3. Sums(v, S)[S] = v[x] + Sums(v, S)[T]
    BY <1>2, SumsTake
  <1> HIDE DEF w, T
  <1>4. Sums(v, S)[T] = Sums(w, T)[T]
    BY <1>1, SumsRestrict
  <1>5. QED
    BY <1>1, <1>3, <1>4, TotalIsSum DEF w

(* Naming the elements anew leaves the sum.                                *)
LEMMA TotalRenamed ==
    ASSUME NEW S, IsFiniteSet(S), NEW R, NEW f \in Bijection(S, R),
           NEW v \in [R -> Nat], NEW w \in [S -> Nat], \A x \in S : w[x] = v[f[x]]
    PROVE  SumOf(v) = SumOf(w)
  <1>0. /\ f \in [S -> R] /\ \A x, y \in S : f[x] = f[y] => x = y
        /\ \A r \in R : \E x \in S : f[x] = r
    BY DEF Bijection, Injection, Surjection, IsInjective
  <1> DEFINE I(s) == {f[x] : x \in s}
             g == Sums(v, R)
             h == Sums(w, S)
             T == {s \in SUBSET S : g[I(s)] # h[s]}
  <1>1. IsFiniteSet(R) /\ I(S) = R /\ \A s \in SUBSET S : I(s) \in SUBSET R
    <2>1. f \in Surjection(S, R)
      BY DEF Bijection
    <2>2. IsFiniteSet(R)
      BY <2>1, FS_Surjection
    <2>3. QED
      BY <1>0, <2>2
  <1>2. \A r \in SUBSET R : \A x \in r : g[r] = v[x] + g[r \ {x}]
    <2>1. \A x \in R : v[x] \in Nat
      OBVIOUS
    <2> HIDE DEF g
    <2>2. \A s \in SUBSET R : /\ Sums(v, R)[s] \in Nat
                             /\ \A x \in s : Sums(v, R)[s] = v[x] + Sums(v, R)[s \ {x}]
      BY <1>1, <2>1, SumsTake
    <2>3. QED
      BY <2>2 DEF g
  <1>3. SumsUp(w, h, S) /\ g[{}] = 0
    <2>1. SumsUp(v, g, R)
      BY <1>1, SumsDefined
    <2>2. {} \in SUBSET R
      OBVIOUS
    <2>3. SumsUp(w, h, S)
      BY SumsDefined
    <2> HIDE DEF g
    <2>4. QED
      BY <2>1, <2>2, <2>3 DEF SumsUp, OneMore
  <1> HIDE DEF g, h
  <1>4. ASSUME T # {} PROVE FALSE
    <2>1. PICK s \in T : \A t \in T : ~(t \subseteq s /\ t # s)
      <3>1. T \in SUBSET (SUBSET S)
        OBVIOUS
      <3> HIDE DEF T
      <3>2. QED
        BY <1>4, <3>1, LeastSubset
    <2>2. CASE s = {}
      <3>1. I(s) = {} /\ h[s] = 0
        BY <1>3, <2>1, <2>2 DEF SumsUp, OneMore
      <3>2. QED
        BY <1>3, <2>1, <3>1
    <2>3. CASE s # {}
      <3> DEFINE x == Some(s)
                 t == s \ {x}
      <3>1. x \in s /\ t \in SUBSET S /\ t \subseteq s /\ t # s
        BY <2>1, <2>3, SomeIsIn
      <3>2. h[s] = w[x] + h[t]
        BY <1>3, <2>1, <2>3 DEF SumsUp, OneMore
      <3> HIDE DEF x
      <3>3. f[x] \in I(s) /\ I(t) = I(s) \ {f[x]}
        BY <1>0, <2>1, <3>1
      <3>4. g[I(s)] = v[f[x]] + g[I(t)]
        <4>1. I(s) \in SUBSET R
          BY <1>1, <2>1
        <4> HIDE DEF I
        <4>2. QED
          BY <1>2, <3>3, <4>1
      <3>5. g[I(t)] = h[t]
        BY <2>1, <3>1
      <3>6. w[x] = v[f[x]]
        BY <2>1, <3>1
      <3>7. g[I(s)] = h[s]
        BY <3>2, <3>4, <3>5, <3>6
      <3>8. QED
        BY <2>1, <3>7
    <2>4. QED
      BY <2>2, <2>3
  <1>5. g[I(S)] = h[S]
    BY <1>4
  <1>6. QED
    BY <1>1, <1>5, TotalIsSum DEF g, h
LEMMA TimesOneMore ==
    ASSUME NEW m \in Nat, NEW n \in Nat
    PROVE  m * n \in Nat /\ m * (n + 1) = m * n + m
  OBVIOUS

(* A sum of terms up to m.                                                 *)
LEMMA TotalBounded ==
    ASSUME NEW S, IsFiniteSet(S), NEW m \in Nat, NEW v \in [S -> Nat], \A x \in S : v[x] <= m
    PROVE  SumOf(v) \in 0 .. m * Cardinality(S)
  <1> DEFINE g == Sums(v, S)
             T == {s \in SUBSET S : ~(g[s] <= m * Cardinality(s))}
  <1>1. \A s \in SUBSET S : g[s] \in Nat /\ \A x \in s : g[s] = v[x] + g[s \ {x}]
    <2>1. \A x \in S : v[x] \in Nat
      OBVIOUS
    <2> HIDE DEF g, T
    <2>2. \A s \in SUBSET S : /\ Sums(v, S)[s] \in Nat
                             /\ \A x \in s : Sums(v, S)[s] = v[x] + Sums(v, S)[s \ {x}]
      BY <2>1, SumsTake
    <2>3. QED
      BY <2>2 DEF g
  <1>2. SumsUp(v, g, S)
    BY SumsDefined
  <1> HIDE DEF g
  <1>3. ASSUME T # {} PROVE FALSE
    <2>1. PICK s \in T : \A t \in T : ~(t \subseteq s /\ t # s)
      <3>1. T \in SUBSET (SUBSET S)
        OBVIOUS
      <3> HIDE DEF T
      <3>2. QED
        BY <1>3, <3>1, LeastSubset
    <2>2. IsFiniteSet(s) /\ Cardinality(s) \in Nat
      BY <2>1, FS_Subset, FS_CardinalityType
    <2>3. s # {}
      <3>1. CASE s = {}
        <4>1. g[s] = 0
          BY <1>2, <2>1, <3>1 DEF SumsUp, OneMore
        <4>2. m * Cardinality(s) \in Nat
          BY <2>2, TimesOneMore
        <4>3. QED
          BY <2>1, <4>1, <4>2
      <3>2. QED
        BY <3>1
    <2>4. PICK x \in s : TRUE
      BY <2>3
    <2> DEFINE t == s \ {x}
    <2>5. IsFiniteSet(t) /\ Cardinality(t) = Cardinality(s) - 1 /\ Cardinality(t) \in Nat
      BY <2>2, FS_RemoveElement, FS_CardinalityType
    <2>6. g[t] <= m * Cardinality(t) /\ g[t] \in Nat /\ g[s] = v[x] + g[t] /\ v[x] \in Nat /\ v[x] <= m
      <3>1. t \in SUBSET S /\ t \subseteq s /\ t # s /\ s \in SUBSET S /\ x \in S
        BY <2>1
      <3>2. t \notin T
        BY <2>1, <3>1
      <3>3. g[t] <= m * Cardinality(t)
        BY <3>1, <3>2
      <3> HIDE DEF T, t
      <3>4. g[s] = v[x] + g[s \ {x}]
        BY <1>1, <3>1
      <3>5. QED
        BY <1>1, <3>1, <3>3, <3>4 DEF t
    <2> HIDE DEF t
    <2>7. m * (Cardinality(t) + 1) = m * Cardinality(t) + m /\ m * Cardinality(t) \in Nat
      BY <2>5, TimesOneMore
    <2>8. Cardinality(s) = Cardinality(t) + 1
      BY <2>2, <2>5
    <2>9. g[s] <= m * Cardinality(s)
      BY <2>6, <2>7, <2>8
    <2>10. QED
      BY <2>1, <2>9
  <1>4. g[S] <= m * Cardinality(S) /\ g[S] \in Nat
    BY <1>1, <1>3
  <1>5. m * Cardinality(S) \in Nat
    BY FS_CardinalityType, TimesOneMore
  <1>6. SumOf(v) = g[S]
    BY TotalIsSum DEF g
  <1>7. QED
    BY <1>4, <1>5, <1>6

(* A term that changes changes the sum by as much.                         *)
LEMMA TotalChanged ==
    ASSUME NEW S, IsFiniteSet(S), NEW v \in [S -> Nat], NEW w \in [S -> Nat],
           NEW x \in S, \A y \in S \ {x} : w[y] = v[y]
    PROVE  SumOf(w) + v[x] = SumOf(v) + w[x]
  <1>1. Without(w, x) = Without(v, x)
    BY DEF Without
  <1>2. Without(v, x) \in [S \ {x} -> Nat]
    BY DEF Without
  <1>3. IsFiniteSet(S \ {x})
    BY FS_Subset
  <1>4. SumOf(Without(v, x)) \in Nat
    BY <1>2, <1>3, TotalNat
  <1>5. SumOf(v) = v[x] + SumOf(Without(v, x)) /\ SumOf(w) = w[x] + SumOf(Without(v, x))
    BY <1>1, TotalTake
  <1>6. v[x] \in Nat /\ w[x] \in Nat
    OBVIOUS
  <1>7. QED
    BY <1>4, <1>5, <1>6

-----------------------------------------------------------------------------
(* Sums over the subsets of a set, element by element.                     *)

On(v, s) == [x \in s |-> v[x]]

(* A family of subsets with the empty one that is closed under adding an   *)
(* element has them all.                                                   *)
LEMMA SubsetsReached ==
    ASSUME NEW S, IsFiniteSet(S), NEW T \in SUBSET (SUBSET S), {} \in T,
           \A s \in T : \A x \in S \ s : s \cup {x} \in T
    PROVE  \A s \in SUBSET S : s \in T
  <1> DEFINE U == (SUBSET S) \ T
  <1>1. ASSUME U # {} PROVE FALSE
    <2>1. U \in SUBSET (SUBSET S)
      OBVIOUS
    <2> HIDE DEF U
    <2>2. PICK s \in U : \A t \in U : ~(t \subseteq s /\ t # s)
      BY <1>1, <2>1, LeastSubset
    <2>3. s \in SUBSET S /\ s # {} /\ s \notin T
      BY <2>2 DEF U
    <2>4. PICK x \in s : TRUE
      BY <2>3
    <2>5. s \ {x} \subseteq s /\ s \ {x} # s /\ s \ {x} \in SUBSET S /\ (s \ {x}) \cup {x} = s
      BY <2>3, <2>4
    <2>6. s \ {x} \in T
      BY <2>2, <2>5 DEF U
    <2>7. x \in S \ (s \ {x})
      BY <2>3, <2>4
    <2>8. QED
      BY <2>3, <2>5, <2>6, <2>7
  <1>2. QED
    BY <1>1

LEMMA OnAll == ASSUME NEW S, NEW V, NEW v \in [S -> V] PROVE On(v, S) = v
  BY DEF On

LEMMA SumOfNone == \A v : SumOf(On(v, {})) = 0
  BY TotalEmpty DEF On

LEMMA SumOfOneMore ==
    ASSUME NEW s, IsFiniteSet(s), NEW x, x \notin s, NEW v, \A y \in s \cup {x} : v[y] \in Nat
    PROVE  /\ SumOf(On(v, s \cup {x})) = v[x] + SumOf(On(v, s))
           /\ SumOf(On(v, s)) \in Nat /\ SumOf(On(v, s \cup {x})) \in Nat
  <1> DEFINE more == s \cup {x}
  <1>1. IsFiniteSet(more)
    BY FS_AddElement
  <1>2. On(v, more) \in [more -> Nat] /\ On(v, s) \in [s -> Nat] /\ x \in more
    BY DEF On
  <1>3. Without(On(v, more), x) = On(v, s) /\ On(v, more)[x] = v[x]
    <2>1. more \ {x} = s
      OBVIOUS
    <2>2. DOMAIN On(v, more) = more /\ \A y \in more : On(v, more)[y] = v[y]
      BY DEF On
    <2>3. Without(On(v, more), x) = [y \in s |-> On(v, more)[y]]
      BY <2>1, <2>2 DEF Without
    <2>4. [y \in s |-> On(v, more)[y]] = [y \in s |-> v[y]]
      BY <2>2
    <2>5. QED
      BY <1>2, <2>2, <2>3, <2>4 DEF On
  <1> HIDE DEF more
  <1>4. SumOf(On(v, more)) = v[x] + SumOf(On(v, s))
    BY <1>1, <1>2, <1>3, TotalTake
  <1>5. SumOf(On(v, s)) \in Nat /\ SumOf(On(v, more)) \in Nat
    BY <1>1, <1>2, TotalNat
  <1>6. QED
    BY <1>4, <1>5 DEF more

(* Two sums are added term by term.                                        *)
LEMMA SumOfSums ==
    ASSUME NEW S, IsFiniteSet(S), NEW v \in [S -> Nat], NEW w \in [S -> Nat]
    PROVE  SumOf([x \in S |-> v[x] + w[x]]) = SumOf(v) + SumOf(w)
  <1> DEFINE b == [x \in S |-> v[x] + w[x]]
             T == {s \in SUBSET S : SumOf(On(b, s)) = SumOf(On(v, s)) + SumOf(On(w, s))}
  <1>1. b \in [S -> Nat] /\ \A x \in S : b[x] = v[x] + w[x]
    OBVIOUS
  <1> HIDE DEF b
  <1>2. {} \in T
    BY SumOfNone
  <1>3. ASSUME NEW s \in T, NEW x \in S \ s PROVE s \cup {x} \in T
    <2>1. IsFiniteSet(s) /\ s \in SUBSET S /\ s \cup {x} \in SUBSET S
      BY <1>3, FS_Subset
    <2>2. /\ SumOf(On(b, s \cup {x})) = b[x] + SumOf(On(b, s))
          /\ SumOf(On(v, s \cup {x})) = v[x] + SumOf(On(v, s)) /\ SumOf(On(v, s)) \in Nat
          /\ SumOf(On(w, s \cup {x})) = w[x] + SumOf(On(w, s)) /\ SumOf(On(w, s)) \in Nat
      <3>1. \A y \in s \cup {x} : b[y] \in Nat /\ v[y] \in Nat /\ w[y] \in Nat
        BY <1>1, <2>1
      <3>2. QED
        BY <2>1, <3>1, SumOfOneMore
    <2>3. SumOf(On(b, s)) = SumOf(On(v, s)) + SumOf(On(w, s))
      OBVIOUS
    <2>4. v[x] \in Nat /\ w[x] \in Nat /\ b[x] = v[x] + w[x]
      BY <1>1
    <2>5. SumOf(On(b, s \cup {x})) = SumOf(On(v, s \cup {x})) + SumOf(On(w, s \cup {x}))
      BY <2>2, <2>3, <2>4
    <2>6. QED
      BY <2>1, <2>5
  <1>4. S \in T
    <2>1. T \in SUBSET (SUBSET S) /\ S \in SUBSET S
      OBVIOUS
    <2> HIDE DEF T
    <2>2. QED
      BY <1>2, <1>3, <2>1, SubsetsReached
  <1>5. SumOf(On(b, S)) = SumOf(On(v, S)) + SumOf(On(w, S))
    BY <1>4
  <1>6. On(b, S) = b /\ On(v, S) = v /\ On(w, S) = w
    BY <1>1, OnAll
  <1>7. QED
    BY <1>5, <1>6 DEF b

LEMMA SumOfZeros ==
    ASSUME NEW S, IsFiniteSet(S), NEW v \in [S -> Nat], \A x \in S : v[x] = 0
    PROVE  SumOf(v) = 0
  <1>1. SumOf(v) \in 0 .. 0 * Cardinality(S)
    BY TotalBounded
  <1>2. 0 * Cardinality(S) = 0
    BY FS_CardinalityType
  <1>3. QED
    BY <1>1, <1>2

(* A set of terms, and the others, add up to all.                          *)
LEMMA SumOfSplit ==
    ASSUME NEW S, IsFiniteSet(S), NEW v \in [S -> Nat], NEW R \in SUBSET S
    PROVE  SumOf(v) = SumOf(On(v, R)) + SumOf(On(v, S \ R))
  <1> DEFINE T == {s \in SUBSET S : SumOf(On(v, s)) = SumOf(On(v, s \cap R)) + SumOf(On(v, s \ R))}
  <1>1. {} \in T
    <2>1. {} \cap R = {} /\ {} \ R = {}
      OBVIOUS
    <2>2. QED
      BY <2>1, SumOfNone
  <1>2. ASSUME NEW s \in T, NEW x \in S \ s PROVE s \cup {x} \in T
    <2>1. /\ s \in SUBSET S /\ s \cup {x} \in SUBSET S /\ x \notin s
          /\ IsFiniteSet(s) /\ IsFiniteSet(s \cap R) /\ IsFiniteSet(s \ R)
      BY <1>2, FS_Subset
    <2>2. \A y \in s \cup {x} : v[y] \in Nat
      BY <2>1
    <2>3. SumOf(On(v, s)) = SumOf(On(v, s \cap R)) + SumOf(On(v, s \ R))
      OBVIOUS
    <2>4. /\ SumOf(On(v, s \cup {x})) = v[x] + SumOf(On(v, s)) /\ v[x] \in Nat
          /\ SumOf(On(v, (s \cap R) \cup {x})) = v[x] + SumOf(On(v, s \cap R))
          /\ SumOf(On(v, (s \ R) \cup {x})) = v[x] + SumOf(On(v, s \ R))
          /\ SumOf(On(v, s \cap R)) \in Nat /\ SumOf(On(v, s \ R)) \in Nat
      BY <2>1, <2>2, SumOfOneMore
    <2> DEFINE in == SumOf(On(v, s \cap R))
               out == SumOf(On(v, s \ R))
               both == (s \cup {x}) \cap R
               rest == (s \cup {x}) \ R
    <2> HIDE DEF T
    <2>5. v[x] + (in + out) = (v[x] + in) + out /\ v[x] + (in + out) = in + (v[x] + out)
      BY <2>4
    <2>6. CASE x \in R
      <3>1. both = (s \cap R) \cup {x} /\ rest = s \ R
        BY <2>6
      <3>2. SumOf(On(v, s \cup {x})) = SumOf(On(v, both)) + SumOf(On(v, rest))
        BY <2>3, <2>4, <2>5, <3>1
      <3>3. QED
        BY <2>1, <3>2 DEF T
    <2>7. CASE x \notin R
      <3>1. both = s \cap R /\ rest = (s \ R) \cup {x}
        BY <2>1, <2>7
      <3>2. SumOf(On(v, s \cup {x})) = SumOf(On(v, both)) + SumOf(On(v, rest))
        BY <2>3, <2>4, <2>5, <3>1
      <3>3. QED
        BY <2>1, <3>2 DEF T
    <2>8. QED
      BY <2>6, <2>7
  <1>3. S \in T
    <2>1. T \in SUBSET (SUBSET S) /\ S \in SUBSET S
      OBVIOUS
    <2> HIDE DEF T
    <2>2. QED
      BY <1>1, <1>2, <2>1, SubsetsReached
  <1>4. SumOf(On(v, S)) = SumOf(On(v, S \cap R)) + SumOf(On(v, S \ R))
    BY <1>3
  <1>5. S \cap R = R /\ On(v, S) = v
    BY OnAll
  <1>6. QED
    BY <1>4, <1>5

(* No term exceeds the sum, and larger terms give a larger sum.            *)
LEMMA SumOfTerm ==
    ASSUME NEW S, IsFiniteSet(S), NEW v \in [S -> Nat], NEW x \in S
    PROVE  v[x] <= SumOf(v)
  <1>1. Without(v, x) \in [S \ {x} -> Nat] /\ IsFiniteSet(S \ {x})
    BY FS_Subset DEF Without
  <1>2. SumOf(Without(v, x)) \in Nat /\ SumOf(v) = v[x] + SumOf(Without(v, x)) /\ v[x] \in Nat
    BY <1>1, TotalTake, TotalNat
  <1>3. QED
    BY <1>2

LEMMA SumOfLess ==
    ASSUME NEW S, IsFiniteSet(S), NEW v \in [S -> Nat], NEW R \in SUBSET S
    PROVE  SumOf(On(v, R)) <= SumOf(v) /\ SumOf(On(v, R)) \in Nat /\ SumOf(v) \in Nat
  <1>1. IsFiniteSet(R) /\ IsFiniteSet(S \ R)
    BY FS_Subset
  <1>2. On(v, R) \in [R -> Nat] /\ On(v, S \ R) \in [S \ R -> Nat]
    BY DEF On
  <1>3. SumOf(On(v, R)) \in Nat /\ SumOf(On(v, S \ R)) \in Nat /\ SumOf(v) \in Nat
    BY <1>1, <1>2, TotalNat
  <1>4. QED
    BY <1>3, SumOfSplit

(* Equal terms.                                                            *)
LEMMA SumOfSame ==
    ASSUME NEW S, IsFiniteSet(S), NEW c \in Nat, NEW v \in [S -> Nat], \A x \in S : v[x] = c
    PROVE  SumOf(v) = c * Cardinality(S)
  <1> DEFINE T == {s \in SUBSET S : SumOf(On(v, s)) = c * Cardinality(s)}
  <1>1. {} \in T
    <2>1. Cardinality({}) = 0 /\ c * 0 = 0
      BY FS_EmptySet
    <2>2. QED
      BY <2>1, SumOfNone
  <1>2. ASSUME NEW s \in T, NEW x \in S \ s PROVE s \cup {x} \in T
    <2>1. IsFiniteSet(s) /\ s \in SUBSET S /\ s \cup {x} \in SUBSET S /\ x \notin s
      BY <1>2, FS_Subset
    <2>2. SumOf(On(v, s \cup {x})) = v[x] + SumOf(On(v, s))
      <3>1. \A y \in s \cup {x} : v[y] \in Nat
        BY <2>1
      <3>2. QED
        BY <2>1, <3>1, SumOfOneMore
    <2>3. Cardinality(s \cup {x}) = Cardinality(s) + 1 /\ Cardinality(s) \in Nat
      BY <2>1, FS_AddElement, FS_CardinalityType
    <2>4. SumOf(On(v, s)) = c * Cardinality(s) /\ v[x] = c
      OBVIOUS
    <2>5. c * (Cardinality(s) + 1) = c * Cardinality(s) + c /\ c * Cardinality(s) \in Nat
      BY <2>3, TimesOneMore
    <2>6. SumOf(On(v, s \cup {x})) = c * Cardinality(s \cup {x})
      BY <2>2, <2>3, <2>4, <2>5
    <2>7. QED
      BY <2>1, <2>6
  <1>3. S \in T
    <2>1. T \in SUBSET (SUBSET S) /\ S \in SUBSET S
      OBVIOUS
    <2> HIDE DEF T
    <2>2. QED
      BY <1>1, <1>2, <2>1, SubsetsReached
  <1>4. SumOf(On(v, S)) = c * Cardinality(S)
    BY <1>3
  <1>5. QED
    BY <1>4, OnAll

(* The sums of the rows and the sums of the columns add up to the same.    *)
LEMMA SumsExchanged ==
    ASSUME NEW R, IsFiniteSet(R), NEW S, IsFiniteSet(S), NEW v \in [R -> [S -> Nat]]
    PROVE  SumOf([x \in R |-> SumOf(v[x])]) = SumOf([y \in S |-> SumOf([x \in R |-> v[x][y]])])
  <1> DEFINE Column(y) == [x \in R |-> v[x][y]]
             row == [x \in R |-> SumOf(v[x])]
             Columns(r) == [y \in S |-> SumOf(On(Column(y), r))]
             T == {r \in SUBSET R : SumOf(On(row, r)) = SumOf(Columns(r))}
  <1>1. \A x \in R : row[x] = SumOf(v[x]) /\ row[x] \in Nat
    BY TotalNat
  <1>2. \A y \in S : Column(y) \in [R -> Nat]
    OBVIOUS
  <1>3. \A r \in SUBSET R : Columns(r) \in [S -> Nat]
    <2>1. ASSUME NEW r \in SUBSET R, NEW y \in S PROVE SumOf(On(Column(y), r)) \in Nat
      <3>1. On(Column(y), r) \in [r -> Nat] /\ IsFiniteSet(r)
        BY <1>2, FS_Subset DEF On
      <3>2. QED
        BY <3>1, TotalNat
    <2>2. QED
      BY <2>1
  <1>4. {} \in T
    <2>1. \A y \in S : Columns({})[y] = 0
      BY SumOfNone
    <2>2. SumOf(Columns({})) = 0
      <3>1. Columns({}) \in [S -> Nat]
        BY <1>3
      <3> HIDE DEF Columns
      <3>2. QED
        BY <2>1, <3>1, SumOfZeros
    <2>3. QED
      BY <2>2, SumOfNone
  <1>5. ASSUME NEW r \in T, NEW x \in R \ r PROVE r \cup {x} \in T
    <2>1. IsFiniteSet(r) /\ r \in SUBSET R /\ r \cup {x} \in SUBSET R /\ x \notin r /\ x \in R
      BY <1>5, FS_Subset
    <2>2. SumOf(On(row, r \cup {x})) = SumOf(v[x]) + SumOf(On(row, r))
      <3>1. \A z \in r \cup {x} : row[z] \in Nat
        BY <1>1, <2>1
      <3> HIDE DEF row
      <3>2. SumOf(On(row, r \cup {x})) = row[x] + SumOf(On(row, r))
        BY <2>1, <3>1, SumOfOneMore
      <3>3. QED
        BY <1>1, <2>1, <3>2
    <2>3. Columns(r \cup {x}) = [y \in S |-> v[x][y] + Columns(r)[y]]
      <3>1. ASSUME NEW y \in S
            PROVE  Columns(r \cup {x})[y] = v[x][y] + Columns(r)[y]
        <4>1. Column(y)[x] = v[x][y] /\ \A z \in r \cup {x} : Column(y)[z] \in Nat
          BY <1>2, <2>1
        <4> HIDE DEF Column
        <4>2. SumOf(On(Column(y), r \cup {x})) = v[x][y] + SumOf(On(Column(y), r))
          BY <2>1, <4>1, SumOfOneMore
        <4>3. QED
          BY <4>2
      <3>2. Columns(r \cup {x}) = [y \in S |-> Columns(r \cup {x})[y]]
        OBVIOUS
      <3> HIDE DEF Columns
      <3>3. QED
        BY <3>1, <3>2
    <2>4. v[x] \in [S -> Nat] /\ Columns(r) \in [S -> Nat]
      BY <1>3, <2>1
    <2> DEFINE more == Columns(r \cup {x})
               less == Columns(r)
               new == v[x]
    <2> HIDE DEF Columns
    <2>5. more = [y \in S |-> new[y] + less[y]] /\ new \in [S -> Nat] /\ less \in [S -> Nat]
      BY <2>3, <2>4
    <2> HIDE DEF more, less, new
    <2>6. SumOf(more) = SumOf(new) + SumOf(less)
      BY <2>5, SumOfSums
    <2>7. SumOf(On(row, r)) = SumOf(less)
      BY <1>5 DEF less
    <2>8. SumOf(On(row, r \cup {x})) = SumOf(more)
      BY <2>2, <2>6, <2>7 DEF new
    <2>9. QED
      BY <2>1, <2>8 DEF more
  <1>6. R \in T
    <2>1. T \in SUBSET (SUBSET R) /\ R \in SUBSET R
      OBVIOUS
    <2> HIDE DEF T
    <2>2. QED
      BY <1>4, <1>5, <2>1, SubsetsReached
  <1>7. SumOf(On(row, R)) = SumOf(Columns(R))
    BY <1>6
  <1>8. On(row, R) = row /\ \A y \in S : On(Column(y), R) = Column(y)
    BY DEF On
  <1>9. QED
    BY <1>7, <1>8

(* The same for a table with the sums of its rows and of its columns.      *)
SumTable(v, R, S, row, column) ==
    /\ IsFiniteSet(R) /\ IsFiniteSet(S) /\ v \in [R -> [S -> Nat]]
    /\ row \in [R -> Nat] /\ \A x \in R : row[x] = SumOf(v[x])
    /\ column \in [S -> Nat] /\ \A y \in S : column[y] = SumOf([x \in R |-> v[x][y]])

LEMMA RowsAndColumns ==
    ASSUME NEW v, NEW R, NEW S, NEW row, NEW column, SumTable(v, R, S, row, column)
    PROVE  SumOf(row) = SumOf(column)
  <1>1. row = [x \in R |-> SumOf(v[x])]
    BY DEF SumTable
  <1>2. column = [y \in S |-> SumOf([x \in R |-> v[x][y]])]
    BY DEF SumTable
  <1>3. IsFiniteSet(R) /\ IsFiniteSet(S) /\ v \in [R -> [S -> Nat]]
    BY DEF SumTable
  <1>4. SumOf([x \in R |-> SumOf(v[x])]) = SumOf([y \in S |-> SumOf([x \in R |-> v[x][y]])])
    BY <1>3, SumsExchanged
  <1>5. QED
    BY <1>1, <1>2, <1>4

(* The terms that are not in R count for nothing.                          *)
LEMMA SumOfChosen ==
    ASSUME NEW S, IsFiniteSet(S), NEW v \in [S -> Nat], NEW R \in SUBSET S
    PROVE  /\ [x \in S |-> IF x \in R THEN v[x] ELSE 0] \in [S -> Nat]
           /\ SumOf([x \in S |-> IF x \in R THEN v[x] ELSE 0]) = SumOf(On(v, R))
  <1> DEFINE w == [x \in S |-> IF x \in R THEN v[x] ELSE 0]
  <1>1. w \in [S -> Nat]
    OBVIOUS
  <1>2. On(w, R) = On(v, R)
    BY DEF On
  <1>3. \A x \in S \ R : On(w, S \ R)[x] = 0
    BY DEF On
  <1> HIDE DEF w
  <1>4. On(w, S \ R) \in [S \ R -> Nat] /\ IsFiniteSet(S \ R)
    BY <1>1, FS_Subset DEF On
  <1>5. SumOf(On(w, S \ R)) = 0
    BY <1>3, <1>4, SumOfZeros
  <1>6. On(v, R) \in [R -> Nat] /\ IsFiniteSet(R)
    BY FS_Subset DEF On
  <1>7. SumOf(w) = SumOf(On(w, R)) + SumOf(On(w, S \ R)) /\ SumOf(On(v, R)) \in Nat
    BY <1>1, <1>6, SumOfSplit, TotalNat
  <1>8. SumOf(w) = SumOf(On(v, R))
    BY <1>2, <1>5, <1>7
  <1>9. QED
    BY <1>1, <1>8 DEF w

(* A sum cell by cell, where every element is in one cell.                 *)
LEMMA SumOfCells ==
    ASSUME NEW S, IsFiniteSet(S), NEW v \in [S -> Nat],
           NEW M, IsFiniteSet(M), NEW c \in [M -> SUBSET S],
           \A x \in S : \E m \in M : x \in c[m] /\ \A n \in M : x \in c[n] => n = m
    PROVE  SumOf([m \in M |-> SumOf(On(v, c[m]))]) = SumOf(v)
  <1> DEFINE Row(m) == [x \in S |-> IF x \in c[m] THEN v[x] ELSE 0]
             u == [m \in M |-> Row(m)]
             Column(x) == [m \in M |-> u[m][x]]
  <1>1. \A m \in M : Row(m) \in [S -> Nat] /\ SumOf(Row(m)) = SumOf(On(v, c[m]))
    BY SumOfChosen
  <1>2. u \in [M -> [S -> Nat]] /\ \A m \in M : u[m] = Row(m)
    BY <1>1
  <1>3. \A m \in M, x \in S : u[m][x] = IF x \in c[m] THEN v[x] ELSE 0
    BY <1>2
  <1> HIDE DEF u
  <1>4. ASSUME NEW x \in S PROVE SumOf(Column(x)) = v[x]
    <2>1. PICK m \in M : x \in c[m] /\ \A n \in M : x \in c[n] => n = m
      OBVIOUS
    <2>2. Column(x) \in [M -> Nat]
      BY <1>2
    <2>3. Column(x)[m] = v[x] /\ \A n \in M \ {m} : Column(x)[n] = 0
      BY <1>3, <2>1
    <2> DEFINE w == Column(x)
    <2> HIDE DEF Column
    <2>4. Without(w, m) \in [M \ {m} -> Nat] /\ \A n \in M \ {m} : Without(w, m)[n] = 0
      BY <2>2, <2>3 DEF Without
    <2>5. SumOf(Without(w, m)) = 0
      <3>1. IsFiniteSet(M \ {m})
        BY FS_Subset
      <3>2. QED
        BY <2>4, <3>1, SumOfZeros
    <2>6. SumOf(w) = w[m] + SumOf(Without(w, m))
      <3>1. w \in [M -> Nat]
        BY <2>2
      <3> HIDE DEF w
      <3>2. QED
        BY <3>1, TotalTake
    <2>7. v[x] \in Nat
      OBVIOUS
    <2>8. QED
      BY <2>3, <2>5, <2>6, <2>7
  <1>5. SumOf([m \in M |-> SumOf(u[m])]) = SumOf([x \in S |-> SumOf(Column(x))])
    BY <1>2, SumsExchanged
  <1>6. [x \in S |-> SumOf(Column(x))] = v
    BY <1>4
  <1>7. [m \in M |-> SumOf(u[m])] = [m \in M |-> SumOf(On(v, c[m]))]
    BY <1>1, <1>2
  <1>8. QED
    BY <1>5, <1>6, <1>7

(* A set is counted cell by cell.                                          *)
LEMMA CardinalityOfCells ==
    ASSUME NEW S, IsFiniteSet(S), NEW M, IsFiniteSet(M), NEW c \in [M -> SUBSET S],
           \A x \in S : \E m \in M : x \in c[m] /\ \A n \in M : x \in c[n] => n = m
    PROVE  SumOf([m \in M |-> Cardinality(c[m])]) = Cardinality(S)
  <1> DEFINE v == [x \in S |-> 1]
  <1>1. v \in [S -> Nat] /\ \A x \in S : v[x] = 1
    OBVIOUS
  <1>2. \A R \in SUBSET S : On(v, R) \in [R -> Nat] /\ \A x \in R : On(v, R)[x] = 1
    BY DEF On
  <1> HIDE DEF v
  <1>3. \A R \in SUBSET S : SumOf(On(v, R)) = Cardinality(R)
    <2>1. \A R \in SUBSET S : IsFiniteSet(R) /\ Cardinality(R) \in Nat
      BY FS_Subset, FS_CardinalityType
    <2>2. \A R \in SUBSET S : SumOf(On(v, R)) = 1 * Cardinality(R)
      BY <1>2, <2>1, SumOfSame
    <2>3. QED
      BY <2>1, <2>2
  <1>4. SumOf([m \in M |-> SumOf(On(v, c[m]))]) = SumOf(v)
    BY <1>1, SumOfCells
  <1>5. On(v, S) = v
    BY <1>1, OnAll
  <1>6. SumOf(v) = Cardinality(S)
    BY <1>3, <1>5
  <1>7. [m \in M |-> SumOf(On(v, c[m]))] = [m \in M |-> Cardinality(c[m])]
    BY <1>3
  <1>8. QED
    BY <1>4, <1>6, <1>7
=============================================================================
