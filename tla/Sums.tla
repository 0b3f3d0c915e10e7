-------------------------------- MODULE Sums --------------------------------
(* Sums over finite sets, as the modules of the venue take them               *)
(* (MapThenSumSet): what one more element, a changed value or a larger set do *)
(* to a sum. The induction goes over a set of naturals that has zero and every*)
(* successor.                                                                 *)
EXTENDS FiniteSetsExt, FiniteSetTheorems, TLAPS

\* The sum of f over S.
Total(f, S) == MapThenSumSet(LAMBDA x : f[x], S)

\* A set that has zero and every successor has every natural.
LEMMA EveryNatural ==
  ASSUME NEW N \in SUBSET Nat, 0 \in N, \A n \in N : n + 1 \in N
  PROVE  N = Nat
<1> SUFFICES ASSUME NEW m \in Nat, m \notin N PROVE FALSE
  OBVIOUS
<1>1. IsWellFoundedOn(OpToRel(<, Nat), Nat)
  BY NatLessThanWellFounded
<1>2. PICK x \in Nat \ N : \A y \in Nat \ N : ~(<<y, x>> \in OpToRel(<, Nat))
  <2>1. Nat \ N # {} /\ Nat \ N \subseteq Nat
    OBVIOUS
  <2> QED BY <1>1, <2>1, WFMin
<1>3. \A y \in Nat \ N : ~(y < x)
  BY <1>2 DEF OpToRel
<1>4. x # 0 /\ x \in Nat
  OBVIOUS
<1>5. x - 1 \in Nat /\ x - 1 < x /\ (x - 1) + 1 = x
  BY <1>4
<1>6. x - 1 \in N
  BY <1>3, <1>5
<1> QED BY <1>5, <1>6

-----------------------------------------------------------------------------
(* What the fold computes *)

\* g sums f over the subsets of S as the fold does.
Sums(f, S, g) ==
    g = [s \in SUBSET S |-> IF s = {} THEN 0
                            ELSE LET x == CHOOSE y \in s : TRUE IN f[x] + g[s \ {x}]]

\* The element the fold takes first.
LEMMA FirstTaken ==
  ASSUME NEW s, s # {}, IsFiniteSet(s)
  PROVE  LET x == CHOOSE y \in s : TRUE
         IN  /\ x \in s /\ IsFiniteSet(s \ {x}) /\ s \ {x} \subseteq s
             /\ Cardinality(s) \in Nat \ {0} /\ Cardinality(s \ {x}) = Cardinality(s) - 1
<1>1. (CHOOSE y \in s : TRUE) \in s
  OBVIOUS
<1>2. Cardinality(s) \in Nat /\ Cardinality(s) # 0
  BY FS_CardinalityType, FS_EmptySet
<1> QED BY <1>1, <1>2, FS_RemoveElement

\* The subsets of S by size.
UpTo(S, n) == {s \in SUBSET S : Cardinality(s) <= n}

LEMMA SmallSets ==
  ASSUME NEW S, IsFiniteSet(S)
  PROVE  /\ UpTo(S, 0) = {{}}
         /\ UpTo(S, Cardinality(S)) = SUBSET S
         /\ \A n \in Nat : UpTo(S, n) \subseteq SUBSET S
         /\ \A s \in SUBSET S : IsFiniteSet(s) /\ Cardinality(s) \in Nat
<1>1. \A s \in SUBSET S : IsFiniteSet(s) /\ Cardinality(s) \in Nat /\ Cardinality(s) <= Cardinality(S)
  BY FS_Subset, FS_CardinalityType
<1>2. UpTo(S, 0) = {{}}
  <2>1. \A s \in SUBSET S : Cardinality(s) <= 0 <=> s = {}
    BY <1>1, FS_EmptySet
  <2> QED BY <2>1 DEF UpTo
<1> QED BY <1>1, <1>2 DEF UpTo

\* One step of the fold, for the subsets up to a size.
Steps(f, S, g, n) ==
    \A s \in UpTo(S, n) : g[s] = IF s = {} THEN 0
                                 ELSE LET x == CHOOSE y \in s : TRUE IN f[x] + g[s \ {x}]

LEMMA SumsExist ==
  ASSUME NEW f, NEW S, IsFiniteSet(S)
  PROVE  \E g : Sums(f, S, g)
<1> DEFINE N == {n \in Nat : \E g : g = [s \in SUBSET S |-> g[s]] /\ Steps(f, S, g, n)}
<1>1. 0 \in N
  <2> DEFINE g == [s \in SUBSET S |-> 0]
  <2>1. g = [s \in SUBSET S |-> g[s]]
    OBVIOUS
  <2>2. Steps(f, S, g, 0)
    BY SmallSets DEF Steps
  <2> QED BY <2>1, <2>2
<1>2. ASSUME NEW n \in N PROVE n + 1 \in N
  <2>1. PICK g : g = [s \in SUBSET S |-> g[s]] /\ Steps(f, S, g, n)
    OBVIOUS
  <2> DEFINE h == [s \in SUBSET S |-> IF s \in UpTo(S, n) \/ s = {} THEN g[s]
                                      ELSE LET x == CHOOSE y \in s : TRUE IN f[x] + g[s \ {x}]]
  <2>2. h = [s \in SUBSET S |-> h[s]]
    OBVIOUS
  <2>e. g[{}] = 0
    <3>1. {} \in UpTo(S, n)
      BY FS_EmptySet DEF UpTo
    <3> QED BY <2>1, <3>1 DEF Steps
  <2>3. ASSUME NEW s \in UpTo(S, n + 1), s # {}
        PROVE  LET x == CHOOSE y \in s : TRUE IN h[s] = f[x] + h[s \ {x}]
    <3> DEFINE x == CHOOSE y \in s : TRUE
    <3>1. s \in SUBSET S /\ IsFiniteSet(s) /\ Cardinality(s) <= n + 1
      BY SmallSets DEF UpTo
    <3>2. /\ s \ {x} \in SUBSET S /\ Cardinality(s) \in Nat
          /\ Cardinality(s \ {x}) = Cardinality(s) - 1
      BY <2>3, <3>1, FirstTaken
    <3>3. s \ {x} \in UpTo(S, n)
      BY <3>1, <3>2 DEF UpTo
    <3> HIDE DEF x
    <3>4. h[s \ {x}] = g[s \ {x}]
      BY <3>2, <3>3
    <3>5. CASE s \in UpTo(S, n)
      <4>1. g[s] = f[x] + g[s \ {x}]
        BY <2>1, <2>3, <3>5 DEF Steps, x
      <4> QED BY <3>1, <3>4, <3>5, <4>1 DEF x
    <3>6. CASE s \notin UpTo(S, n)
      <4>1. h[s] = f[x] + g[s \ {x}]
        BY <2>3, <3>1, <3>6 DEF x
      <4> QED BY <3>4, <4>1 DEF x
    <3> QED BY <3>5, <3>6
  <2>4. h[{}] = 0
    BY <2>e
  <2> HIDE DEF h
  <2>5. Steps(f, S, h, n + 1)
    BY <2>3, <2>4 DEF Steps
  <2> QED BY <2>2, <2>5
<1> HIDE DEF N
<1>3. N = Nat
  <2>1. N \in SUBSET Nat
    BY DEF N
  <2> QED BY <1>1, <1>2, <2>1, EveryNatural
<1>4. Cardinality(S) \in N
  BY <1>3, FS_CardinalityType
<1>5. PICK g : g = [s \in SUBSET S |-> g[s]] /\ Steps(f, S, g, Cardinality(S))
  BY <1>4 DEF N
<1>6. \A s \in SUBSET S : g[s] = IF s = {} THEN 0
                                 ELSE LET x == CHOOSE y \in s : TRUE IN f[x] + g[s \ {x}]
  BY <1>5, SmallSets DEF Steps
<1>7. g = [s \in SUBSET S |-> IF s = {} THEN 0
                              ELSE LET x == CHOOSE y \in s : TRUE IN f[x] + g[s \ {x}]]
  BY <1>5, <1>6
<1> QED BY <1>7 DEF Sums

\* Two functions that sum f, over S and over a part of it, agree on the part.
LEMMA SumsAgree ==
  ASSUME NEW f, NEW S, IsFiniteSet(S), NEW R \in SUBSET S, NEW g, Sums(f, S, g), NEW h, Sums(f, R, h)
  PROVE  \A s \in SUBSET R : g[s] = h[s]
<1> DEFINE N == {n \in Nat : \A s \in UpTo(R, n) : g[s] = h[s]}
<1>r. IsFiniteSet(R)
  BY FS_Subset
<1>g. \A s \in SUBSET R : g[s] = IF s = {} THEN 0 ELSE LET x == CHOOSE y \in s : TRUE IN f[x] + g[s \ {x}]
  <2>1. SUBSET R \subseteq SUBSET S
    OBVIOUS
  <2> QED BY <2>1 DEF Sums
<1>h. \A s \in SUBSET R : h[s] = IF s = {} THEN 0 ELSE LET x == CHOOSE y \in s : TRUE IN f[x] + h[s \ {x}]
  BY DEF Sums
<1>1. 0 \in N
  <2>1. g[{}] = 0 /\ h[{}] = 0
    BY <1>g, <1>h
  <2> QED BY <1>r, <2>1, SmallSets
<1>2. ASSUME NEW n \in N PROVE n + 1 \in N
  <2>1. \A s \in UpTo(R, n) : g[s] = h[s]
    OBVIOUS
  <2>2. ASSUME NEW s \in UpTo(R, n + 1) PROVE g[s] = h[s]
    <3>1. s \in SUBSET R /\ IsFiniteSet(s) /\ Cardinality(s) <= n + 1
      BY <1>r, SmallSets DEF UpTo
    <3>2. CASE s = {}
      BY <1>g, <1>h, <3>2
    <3>3. CASE s # {}
      <4> DEFINE x == CHOOSE y \in s : TRUE
      <4>1. s \ {x} \in SUBSET R /\ Cardinality(s) \in Nat /\ Cardinality(s \ {x}) = Cardinality(s) - 1
        BY <3>1, <3>3, FirstTaken
      <4>2. s \ {x} \in UpTo(R, n)
        BY <3>1, <4>1 DEF UpTo
      <4>3. g[s] = f[x] + g[s \ {x}] /\ h[s] = f[x] + h[s \ {x}]
        BY <1>g, <1>h, <3>1, <3>3
      <4> QED BY <2>1, <4>2, <4>3
    <3> QED BY <3>2, <3>3
  <2> QED BY <2>2
<1> HIDE DEF N
<1>3. N = Nat
  <2>1. N \in SUBSET Nat
    BY DEF N
  <2> QED BY <1>1, <1>2, <2>1, EveryNatural
<1>4. Cardinality(R) \in N
  BY <1>3, <1>r, FS_CardinalityType
<1> QED BY <1>4, <1>r, SmallSets DEF N

\* Every function that sums f over S has the sums of its parts.
LEMMA TotalOf ==
  ASSUME NEW f, NEW S, IsFiniteSet(S), NEW g, Sums(f, S, g), NEW R \in SUBSET S
  PROVE  Total(f, R) = g[R]
<1> DEFINE h == CHOOSE k : Sums(f, R, k)
<1>1. Sums(f, R, h)
  <2>1. IsFiniteSet(R)
    BY FS_Subset
  <2> QED BY <2>1, SumsExist
<1>2. Total(f, R) = h[R]
  BY DEF Total, MapThenSumSet, MapThenFoldSet, Sums
<1> HIDE DEF h
<1> QED BY <1>1, <1>2, SumsAgree

-----------------------------------------------------------------------------
(* What follows for sums *)

LEMMA TotalEmpty ==
  ASSUME NEW f
  PROVE  Total(f, {}) = 0
<1>1. IsFiniteSet({})
  BY FS_EmptySet
<1>2. PICK g : Sums(f, {}, g)
  BY <1>1, SumsExist
<1>3. g[{}] = 0
  BY <1>2 DEF Sums
<1> QED BY <1>1, <1>2, <1>3, TotalOf

LEMMA TotalFirst ==
  ASSUME NEW f, NEW S, IsFiniteSet(S), S # {}
  PROVE  LET x == CHOOSE y \in S : TRUE IN x \in S /\ Total(f, S) = f[x] + Total(f, S \ {x})
<1> DEFINE x == CHOOSE y \in S : TRUE
<1>1. PICK g : Sums(f, S, g)
  BY SumsExist
<1>2. g[S] = f[x] + g[S \ {x}]
  BY <1>1 DEF Sums
<1>3. Total(f, S) = g[S] /\ Total(f, S \ {x}) = g[S \ {x}]
  BY <1>1, TotalOf
<1> QED BY <1>2, <1>3

\* A sum of integers is one, and any element may be taken out of it.
LEMMA TotalInt ==
  ASSUME NEW S, IsFiniteSet(S), NEW f, \A x \in S : f[x] \in Int
  PROVE  \A R \in SUBSET S : Total(f, R) \in Int /\ \A x \in R : Total(f, R) = f[x] + Total(f, R \ {x})
<1> DEFINE Good(R) == Total(f, R) \in Int /\ \A x \in R : Total(f, R) = f[x] + Total(f, R \ {x})
           N == {n \in Nat : \A R \in UpTo(S, n) : Good(R)}
<1>1. 0 \in N
  <2>1. Good({})
    BY TotalEmpty
  <2> HIDE DEF Good
  <2> QED BY <2>1, SmallSets
<1>2. ASSUME NEW n \in N PROVE n + 1 \in N
  <2>1. \A R \in UpTo(S, n) : Good(R)
    OBVIOUS
  <2> HIDE DEF Good
  <2>2. ASSUME NEW R \in UpTo(S, n + 1), R # {} PROVE Good(R)
    <3> DEFINE c == CHOOSE y \in R : TRUE
    <3>1. R \in SUBSET S /\ IsFiniteSet(R) /\ Cardinality(R) \in Nat /\ Cardinality(R) <= n + 1
      BY SmallSets DEF UpTo
    <3>2. c \in R /\ Total(f, R) = f[c] + Total(f, R \ {c}) /\ f[c] \in Int
      BY <2>2, <3>1, TotalFirst
    <3> HIDE DEF c
    <3>3. \A x \in R : R \ {x} \in UpTo(S, n)
      <4> SUFFICES ASSUME NEW x \in R PROVE R \ {x} \in UpTo(S, n)
        OBVIOUS
      <4>1. Cardinality(R \ {x}) = Cardinality(R) - 1 /\ R \ {x} \in SUBSET S
        BY <3>1, FS_RemoveElement
      <4> QED BY <3>1, <4>1 DEF UpTo
    <3>4. \A x \in R : Good(R \ {x}) /\ Total(f, R \ {x}) \in Int
      BY <2>1, <3>3 DEF Good
    <3>5. Total(f, R) \in Int
      BY <3>2, <3>4
    <3>6. ASSUME NEW x \in R, x # c PROVE Total(f, R) = f[x] + Total(f, R \ {x})
      <4>1. Total(f, R \ {c}) = f[x] + Total(f, (R \ {c}) \ {x}) /\ Total(f, R \ {x}) = f[c] + Total(f, (R \ {x}) \ {c})
        BY <3>2, <3>4, <3>6 DEF Good
      <4>2. (R \ {c}) \ {x} = (R \ {x}) \ {c} /\ (R \ {c}) \ {x} \in UpTo(S, n)
        <5>1. R \ {c} \in UpTo(S, n)
          BY <3>2, <3>3
        <5>2. Cardinality((R \ {c}) \ {x}) <= n
          <6>1. R \ {c} \in SUBSET S /\ Cardinality(R \ {c}) <= n
            BY <5>1 DEF UpTo
          <6>2. IsFiniteSet(R \ {c}) /\ Cardinality(R \ {c}) \in Nat
            BY <6>1, FS_Subset, FS_CardinalityType
          <6>3. Cardinality((R \ {c}) \ {x}) = Cardinality(R \ {c}) - 1
            BY <3>6, <6>2, FS_RemoveElement
          <6> QED BY <6>1, <6>2, <6>3
        <5> QED BY <3>1, <5>2 DEF UpTo
      <4> DEFINE T == Total(f, (R \ {c}) \ {x})
      <4>3. T \in Int
        BY <2>1, <4>2 DEF Good
      <4>4. Total(f, R \ {c}) = f[x] + T /\ Total(f, R \ {x}) = f[c] + T
        BY <4>1, <4>2
      <4> HIDE DEF T
      <4>5. f[x] \in Int
        BY <3>1
      <4> QED BY <3>2, <4>3, <4>4, <4>5
    <3> QED BY <3>2, <3>5, <3>6 DEF Good
  <2>3. Good({})
    BY TotalEmpty DEF Good
  <2> QED BY <2>2, <2>3
<1> HIDE DEF N
<1>3. N = Nat
  <2>1. N \in SUBSET Nat
    BY DEF N
  <2> QED BY <1>1, <1>2, <2>1, EveryNatural
<1>4. Cardinality(S) \in N
  BY <1>3, FS_CardinalityType
<1> QED BY <1>4, SmallSets DEF N

LEMMA TotalTakes ==
  ASSUME NEW S, IsFiniteSet(S), NEW f, \A x \in S : f[x] \in Int, NEW x \in S
  PROVE  Total(f, S) = f[x] + Total(f, S \ {x}) /\ Total(f, S) \in Int /\ Total(f, S \ {x}) \in Int
  BY TotalInt

\* Nothing adds up to nothing.
LEMMA TotalNothing ==
  ASSUME NEW S, IsFiniteSet(S), NEW f, \A x \in S : f[x] = 0
  PROVE  Total(f, S) = 0
<1> DEFINE N == {n \in Nat : \A R \in SUBSET S : Cardinality(R) <= n => Total(f, R) = 0}
<1>1. \A R \in SUBSET S : IsFiniteSet(R) /\ Cardinality(R) \in Nat
  BY FS_Subset, FS_CardinalityType
<1>2. \A R \in SUBSET S : Total(f, R) \in Int /\ \A x \in R : Total(f, R) = f[x] + Total(f, R \ {x})
  BY TotalInt
<1>3. 0 \in N
  <2>1. \A R \in SUBSET S : Cardinality(R) <= 0 => R = {}
    BY <1>1, FS_EmptySet
  <2> QED BY <2>1, TotalEmpty
<1>4. ASSUME NEW n \in N PROVE n + 1 \in N
  <2>1. ASSUME NEW R \in SUBSET S, Cardinality(R) <= n + 1, R # {} PROVE Total(f, R) = 0
    <3>1. PICK x \in R : TRUE
      BY <2>1
    <3>2. Cardinality(R \ {x}) = Cardinality(R) - 1 /\ R \ {x} \in SUBSET S
      BY <1>1, FS_RemoveElement
    <3>3. Total(f, R \ {x}) = 0
      BY <1>1, <1>4, <2>1, <3>2
    <3> QED BY <1>2, <3>1, <3>3
  <2> QED BY <1>4, <2>1, TotalEmpty
<1>5. N = Nat
  <2> HIDE DEF N
  <2>1. N \in SUBSET Nat
    BY DEF N
  <2> QED BY <1>3, <1>4, <2>1, EveryNatural
<1> QED BY <1>1, <1>5

\* A sum grows with its set and with its values.
LEMMA TotalGrows ==
  ASSUME NEW S, IsFiniteSet(S), NEW R \in SUBSET S, NEW f, NEW g,
         \A x \in S : f[x] \in Int /\ g[x] \in Int,
         \A x \in R : f[x] <= g[x], \A x \in S \ R : 0 <= g[x]
  PROVE  Total(f, R) <= Total(g, S)
<1> DEFINE N == {n \in Nat : \A s \in UpTo(S, n) : Total(f, s \cap R) <= Total(g, s)}
<1>1. 0 \in N
  <2>1. ASSUME NEW s \in UpTo(S, 0) PROVE Total(f, s \cap R) <= Total(g, s)
    <3>1. s = {} /\ s \cap R = {}
      BY SmallSets
    <3>2. Total(f, s \cap R) = 0 /\ Total(g, s) = 0
      BY <3>1, TotalEmpty
    <3> QED BY <3>2
  <2> QED BY <2>1
<1>2. ASSUME NEW n \in N PROVE n + 1 \in N
  <2>1. \A s \in UpTo(S, n) : Total(f, s \cap R) <= Total(g, s)
    OBVIOUS
  <2>2. ASSUME NEW s \in UpTo(S, n + 1) PROVE Total(f, s \cap R) <= Total(g, s)
    <3>1. s \in SUBSET S /\ IsFiniteSet(s) /\ Cardinality(s) \in Nat /\ Cardinality(s) <= n + 1
      BY SmallSets DEF UpTo
    <3>2. CASE s = {}
      <4>1. s \cap R = {}
        BY <3>2
      <4> QED BY <3>2, <4>1, TotalEmpty
    <3>3. ASSUME NEW x \in s PROVE Total(f, s \cap R) <= Total(g, s)
      <4>1. s \ {x} \in UpTo(S, n)
        <5>1. Cardinality(s \ {x}) = Cardinality(s) - 1 /\ s \ {x} \in SUBSET S
          BY <3>1, FS_RemoveElement
        <5> QED BY <3>1, <5>1 DEF UpTo
      <4>2. Total(f, (s \ {x}) \cap R) <= Total(g, s \ {x})
        BY <2>1, <4>1
      <4>3. Total(g, s) = g[x] + Total(g, s \ {x}) /\ Total(g, s \ {x}) \in Int /\ g[x] \in Int /\ f[x] \in Int
        BY <3>1, TotalTakes
      <4>4. IsFiniteSet(s \cap R) /\ \A y \in s \cap R : f[y] \in Int
        BY <3>1, FS_Subset
      <4>5. CASE x \in R
        <5>1. (s \ {x}) \cap R = (s \cap R) \ {x} /\ x \in s \cap R
          BY <4>5
        <5>2. Total(f, s \cap R) = f[x] + Total(f, (s \ {x}) \cap R) /\ Total(f, (s \ {x}) \cap R) \in Int
          BY <4>4, <5>1, TotalTakes
        <5>3. f[x] <= g[x]
          BY <4>5
        <5> QED BY <4>2, <4>3, <5>2, <5>3
      <4>6. CASE x \notin R
        <5>1. (s \ {x}) \cap R = s \cap R
          BY <4>6
        <5>2. Total(f, s \cap R) \in Int
          BY <4>4, TotalInt
        <5>3. 0 <= g[x]
          BY <3>1, <4>6
        <5>4. Total(f, (s \ {x}) \cap R) = Total(f, s \cap R)
          BY <5>1
        <5> QED BY <4>2, <4>3, <5>2, <5>3, <5>4
      <4> QED BY <4>5, <4>6
    <3> QED BY <3>2, <3>3
  <2> QED BY <2>2
<1> HIDE DEF N
<1>3. N = Nat
  <2>1. N \in SUBSET Nat
    BY DEF N
  <2> QED BY <1>1, <1>2, <2>1, EveryNatural
<1>4. Cardinality(S) \in N
  BY <1>3, FS_CardinalityType
<1>5. Total(f, S \cap R) <= Total(g, S)
  BY <1>4, SmallSets DEF N
<1>6. S \cap R = R
  OBVIOUS
<1> QED BY <1>5, <1>6

LEMMA TotalSame ==
  ASSUME NEW S, IsFiniteSet(S), NEW f, NEW g, \A x \in S : f[x] \in Int /\ g[x] = f[x]
  PROVE  Total(g, S) = Total(f, S)
<1>1. Total(f, S) <= Total(g, S) /\ Total(g, S) <= Total(f, S)
  BY TotalGrows
<1>2. Total(f, S) \in Int /\ Total(g, S) \in Int
  BY TotalInt
<1> QED BY <1>1, <1>2

\* A sum in which one value changes.
LEMMA TotalChanges ==
  ASSUME NEW S, IsFiniteSet(S), NEW f, NEW g, NEW x \in S,
         \A y \in S : f[y] \in Int, g[x] \in Int, \A y \in S \ {x} : g[y] = f[y]
  PROVE  Total(g, S) = Total(f, S) - f[x] + g[x] /\ Total(f, S) \in Int
<1>1. Total(f, S) = f[x] + Total(f, S \ {x}) /\ Total(f, S) \in Int /\ Total(f, S \ {x}) \in Int
  BY TotalTakes
<1>2. Total(g, S) = g[x] + Total(g, S \ {x})
  BY TotalTakes
<1>3. Total(g, S \ {x}) = Total(f, S \ {x})
  <2>1. IsFiniteSet(S \ {x})
    BY FS_RemoveElement
  <2> QED BY <2>1, TotalSame
<1>4. f[x] \in Int
  OBVIOUS
<1> QED BY <1>1, <1>2, <1>3, <1>4

\* A sum of naturals is one, and one of its terms, or a part of it, is at most all of it.
LEMMA TotalNat ==
  ASSUME NEW S, IsFiniteSet(S), NEW f, \A x \in S : f[x] \in Nat
  PROVE  /\ Total(f, S) \in Nat
         /\ \A R \in SUBSET S : Total(f, R) \in Nat /\ Total(f, R) <= Total(f, S)
         /\ \A x \in S : f[x] <= Total(f, S)
<1>1. \A R \in SUBSET S : IsFiniteSet(R) /\ Total(f, R) \in Int
  BY TotalInt, FS_Subset
<1>2. ASSUME NEW R \in SUBSET S PROVE 0 <= Total(f, R)
  <2>1. Total(f, {}) <= Total(f, R)
    BY <1>1, TotalGrows
  <2> QED BY <2>1, TotalEmpty
<1>3. \A R \in SUBSET S : Total(f, R) <= Total(f, S)
  BY TotalGrows
<1>4. ASSUME NEW x \in S PROVE f[x] <= Total(f, S)
  <2>1. Total(f, S) = f[x] + Total(f, S \ {x}) /\ Total(f, S \ {x}) \in Int
    BY TotalTakes
  <2>2. 0 <= Total(f, S \ {x})
    BY <1>2
  <2>3. f[x] \in Int
    OBVIOUS
  <2> QED BY <2>1, <2>2, <2>3
<1> QED BY <1>1, <1>2, <1>3, <1>4
=============================================================================
