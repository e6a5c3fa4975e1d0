---------------------------------- MODULE Sums ----------------------------------
(***************************************************************************)
(* Facts about finite sets of numbers and sums over finite sets, for the   *)
(* proofs of this project.  The sums of the models, MapThenSumSet of the   *)
(* community modules, are recursive functions; the first lemmas show that  *)
(* these are well defined, by induction in the form that a set that holds  *)
(* {} and is closed under adding an element holds every finite set.        *)
(***************************************************************************)
EXTENDS Integers, FiniteSets, FiniteSetsExt, FiniteSetTheorems, TLAPS

-----------------------------------------------------------------------------
(* Induction *)

\* Every set of natural numbers that is not empty has a least element.
LEMMA LeastNatural ==
    ASSUME NEW T \in SUBSET Nat, T # {}
    PROVE  \E x \in T : \A y \in T : x <= y
PROOF
  <1> DEFINE R == {p \in Nat \X Nat : p[1] < p[2]}
  <1>1. IsWellFoundedOn(R, Nat)
    BY NatLessThanWellFounded DEF OpToRel
  <1>2. \A x, y \in Nat : y < x => <<y, x>> \in R
    OBVIOUS
  <1> HIDE DEF R
  <1>3. PICK x \in T : \A y \in T : ~ (<<y, x>> \in R)
    BY <1>1, WFMin
  <1>4. ASSUME NEW y \in T PROVE x <= y
    <2>1. x \in Nat /\ y \in Nat /\ ~ (y < x)
      BY <1>2, <1>3
    <2> QED BY <2>1
  <1> QED BY <1>4

\* A set that holds 0 and with each number the next one holds all of them.
LEMMA NumberInduction ==
    ASSUME NEW P \in SUBSET Nat, 0 \in P, \A n \in P : n + 1 \in P
    PROVE  P = Nat
PROOF
  <1> SUFFICES ASSUME Nat \ P # {} PROVE FALSE
    OBVIOUS
  <1>1. PICK x \in Nat \ P : \A y \in Nat \ P : x <= y
    BY LeastNatural
  <1>2. x # 0
    BY <1>1
  <1>3. x - 1 \in Nat /\ x - 1 < x
    BY <1>2
  <1>4. x - 1 \in P
    BY <1>1, <1>3
  <1> QED BY <1>1, <1>4

\* A family that holds a subset of S whenever it holds all that are one element
\* smaller holds the finite set S.
LEMMA SetInduction ==
    ASSUME NEW S, IsFiniteSet(S), NEW F,
           \A T \in SUBSET S : (\A x \in T : T \ {x} \in F) => T \in F
    PROVE  S \in F
PROOF
  <1> DEFINE P == {n \in Nat : \A T \in SUBSET S : Cardinality(T) = n => T \in F}
  <1>0. \A T \in SUBSET S : IsFiniteSet(T)
    BY FS_Subset
  <1>1. 0 \in P
    <2> SUFFICES ASSUME NEW T \in SUBSET S, Cardinality(T) = 0 PROVE T \in F
      OBVIOUS
    <2>1. T = {}
      BY <1>0, FS_EmptySet
    <2> QED BY <2>1
  <1>2. ASSUME NEW n \in P PROVE n + 1 \in P
    <2> SUFFICES ASSUME NEW T \in SUBSET S, Cardinality(T) = n + 1 PROVE T \in F
      OBVIOUS
    <2>1. ASSUME NEW x \in T PROVE T \ {x} \in F
      <3>1. Cardinality(T \ {x}) = Cardinality(T) - 1
        BY <1>0, FS_RemoveElement
      <3>2. Cardinality(T \ {x}) = n
        BY <3>1
      <3> QED BY <3>2
    <2> QED BY <2>1
  <1>3. P = Nat
    <2>1. P \in SUBSET Nat
      OBVIOUS
    <2> HIDE DEF P
    <2> QED BY <1>1, <1>2, <2>1, NumberInduction
  <1>4. Cardinality(S) \in P
    BY <1>3, FS_CardinalityType
  <1> QED BY <1>4

-----------------------------------------------------------------------------
(* Sums *)

\* The element of T that a sum takes first.
First(T) == CHOOSE x \in T : TRUE

\* The sums of f over the subsets of S, as MapThenFoldSet computes them.
Sums(f, S) ==
    CHOOSE sum : sum = [T \in SUBSET S |->
        IF T = {} THEN 0 ELSE f[First(T)] + sum[T \ {First(T)}]]

SumOf(f, S) == Sums(f, S)[S]

\* The first element is one of them.
LEMMA FirstIsIn == \A T : T # {} => First(T) \in T
PROOF BY DEF First

\* The sum of the library is this one.
LEMMA SumIsSumOf ==
    ASSUME NEW f, NEW S
    PROVE  MapThenSumSet(LAMBDA x : f[x], S) = SumOf(f, S)
PROOF BY DEF MapThenSumSet, MapThenFoldSet, SumOf, Sums, First

\* The recursion has a solution: it goes down one element at a time.
LEMMA SumsExist ==
    ASSUME NEW f, NEW S, IsFiniteSet(S)
    PROVE  \A T \in SUBSET S : Sums(f, S)[T] =
               IF T = {} THEN 0 ELSE f[First(T)] + Sums(f, S)[T \ {First(T)}]
PROOF
  <1> DEFINE E(h, T) == IF T = {} THEN 0 ELSE f[First(T)] + h[T \ {First(T)}]
             Upto(n) == {T \in SUBSET S : Cardinality(T) <= n}
             P == {n \in Nat : \E h : \A T \in Upto(n) : h[T] = E(h, T)}
  <1> HIDE DEF E
  <1>0. \A T \in SUBSET S : IsFiniteSet(T) /\ Cardinality(T) \in Nat
    BY FS_Subset, FS_CardinalityType
  <1>1. 0 \in P
    <2> DEFINE h == [T \in SUBSET S |-> 0]
    <2>1. ASSUME NEW T \in Upto(0) PROVE h[T] = E(h, T)
      <3>1. T = {}
        BY <1>0, FS_EmptySet
      <3> QED BY <3>1 DEF E
    <2> HIDE DEF h
    <2> QED BY <2>1
  <1>2. ASSUME NEW n \in P PROVE n + 1 \in P
    <2>1. PICK h : \A T \in Upto(n) : h[T] = E(h, T)
      OBVIOUS
    <2> DEFINE g == [T \in SUBSET S |-> IF T \in Upto(n) THEN h[T] ELSE E(h, T)]
    <2>2. ASSUME NEW T \in Upto(n + 1) PROVE g[T] = E(h, T)
      BY <2>1
    <2>3. ASSUME NEW T \in Upto(n + 1) PROVE E(g, T) = E(h, T)
      <3>1. CASE T = {}
        BY <3>1 DEF E
      <3>2. CASE T # {}
        <4>1. T \ {First(T)} \in Upto(n)
          <5>1. First(T) \in T
            BY <3>2, FirstIsIn
          <5>2. Cardinality(T \ {First(T)}) = Cardinality(T) - 1
            BY <1>0, <5>1, FS_RemoveElement
          <5> QED BY <1>0, <5>2
        <4>2. g[T \ {First(T)}] = h[T \ {First(T)}]
          BY <4>1
        <4> HIDE DEF g
        <4> QED BY <3>2, <4>2 DEF E
      <3> QED BY <3>1, <3>2
    <2> HIDE DEF g
    <2>4. \A T \in Upto(n + 1) : g[T] = E(g, T)
      BY <2>2, <2>3
    <2> QED BY <2>4
  <1>3. P = Nat
    <2>1. P \in SUBSET Nat
      OBVIOUS
    <2> HIDE DEF P
    <2> QED BY <1>1, <1>2, <2>1, NumberInduction
  <1>4. Cardinality(S) \in P
    BY <1>3, FS_CardinalityType
  <1>5. PICK h : \A T \in Upto(Cardinality(S)) : h[T] = E(h, T)
    BY <1>4
  <1>6. Upto(Cardinality(S)) = SUBSET S
    BY FS_Subset
  <1> DEFINE g == [T \in SUBSET S |-> h[T]]
  <1>7. ASSUME NEW T \in SUBSET S PROVE E(g, T) = E(h, T)
    <2>1. g[T \ {First(T)}] = h[T \ {First(T)}]
      OBVIOUS
    <2> HIDE DEF g
    <2> QED BY <2>1 DEF E
  <1>8. g = [T \in SUBSET S |-> E(g, T)]
    <2>1. \A T \in SUBSET S : g[T] = E(g, T)
      BY <1>5, <1>6, <1>7
    <2> QED BY <2>1
  <1>9. \E sum : sum = [T \in SUBSET S |-> E(sum, T)]
    BY <1>8
  <1> DEFINE s == Sums(f, S)
  <1>10. s = [T \in SUBSET S |-> E(s, T)]
    BY <1>9 DEF Sums, E
  <1> HIDE DEF s
  <1>11. \A T \in SUBSET S : s[T] = E(s, T)
    BY <1>10
  <1> QED BY <1>11 DEF s, E

\* A sum is the same whatever larger set it is computed within.
LEMMA SumsAgree ==
    ASSUME NEW f, NEW S, IsFiniteSet(S), NEW T \in SUBSET S
    PROVE  Sums(f, S)[T] = SumOf(f, T)
PROOF
  <1> DEFINE F == {U \in SUBSET T : Sums(f, S)[U] = Sums(f, T)[U]}
  <1>1. IsFiniteSet(T)
    BY FS_Subset
  <1>2. ASSUME NEW U \in SUBSET T, \A x \in U : U \ {x} \in F PROVE U \in F
    <2>1. U = {} \/ U \ {First(U)} \in F
      BY <1>2, FirstIsIn
    <2>2. Sums(f, S)[U] = IF U = {} THEN 0 ELSE f[First(U)] + Sums(f, S)[U \ {First(U)}]
      BY SumsExist, U \in SUBSET S
    <2>3. Sums(f, T)[U] = IF U = {} THEN 0 ELSE f[First(U)] + Sums(f, T)[U \ {First(U)}]
      BY <1>1, SumsExist
    <2> QED BY <2>1, <2>2, <2>3
  <1>3. T \in F
    <2> HIDE DEF F
    <2> QED BY <1>1, <1>2, SetInduction
  <1> QED BY <1>3 DEF SumOf

\* The sum of a set is that of its first element and the rest.
LEMMA SumUnfold ==
    ASSUME NEW f, NEW S, IsFiniteSet(S)
    PROVE  SumOf(f, S) = IF S = {} THEN 0 ELSE f[First(S)] + SumOf(f, S \ {First(S)})
PROOF
  <1>1. SumOf(f, S) = IF S = {} THEN 0 ELSE f[First(S)] + Sums(f, S)[S \ {First(S)}]
    BY SumsExist DEF SumOf
  <1>2. Sums(f, S)[S \ {First(S)}] = SumOf(f, S \ {First(S)})
    BY SumsAgree
  <1> QED BY <1>1, <1>2

\* Nothing adds up to 0.
LEMMA SumOfNone ==
    ASSUME NEW f
    PROVE  SumOf(f, {}) = 0
PROOF BY SumUnfold, FS_EmptySet

\* Integers add up to an integer.
LEMMA SumIsInt ==
    ASSUME NEW S, IsFiniteSet(S), NEW f, \A x \in S : f[x] \in Int
    PROVE  SumOf(f, S) \in Int
PROOF
  <1> DEFINE F == {T \in SUBSET S : SumOf(f, T) \in Int}
  <1>1. ASSUME NEW T \in SUBSET S, \A x \in T : T \ {x} \in F PROVE T \in F
    <2>1. IsFiniteSet(T)
      BY FS_Subset
    <2>2. T = {} \/ (First(T) \in T /\ SumOf(f, T \ {First(T)}) \in Int)
      BY <1>1, FirstIsIn
    <2>3. SumOf(f, T) = IF T = {} THEN 0 ELSE f[First(T)] + SumOf(f, T \ {First(T)})
      BY <2>1, SumUnfold
    <2> QED BY <2>2, <2>3
  <1>2. S \in F
    <2> HIDE DEF F
    <2> QED BY <1>1, SetInduction
  <1> QED BY <1>2

\* Any element can be taken out of a sum.
LEMMA SumTakesOut ==
    ASSUME NEW S, IsFiniteSet(S), NEW f, \A x \in S : f[x] \in Int, NEW e \in S
    PROVE  SumOf(f, S) = f[e] + SumOf(f, S \ {e})
PROOF
  <1> DEFINE F == {T \in SUBSET S :
                     \A x \in T : SumOf(f, T) = f[x] + SumOf(f, T \ {x})}
  <1>1. ASSUME NEW T \in SUBSET S, \A x \in T : T \ {x} \in F,
               NEW x \in T
        PROVE  SumOf(f, T) = f[x] + SumOf(f, T \ {x})
    <2> DEFINE c == First(T)
    <2>1. c \in T
      BY FirstIsIn
    <2> HIDE DEF c
    <2>2. IsFiniteSet(T) /\ IsFiniteSet((T \ {c}) \ {x})
      BY FS_Subset
    <2>3. SumOf(f, T) = f[c] + SumOf(f, T \ {c})
      BY <2>2, SumUnfold DEF c
    <2>4. CASE c = x
      BY <2>3, <2>4
    <2>5. CASE c # x
      <3>1. SumOf(f, T \ {c}) = f[x] + SumOf(f, (T \ {c}) \ {x})
        BY <1>1, <2>1, <2>5
      <3>2. SumOf(f, T \ {x}) = f[c] + SumOf(f, (T \ {x}) \ {c})
        BY <1>1, <2>1, <2>5
      <3>3. (T \ {c}) \ {x} = (T \ {x}) \ {c}
        OBVIOUS
      <3>4. SumOf(f, (T \ {c}) \ {x}) \in Int
        BY <2>2, SumIsInt
      <3>5. f[c] \in Int /\ f[x] \in Int
        BY <2>1
      <3> DEFINE rest == SumOf(f, (T \ {c}) \ {x})
      <3>6. SumOf(f, T) = f[c] + (f[x] + rest)
        BY <2>3, <3>1
      <3>7. SumOf(f, T \ {x}) = f[c] + rest
        BY <3>2, <3>3
      <3> HIDE DEF rest
      <3> QED BY <3>4, <3>5, <3>6, <3>7 DEF rest
    <2> QED BY <2>4, <2>5
  <1>2. S \in F
    <2>1. \A T \in SUBSET S : (\A x \in T : T \ {x} \in F) => T \in F
      BY <1>1
    <2> HIDE DEF F
    <2> QED BY <2>1, SetInduction
  <1> QED BY <1>2

\* Every element with a positive value adds one at least to a sum.
LEMMA SumCounts ==
    ASSUME NEW S, IsFiniteSet(S), NEW f, \A x \in S : f[x] \in Nat
    PROVE  SumOf(f, S) \in Nat /\ Cardinality({x \in S : f[x] > 0}) <= SumOf(f, S)
PROOF
  <1> DEFINE Pos(T) == {x \in T : f[x] > 0}
             F == {T \in SUBSET S : SumOf(f, T) \in Nat /\ Cardinality(Pos(T)) <= SumOf(f, T)}
  <1>1. ASSUME NEW T \in SUBSET S, \A x \in T : T \ {x} \in F PROVE T \in F
    <2>1. IsFiniteSet(T) /\ IsFiniteSet(Pos(T))
      BY FS_Subset
    <2>2. CASE T = {}
      <3>1. SumOf(f, T) = 0
        BY <2>2, SumOfNone
      <3>2. Cardinality(Pos(T)) = 0
        BY <2>2, FS_EmptySet
      <3> QED BY <3>1, <3>2
    <2>3. CASE T # {}
      <3>1. PICK x : x \in T
        BY <2>3
      <3>2. SumOf(f, T) = f[x] + SumOf(f, T \ {x})
        BY <2>1, <3>1, SumTakesOut
      <3>3. SumOf(f, T \ {x}) \in Nat /\ Cardinality(Pos(T \ {x})) <= SumOf(f, T \ {x})
        BY <1>1, <3>1
      <3>4. Cardinality(Pos(T)) \in Nat
        BY <2>1, FS_CardinalityType
      <3>5. Pos(T \ {x}) = Pos(T) \ {x}
        OBVIOUS
      <3>6. Cardinality(Pos(T) \ {x}) =
              IF x \in Pos(T) THEN Cardinality(Pos(T)) - 1 ELSE Cardinality(Pos(T))
        BY <2>1, FS_RemoveElement
      <3>7. f[x] \in Nat /\ (x \in Pos(T) <=> f[x] > 0)
        BY <3>1
      <3>8. SumOf(f, T) \in Nat /\ Cardinality(Pos(T)) <= SumOf(f, T)
        <4> DEFINE rest == SumOf(f, T \ {x})
                   all == Cardinality(Pos(T))
        <4> HIDE DEF rest, all
        <4>1. rest \in Nat /\ all \in Nat /\ f[x] \in Nat /\ SumOf(f, T) = f[x] + rest
          BY <3>2, <3>3, <3>4, <3>7 DEF rest, all
        <4>2. CASE f[x] > 0
          <5>1. all - 1 <= rest
            BY <3>3, <3>5, <3>6, <3>7, <4>2 DEF rest, all
          <5> QED BY <4>1, <4>2, <5>1 DEF all
        <4>3. CASE ~ (f[x] > 0)
          <5>1. all <= rest
            BY <3>3, <3>5, <3>6, <3>7, <4>3 DEF rest, all
          <5> QED BY <4>1, <4>3, <5>1 DEF all
        <4> QED BY <4>2, <4>3
      <3> QED BY <3>8
    <2> QED BY <2>2, <2>3
  <1>2. S \in F
    <2> HIDE DEF F
    <2> QED BY <1>1, SetInduction
  <1> QED BY <1>2

================================================================================
