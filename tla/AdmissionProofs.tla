---------------------------- MODULE AdmissionProofs ----------------------------
(***************************************************************************)
(* Proofs about Admission, for any number of waves, groups, tabs and       *)
(* users, and any times.  In this order: division; how getStartingWave     *)
(* deals out the groups (Upto), and that this is the club's rule; how the  *)
(* API's current wave and the unlock times of a page relate; the invariant *)
(* OfferInv and its steps; the count of an event without tee times; the    *)
(* theorems.                                                               *)
(***************************************************************************)
EXTENDS Admission, Sums

-----------------------------------------------------------------------------
(* Division *)

\* The quotient and the remainder of the waves' and the clocks' divisions.
LEMMA Division ==
    ASSUME NEW n \in Nat, NEW d \in Nat \ {0}
    PROVE  /\ n \div d \in Nat
           /\ n % d \in 0 .. d - 1
           /\ n = d * (n \div d) + (n % d)
PROOF OBVIOUS

\* Stated for the provers, who need a hand with products.
LEMMA TimesMonotonic ==
    ASSUME NEW a \in Int, NEW b \in Int, NEW c \in Nat, a <= b
    PROVE  a * c <= b * c
PROOF OBVIOUS

\* A quotient is the largest number whose product does not exceed what is divided.
LEMMA Quotient ==
    ASSUME NEW n \in Nat, NEW d \in Nat \ {0}, NEW q \in Int
    PROVE  q <= n \div d <=> q * d <= n
PROOF
  <1> DEFINE k == n \div d
             r == n % d
  <1>1. k \in Nat /\ r \in 0 .. d - 1 /\ n = d * k + r
    BY Division
  <1> HIDE DEF k, r
  <1>2. ASSUME q <= k PROVE q * d <= n
    <2>1. q * d <= k * d
      BY <1>1, <1>2, TimesMonotonic
    <2>2. k * d = d * k
      BY <1>1
    <2> QED BY <1>1, <2>1, <2>2
  <1>3. ASSUME k < q PROVE n < q * d
    <2>1. (k + 1) * d <= q * d
      BY <1>1, <1>3, TimesMonotonic
    <2>2. (k + 1) * d = d * k + d
      BY <1>1
    <2> QED BY <1>1, <2>1, <2>2
  <1>4. q * d \in Int /\ n \in Int
    OBVIOUS
  <1> QED BY <1>1, <1>2, <1>3, <1>4 DEF k

-----------------------------------------------------------------------------
(* Groups and waves *)

\* How many of n groups the first k waves take.
Upto(k, n) == k * (n \div Waves) + (IF k <= n % Waves THEN k ELSE n % Waves)

\* A number of groups is a natural number.
LEMMA UptoIsInt ==
    ASSUME NEW k \in Nat, NEW n \in Nat
    PROVE  Upto(k, n) \in Nat
PROOF
  <1>1. Waves \in Nat \ {0}
    BY AdmissionAssumption
  <1>2. n \div Waves \in Nat /\ n % Waves \in Nat
    BY <1>1, Division
  <1>3. k * (n \div Waves) \in Nat
    BY <1>2
  <1> QED BY <1>2, <1>3 DEF Upto

\* More waves take no fewer groups.
LEMMA UptoMonotonic ==
    ASSUME NEW n \in Nat, NEW j \in Nat, NEW k \in Nat, j <= k
    PROVE  Upto(j, n) <= Upto(k, n)
PROOF
  <1> DEFINE b == n \div Waves
             r == n % Waves
  <1>1. Waves \in Nat \ {0}
    BY AdmissionAssumption
  <1>2. b \in Nat /\ r \in Nat
    BY <1>1, Division
  <1>3. Upto(j, n) = j * b + (IF j <= r THEN j ELSE r)
        /\ Upto(k, n) = k * b + (IF k <= r THEN k ELSE r)
    BY DEF Upto
  <1> HIDE DEF b, r
  <1>4. j * b <= k * b /\ j * b \in Nat /\ k * b \in Nat
    BY <1>2, TimesMonotonic
  <1> QED BY <1>2, <1>3, <1>4

\* A wave takes no fewer of more groups.
LEMMA UptoGrows ==
    ASSUME NEW m \in Nat, NEW n \in Nat, m <= n, NEW k \in 0 .. Waves
    PROVE  Upto(k, m) <= Upto(k, n)
PROOF
  <1> DEFINE a == m \div Waves
             b == n \div Waves
             q == m % Waves
             r == n % Waves
  <1>1. Waves \in Nat \ {0}
    BY AdmissionAssumption
  <1>2. /\ a \in Nat /\ q \in 0 .. Waves - 1 /\ m = Waves * a + q
        /\ b \in Nat /\ r \in 0 .. Waves - 1 /\ n = Waves * b + r
    BY <1>1, Division
  <1>3. Upto(k, m) = k * a + (IF k <= q THEN k ELSE q)
        /\ Upto(k, n) = k * b + (IF k <= r THEN k ELSE r)
    BY DEF Upto
  <1>4. a <= b
    <2>1. a * Waves <= m
      BY <1>1, Quotient, a <= m \div Waves
    <2>2. a * Waves \in Int
      BY <1>1, <1>2
    <2>3. a * Waves <= n
      BY <2>1, <2>2
    <2> QED BY <1>1, <1>2, <2>3, Quotient
  <1> HIDE DEF a, b, q, r
  <1>5. CASE a = b
    <2>1. q <= r
      BY <1>1, <1>2, <1>5
    <2>2. k * a \in Nat
      BY <1>1, <1>2
    <2> QED BY <1>1, <1>2, <1>3, <1>5, <2>1, <2>2
  <1>6. CASE a < b
    <2>1. k \in Nat /\ a + 1 <= b
      BY <1>1, <1>2, <1>6
    <2>2. (a + 1) * k <= b * k
      BY <1>2, <2>1, TimesMonotonic
    <2>3. (a + 1) * k = k * a + k /\ b * k = k * b /\ k * a \in Nat /\ k * b \in Nat
      BY <1>2, <2>1
    <2>4. k * a + k <= k * b
      BY <2>2, <2>3
    <2> QED BY <1>1, <1>2, <1>3, <2>1, <2>3, <2>4
  <1> QED BY <1>2, <1>4, <1>5, <1>6

\* getStartingWave returns the wave that takes the group.
LEMMA StartingWaveTakes ==
    ASSUME NEW n \in Nat, NEW g \in Groups(n)
    PROVE  /\ StartingWave(g, n) \in 1 .. Waves
           /\ Upto(StartingWave(g, n) - 1, n) <= g
           /\ g < Upto(StartingWave(g, n), n)
PROOF
  <1> DEFINE b == n \div Waves
             r == n % Waves
             cutoff == r * (b + 1)
             w == StartingWave(g, n)
  <1>1. Waves \in Nat \ {0} /\ g \in Nat /\ g < n
    BY AdmissionAssumption DEF Groups
  <1>2. b \in Nat /\ r \in 0 .. Waves - 1 /\ n = Waves * b + r
    BY <1>1, Division
  <1>3. w = IF g < cutoff THEN g \div (b + 1) + 1 ELSE r + (g - cutoff) \div b + 1
    BY DEF StartingWave
  <1>4. \A k \in Int : Upto(k, n) = k * b + (IF k <= r THEN k ELSE r)
    BY DEF Upto
  <1> HIDE DEF b, r, w
  <1>5. cutoff = r * b + r /\ r * b \in Nat
    BY <1>2
  <1>6. CASE g < cutoff
    <2> DEFINE q == g \div (b + 1)
    <2>1. q \in Nat /\ q * (b + 1) <= g /\ ~ ((q + 1) * (b + 1) <= g)
      BY <1>1, <1>2, Quotient, Division
    <2>2. w = q + 1
      BY <1>3, <1>6
    <2> HIDE DEF q
    <2>3. q < r
      <3> SUFFICES ASSUME r <= q PROVE FALSE
        BY <1>2, <2>1
      <3>1. r * (b + 1) <= q * (b + 1)
        BY <1>2, <2>1, TimesMonotonic
      <3> QED BY <1>1, <1>2, <1>6, <2>1, <3>1
    <2>4. q * (b + 1) = q * b + q /\ (q + 1) * (b + 1) = (q + 1) * b + (q + 1)
      BY <1>2, <2>1
    <2>5. Upto(q, n) = q * b + q /\ Upto(q + 1, n) = (q + 1) * b + (q + 1)
      <3>1. q \in Int /\ q + 1 \in Int /\ q <= r /\ q + 1 <= r
        BY <1>2, <2>1, <2>3
      <3> QED BY <1>4, <3>1
    <2>6. (q + 1) * (b + 1) \in Nat
      BY <1>2, <2>1
    <2>7. Upto(q, n) <= g /\ g < Upto(q + 1, n)
      BY <1>1, <2>1, <2>4, <2>5, <2>6
    <2>8. w \in 1 .. Waves /\ w - 1 = q
      BY <1>1, <1>2, <2>1, <2>2, <2>3
    <2> QED BY <2>2, <2>7, <2>8 DEF w
  <1>7. CASE ~ (g < cutoff)
    <2> DEFINE q == (g - cutoff) \div b
    <2>1. g - cutoff \in Nat /\ g = cutoff + (g - cutoff)
      BY <1>1, <1>2, <1>5, <1>7
    <2>2. (Waves - r) * b = Waves * b - r * b /\ Waves * b \in Nat
      BY <1>1, <1>2
    <2>3. g - cutoff < (Waves - r) * b
      BY <1>1, <1>2, <1>5, <2>1, <2>2
    <2>4. b \in Nat \ {0}
      <3>1. b = 0 => (Waves - r) * b = 0
        BY <1>1, <1>2
      <3> QED BY <1>2, <2>1, <2>3, <3>1
    <2>5. q \in Nat /\ q * b <= g - cutoff /\ ~ ((q + 1) * b <= g - cutoff)
      <3> DEFINE h == g - cutoff
      <3> HIDE DEF h
      <3>1. h \in Nat
        BY <2>1 DEF h
      <3>2. h \div b \in Nat /\ \A k \in Int : k <= h \div b <=> k * b <= h
        BY <2>4, <3>1, Quotient, Division
      <3> QED BY <3>2 DEF h
    <2>6. w = r + q + 1
      BY <1>3, <1>7
    <2> HIDE DEF q
    <2>7. q < Waves - r
      <3> SUFFICES ASSUME Waves - r <= q PROVE FALSE
        BY <1>1, <1>2, <2>5
      <3>1. (Waves - r) * b <= q * b
        BY <1>1, <1>2, <2>5, TimesMonotonic
      <3>2. q * b \in Nat /\ (Waves - r) * b \in Int
        BY <1>1, <1>2, <2>5
      <3> QED BY <2>1, <2>3, <2>5, <3>1, <3>2
    <2>8. /\ (r + q) * b = r * b + q * b
          /\ (r + q + 1) * b = r * b + (q + 1) * b
          /\ q * b \in Nat /\ (q + 1) * b \in Nat
      BY <1>2, <2>5
    <2>9. Upto(r + q, n) = (r + q) * b + r /\ Upto(r + q + 1, n) = (r + q + 1) * b + r
      <3>1. r + q \in Int /\ r + q + 1 \in Int /\ r <= r + q /\ ~ (r + q + 1 <= r)
        BY <1>2, <2>5
      <3>2. r + q <= r => r + q = r
        BY <1>2, <2>5
      <3> QED BY <1>4, <3>1, <3>2
    <2>10. Upto(r + q, n) <= g /\ g < Upto(r + q + 1, n)
      BY <1>1, <1>2, <1>5, <2>1, <2>5, <2>8, <2>9
    <2>11. w \in 1 .. Waves /\ w - 1 = r + q
      BY <1>1, <1>2, <2>5, <2>6, <2>7
    <2> QED BY <2>6, <2>10, <2>11 DEF w
  <1> QED BY <1>6, <1>7

\* Only one wave takes a group.
LEMMA OneWaveTakes ==
    ASSUME NEW n \in Nat, NEW g \in Nat, NEW v \in 1 .. Waves, NEW w \in 1 .. Waves,
           g < Upto(v, n), Upto(w - 1, n) <= g
    PROVE  w <= v
PROOF
  <1>1. Waves \in Nat
    BY AdmissionAssumption
  <1> SUFFICES ASSUME v <= w - 1 PROVE FALSE
    BY <1>1
  <1>2. v \in Nat /\ w - 1 \in Nat
    BY <1>1
  <1>3. Upto(v, n) <= Upto(w - 1, n)
    BY <1>2, UptoMonotonic
  <1>4. Upto(v, n) \in Nat /\ Upto(w - 1, n) \in Nat
    BY <1>2, UptoIsInt
  <1> QED BY <1>3, <1>4

\* A group does not move to a later wave when tee times are appended.
LEMMA StartingWaveFalls ==
    ASSUME NEW m \in Nat, NEW n \in Nat, m <= n, NEW g \in Groups(m)
    PROVE  StartingWave(g, n) <= StartingWave(g, m)
PROOF
  <1> DEFINE v == StartingWave(g, m)
             w == StartingWave(g, n)
  <1>1. g \in Groups(n) /\ g \in Nat
    BY DEF Groups
  <1>2. v \in 1 .. Waves /\ g < Upto(v, m)
    BY StartingWaveTakes
  <1>3. w \in 1 .. Waves /\ Upto(w - 1, n) <= g
    BY <1>1, StartingWaveTakes
  <1> HIDE DEF v, w
  <1>4. Waves \in Nat
    BY AdmissionAssumption
  <1>5. v \in 0 .. Waves /\ v \in Nat
    BY <1>2, <1>4
  <1>6. Upto(v, m) <= Upto(v, n)
    BY <1>5, UptoGrows
  <1>7. Upto(v, m) \in Nat /\ Upto(v, n) \in Nat
    BY <1>5, UptoIsInt
  <1>8. g < Upto(v, n)
    BY <1>1, <1>2, <1>6, <1>7
  <1>9. w <= v
    BY <1>1, <1>2, <1>3, <1>8, OneWaveTakes
  <1> QED BY <1>9 DEF v, w

-----------------------------------------------------------------------------
(* The club's rule *)

\* A wave takes b + 1 groups if it is one of the first m, and b otherwise.
Step(size, b, m) ==
    \A v \in 1 .. Waves : size[v] = IF v <= m THEN b + 1 ELSE b

\* The first k of such waves take k * b groups, and one more for each large one.
LEMMA StepSums ==
    ASSUME NEW b \in Nat, NEW m \in Nat, NEW size, Step(size, b, m)
    PROVE  \A k \in 0 .. Waves : SumOf(size, 1 .. k) = k * b + (IF k <= m THEN k ELSE m)
PROOF
  <1> DEFINE P == {k \in Nat : k <= Waves =>
                     SumOf(size, 1 .. k) = k * b + (IF k <= m THEN k ELSE m)}
  <1>0. Waves \in Nat
    BY AdmissionAssumption
  <1>1. 0 \in P
    <2>1. 1 .. 0 = {} /\ 0 * b = 0
      OBVIOUS
    <2> QED BY <2>1, SumOfNone
  <1>2. ASSUME NEW k \in P PROVE k + 1 \in P
    <2> SUFFICES ASSUME k + 1 <= Waves
                 PROVE  SumOf(size, 1 .. k + 1) =
                          (k + 1) * b + (IF k + 1 <= m THEN k + 1 ELSE m)
      OBVIOUS
    <2>1. k \in Nat /\ SumOf(size, 1 .. k) = k * b + (IF k <= m THEN k ELSE m)
      BY <1>0
    <2>2. \A v \in 1 .. k + 1 : size[v] \in Int
      BY <1>0, <2>1 DEF Step
    <2>3. IsFiniteSet(1 .. k + 1) /\ k + 1 \in 1 .. k + 1
      BY <2>1, FS_Interval
    <2>4. SumOf(size, 1 .. k + 1) = size[k + 1] + SumOf(size, (1 .. k + 1) \ {k + 1})
      BY <2>2, <2>3, SumTakesOut
    <2>5. (1 .. k + 1) \ {k + 1} = 1 .. k
      BY <2>1
    <2>6. size[k + 1] = IF k + 1 <= m THEN b + 1 ELSE b
      BY <1>0, <2>1 DEF Step
    <2>7. (k + 1) * b = k * b + b /\ k * b \in Nat
      BY <2>1
    <2>8. SumOf(size, 1 .. k + 1) = size[k + 1] + (k * b + (IF k <= m THEN k ELSE m))
      BY <2>1, <2>4, <2>5
    <2> HIDE DEF P
    <2>9. CASE k + 1 <= m
      <3>1. size[k + 1] = b + 1 /\ k <= m
        BY <2>1, <2>6, <2>9
      <3> QED BY <2>1, <2>7, <2>8, <2>9, <3>1
    <2>10. CASE ~ (k + 1 <= m)
      <3>1. size[k + 1] = b /\ (IF k <= m THEN k ELSE m) = m
        BY <2>1, <2>6, <2>10
      <3> QED BY <2>1, <2>7, <2>8, <2>10, <3>1
    <2> QED BY <2>9, <2>10
  <1>3. P = Nat
    <2>1. P \in SUBSET Nat
      OBVIOUS
    <2> HIDE DEF P
    <2> QED BY <1>1, <1>2, <2>1, NumberInduction
  <1>4. ASSUME NEW k \in 0 .. Waves
        PROVE  SumOf(size, 1 .. k) = k * b + (IF k <= m THEN k ELSE m)
    <2>1. k \in P /\ k <= Waves
      BY <1>0, <1>3
    <2> QED BY <2>1
  <1> QED BY <1>4

\* Sizes that differ by one at most and do not increase are such a step.
LEMMA FairSizesStep ==
    ASSUME NEW b \in Nat, NEW size \in [1 .. Waves -> Nat \cap {b, b + 1}],
           \A v \in 1 .. Waves - 1 : size[v] >= size[v + 1]
    PROVE  \E m \in 0 .. Waves : Step(size, b, m)
PROOF
  <1> DEFINE T == {v \in 0 .. Waves : \A u \in 1 .. Waves : u > v => size[u] = b}
  <1>0. Waves \in Nat /\ \A v \in 1 .. Waves : size[v] \in {b, b + 1}
    BY AdmissionAssumption
  <1>1. Waves \in T /\ T \in SUBSET Nat
    BY <1>0
  <1>2. PICK m \in T : \A v \in T : m <= v
    <2> HIDE DEF T
    <2> QED BY <1>1, LeastNatural
  <1>3. m \in 0 .. Waves /\ \A u \in 1 .. Waves : u > m => size[u] = b
    OBVIOUS
  <1>4. CASE m = 0
    BY SMTT(20), <1>0, <1>3, <1>4 DEF Step
  <1>5. CASE m # 0
    <2>0. m \in 1 .. Waves /\ m - 1 \in 0 .. Waves /\ ~ (m <= m - 1)
      BY <1>0, <1>3, <1>5
    <2>1. m - 1 \notin T
      BY <1>2, <2>0
    <2>2. PICK u \in 1 .. Waves : u > m - 1 /\ size[u] # b
      BY <2>0, <2>1
    <2>3. u = m
      BY <1>0, <1>3, <2>0, <2>2
    <2>4. size[m] = b + 1
      BY <1>0, <2>0, <2>2, <2>3
    <2> DEFINE G == {k \in Nat : k < m => size[m - k] = b + 1}
    <2>5. 0 \in G
      BY <2>0, <2>4
    <2>6. ASSUME NEW k \in G PROVE k + 1 \in G
      <3> SUFFICES ASSUME k + 1 < m PROVE size[m - (k + 1)] = b + 1
        OBVIOUS
      <3>1. size[m - k] = b + 1
        BY <2>0
      <3>2. m - (k + 1) \in 1 .. Waves - 1 /\ m - (k + 1) + 1 = m - k
        BY <1>0, <2>0
      <3>3. size[m - (k + 1)] >= size[m - k]
        BY <3>2
      <3>4. size[m - (k + 1)] \in {b, b + 1}
        BY <1>0, <3>2
      <3> QED BY <3>1, <3>3, <3>4
    <2>7. G = Nat
      <3>1. G \in SUBSET Nat
        OBVIOUS
      <3> HIDE DEF G
      <3> QED BY <2>5, <2>6, <3>1, NumberInduction
    <2>8. ASSUME NEW v \in 1 .. Waves, v <= m PROVE size[v] = b + 1
      <3>1. m - v \in Nat /\ m - v < m /\ m - (m - v) = v
        BY <1>0, <2>0, <2>8
      <3>2. m - v \in G
        BY <2>7, <3>1
      <3> QED BY <3>1, <3>2
    <2>9. ASSUME NEW v \in 1 .. Waves, ~ (v <= m) PROVE size[v] = b
      BY <1>0, <1>3, <2>9
    <2> QED BY <1>3, <2>8, <2>9 DEF Step
  <1> QED BY <1>4, <1>5

\* What FairWave asks of a wave.
Fair(w, g, n) ==
    \E size \in [1 .. Waves -> Nat \cap {n \div Waves, n \div Waves + 1}] :
        /\ \A v \in 1 .. Waves - 1 : size[v] >= size[v + 1]
        /\ SumOf(size, 1 .. Waves) = n
        /\ SumOf(size, 1 .. w - 1) <= g
        /\ g < SumOf(size, 1 .. w)

\* FairWave in the words of these proofs.
LEMMA FairWaveIsFair ==
    \A g, n : FairWave(g, n) = CHOOSE w \in 1 .. Waves : Fair(w, g, n)
PROOF BY DEF FairWave, Fair, MapThenSumSet, MapThenFoldSet, SumOf, Sums, First

\* There is one way of dealing out the groups evenly, and Upto counts it.
LEMMA FairTakes ==
    ASSUME NEW n \in Nat, NEW g \in Nat, NEW w \in 1 .. Waves
    PROVE  Fair(w, g, n) <=> Upto(w - 1, n) <= g /\ g < Upto(w, n)
PROOF
  <1> DEFINE b == n \div Waves
             r == n % Waves
  <1>0. Waves \in Nat \ {0} /\ w - 1 \in 0 .. Waves /\ w \in 0 .. Waves
        /\ Waves \in 0 .. Waves
    BY AdmissionAssumption
  <1>1. b \in Nat /\ r \in 0 .. Waves - 1 /\ n = Waves * b + r
    BY <1>0, Division
  <1>2. \A k \in Int : Upto(k, n) = k * b + (IF k <= r THEN k ELSE r)
    BY DEF Upto
  <1>3. Fair(w, g, n) <=>
          \E size \in [1 .. Waves -> Nat \cap {b, b + 1}] :
              /\ \A v \in 1 .. Waves - 1 : size[v] >= size[v + 1]
              /\ SumOf(size, 1 .. Waves) = n
              /\ SumOf(size, 1 .. w - 1) <= g
              /\ g < SumOf(size, 1 .. w)
    BY DEF Fair
  <1> HIDE DEF b, r
  <1>4. ASSUME NEW size, Step(size, b, r)
        PROVE  \A k \in 0 .. Waves : SumOf(size, 1 .. k) = Upto(k, n)
    BY <1>0, <1>1, <1>2, <1>4, StepSums
  <1>5. ASSUME Fair(w, g, n) PROVE Upto(w - 1, n) <= g /\ g < Upto(w, n)
    <2>1. PICK size \in [1 .. Waves -> Nat \cap {b, b + 1}] :
              /\ \A v \in 1 .. Waves - 1 : size[v] >= size[v + 1]
              /\ SumOf(size, 1 .. Waves) = n
              /\ SumOf(size, 1 .. w - 1) <= g
              /\ g < SumOf(size, 1 .. w)
      BY <1>3, <1>5
    <2>2. PICK m \in 0 .. Waves : Step(size, b, m)
      BY <1>1, <2>1, FairSizesStep
    <2>3. m \in Nat /\ n = Waves * b + m
      <3>1. m \in Nat /\ m <= Waves
        BY <1>0
      <3>2. SumOf(size, 1 .. Waves) = Waves * b + (IF Waves <= m THEN Waves ELSE m)
        BY <1>0, <1>1, <2>2, <3>1, StepSums
      <3>3. Waves <= m => Waves = m
        BY <1>0, <3>1
      <3> QED BY <2>1, <3>1, <3>2, <3>3
    <2>4. m = r
      BY <1>0, <1>1, <2>3
    <2> QED BY <1>0, <1>4, <2>1, <2>2, <2>4
  <1>6. ASSUME Upto(w - 1, n) <= g, g < Upto(w, n) PROVE Fair(w, g, n)
    <2> DEFINE size == [v \in 1 .. Waves |-> IF v <= r THEN b + 1 ELSE b]
    <2>1. size \in [1 .. Waves -> Nat \cap {b, b + 1}] /\ Step(size, b, r)
      BY <1>1 DEF Step
    <2>2. \A v \in 1 .. Waves - 1 : size[v] >= size[v + 1]
      BY <1>0, <1>1
    <2> HIDE DEF size
    <2>3. \A k \in 0 .. Waves : SumOf(size, 1 .. k) = Upto(k, n)
      BY <1>4, <2>1
    <2>4. Upto(Waves, n) = n
      <3>1. Waves \in Int /\ ~ (Waves <= r)
        BY <1>0, <1>1
      <3> QED BY <1>1, <1>2, <3>1
    <2> QED BY <1>0, <1>3, <1>6, <2>1, <2>2, <2>3, <2>4
  <1> QED BY <1>5, <1>6

\* getStartingWave deals the groups out as the club does.
LEMMA StartingWaveIsFair ==
    ASSUME NEW n \in Nat, NEW g \in Groups(n)
    PROVE  FairWave(g, n) = StartingWave(g, n)
PROOF
  <1> DEFINE w == StartingWave(g, n)
             v == FairWave(g, n)
  <1>1. g \in Nat /\ Waves \in Nat
    BY AdmissionAssumption DEF Groups
  <1>2. w \in 1 .. Waves /\ Upto(w - 1, n) <= g /\ g < Upto(w, n)
    BY StartingWaveTakes
  <1> HIDE DEF w, v
  <1>3. Fair(w, g, n)
    BY <1>1, <1>2, FairTakes
  <1>4. v \in 1 .. Waves /\ Fair(v, g, n)
    BY <1>2, <1>3, FairWaveIsFair DEF v
  <1>5. Upto(v - 1, n) <= g /\ g < Upto(v, n)
    BY <1>1, <1>4, FairTakes
  <1>6. v <= w /\ w <= v
    BY <1>1, <1>2, <1>4, <1>5, OneWaveTakes
  <1> QED BY <1>1, <1>2, <1>4, <1>6 DEF v, w

-----------------------------------------------------------------------------
(* The clocks *)

\* The assumptions on waves and times, and that the priority sign-up lasts.
LEMMA Times ==
    /\ Waves \in Nat \ {0} /\ Duration \in Nat \ {0}
    /\ PriorityStart \in Nat /\ SignupStart \in Nat /\ SignupEnd \in Nat
    /\ SignupStart = PriorityStart + Duration /\ SignupStart < SignupEnd
    /\ Lag \in Nat /\ LastTick \in Nat /\ MaxTotal \in Nat
    /\ FirstTotal \in Nat \ {0} /\ FirstTotal <= MaxTotal
PROOF BY AdmissionAssumption DEF Duration

\* getCurrentWave, without its minimum.
LEMMA CurrentWaveIs ==
    ASSUME NEW n \in Nat, PriorityStart <= n, n < SignupStart
    PROVE  LET q == ((n - PriorityStart) * Waves) \div Duration
           IN  q \in Nat /\ CurrentWave(n) = IF q + 1 <= Waves THEN q + 1 ELSE Waves
PROOF
  <1> DEFINE e == (n - PriorityStart) * Waves
             q == e \div Duration
  <1>1. n - PriorityStart \in Nat
    BY Times
  <1>2. e \in Nat
    BY <1>1, Times
  <1>3. q \in Nat
    BY <1>2, Times, Division
  <1>4. CurrentWave(n) = Min({q + 1, Waves})
    BY Times DEF CurrentWave
  <1> HIDE DEF q
  <1>5. Min({q + 1, Waves}) = IF q + 1 <= Waves THEN q + 1 ELSE Waves
    BY <1>3, Times DEF Min
  <1> QED BY <1>3, <1>4, <1>5 DEF q

\* The API's wave is one of the waves, or -1 before or one more after them.
LEMMA CurrentWaveType ==
    ASSUME NEW n \in Nat
    PROVE  /\ CurrentWave(n) \in {-1} \cup 1 .. Waves + 1
           /\ PriorityStart <= n => CurrentWave(n) \in 1 .. Waves + 1
PROOF
  <1>1. CASE n < PriorityStart
    BY <1>1, Times DEF CurrentWave
  <1>2. CASE n >= SignupStart
    BY <1>2, Times DEF CurrentWave
  <1>3. CASE PriorityStart <= n /\ n < SignupStart
    BY <1>3, CurrentWaveIs, Times
  <1> QED BY <1>1, <1>2, <1>3, Times

\* What the API admits it goes on admitting.
LEMMA CurrentWaveMonotonic ==
    ASSUME NEW m \in Nat, NEW n \in Nat, PriorityStart <= m, m <= n
    PROVE  CurrentWave(m) <= CurrentWave(n)
PROOF
  <1>1. CASE SignupStart <= n
    <2>1. CurrentWave(n) = Waves + 1
      BY <1>1, Times DEF CurrentWave
    <2> QED BY <2>1, CurrentWaveType, Times
  <1>2. CASE n < SignupStart
    <2> DEFINE d == (m - PriorityStart) * Waves
               e == (n - PriorityStart) * Waves
               p == d \div Duration
               q == e \div Duration
    <2>1. m - PriorityStart \in Nat /\ n - PriorityStart \in Nat
          /\ m - PriorityStart <= n - PriorityStart
      BY Times
    <2>2. d \in Nat /\ e \in Nat
      BY <2>1, Times
    <2>3. d <= e
      <3>1. \A a, b \in Nat : a <= b => a * Waves <= b * Waves
        BY Times, TimesMonotonic
      <3> QED BY <2>1, <3>1
    <2>4. p \in Nat /\ CurrentWave(m) = IF p + 1 <= Waves THEN p + 1 ELSE Waves
      BY <1>2, CurrentWaveIs, Times
    <2>5. q \in Nat /\ CurrentWave(n) = IF q + 1 <= Waves THEN q + 1 ELSE Waves
      BY <1>2, CurrentWaveIs, Times
    <2> HIDE DEF d, e
    <2>6. p * Duration <= d
      BY <2>2, <2>4, Times, Quotient
    <2>7. p * Duration <= e
      <3>1. p * Duration \in Int
        BY <2>4, Times
      <3> QED BY <2>2, <2>3, <2>6, <3>1
    <2>8. p <= q
      BY <2>2, <2>4, <2>7, Times, Quotient
    <2> HIDE DEF p, q
    <2> QED BY <2>4, <2>5, <2>8, Times
  <1> QED BY <1>1, <1>2, Times

\* The API has reached wave w at n: a page may offer it.
Reached(w, n) == w <= 0 \/ (PriorityStart <= n /\ w <= CurrentWave(n))

\* What has been reached stays so.
LEMMA ReachedStays ==
    ASSUME NEW w \in Int, NEW m \in Nat, NEW n \in Nat, m <= n, Reached(w, m)
    PROVE  Reached(w, n)
PROOF
  <1>1. CASE w <= 0
    BY <1>1 DEF Reached
  <1>2. CASE PriorityStart <= m /\ w <= CurrentWave(m)
    <2>1. CurrentWave(m) <= CurrentWave(n) /\ PriorityStart <= n
      BY <1>2, CurrentWaveMonotonic, Times
    <2>2. CurrentWave(m) \in Int /\ CurrentWave(n) \in Int
      BY CurrentWaveType, Times
    <2> QED BY <1>2, <2>1, <2>2 DEF Reached
  <1> QED BY <1>1, <1>2 DEF Reached

\* When wave i + 1 begins, as getWaveUnlockTimes rounds it.
Unlock(i) == PriorityStart + (i * Duration) \div Waves

\* Unlock times are times ...
LEMMA UnlockIsNat == \A i \in 0 .. Waves - 1 : Unlock(i) \in Nat
PROOF
  <1> SUFFICES ASSUME NEW i \in 0 .. Waves - 1 PROVE Unlock(i) \in Nat
    OBVIOUS
  <1>1. i * Duration \in Nat
    BY Times
  <1>2. (i * Duration) \div Waves \in Nat
    BY <1>1, Times, Division
  <1> QED BY <1>2, Times DEF Unlock

\* ... and there is one at least.
LEMMA UnlockTimesAre ==
    /\ UnlockTimes = {Unlock(i) : i \in 0 .. Waves - 1}
    /\ UnlockTimes \subseteq Nat
    /\ UnlockTimes # {}
PROOF
  <1>1. UnlockTimes = {Unlock(i) : i \in 0 .. Waves - 1}
    BY DEF UnlockTimes, Unlock
  <1>2. 0 \in 0 .. Waves - 1
    BY Times
  <1> QED BY <1>1, <1>2, UnlockIsNat

\* The unlock times of the first k waves are k at most.
LEMMA FirstUnlocks ==
    ASSUME NEW k \in 0 .. Waves, NEW T, \A u \in T : \E i \in 0 .. k - 1 : u = Unlock(i)
    PROVE  IsFiniteSet(T) /\ Cardinality(T) \in 0 .. k
PROOF
  <1> DEFINE f == [i \in 0 .. k - 1 |-> Unlock(i)]
             R == {Unlock(i) : i \in 0 .. k - 1}
  <1>0. k \in Nat
    BY Times
  <1>1. IsFiniteSet(0 .. k - 1) /\ Cardinality(0 .. k - 1) = k
    <2>1. 0 \in Int /\ k - 1 \in Int
      BY <1>0
    <2>2. IsFiniteSet(0 .. k - 1)
          /\ Cardinality(0 .. k - 1) = IF 0 > k - 1 THEN 0 ELSE (k - 1) - 0 + 1
      BY <2>1, FS_Interval
    <2> QED BY <1>0, <2>2
  <1>2. f \in Surjection(0 .. k - 1, R)
    BY DEF Surjection
  <1>3. IsFiniteSet(R) /\ Cardinality(R) <= k
    <2> HIDE DEF f, R
    <2> QED BY <1>1, <1>2, FS_Surjection
  <1>4. T \in SUBSET R
    OBVIOUS
  <1> HIDE DEF R
  <1>5. IsFiniteSet(T) /\ Cardinality(T) <= Cardinality(R)
    BY <1>3, <1>4, FS_Subset
  <1>6. Cardinality(T) \in Nat /\ Cardinality(R) \in Nat
    BY <1>3, <1>5, FS_CardinalityType
  <1> QED BY <1>0, <1>3, <1>5, <1>6

\* A tab that counts the unlock times that have passed is less than a
\* millisecond ahead of the API.
LEMMA PassedIsReached ==
    ASSUME NEW c \in Int, NEW n \in Nat, c <= n
    PROVE  LET w == Cardinality({u \in UnlockTimes : u <= c})
           IN  w \in 0 .. Waves /\ Reached(w, n + 1)
PROOF
  <1> DEFINE T == {u \in UnlockTimes : u <= c}
             w == Cardinality(T)
             e == ((n + 1) - PriorityStart) * Waves
             q == e \div Duration
  <1>1. w \in 0 .. Waves
    <2>1. Waves \in 0 .. Waves
      BY Times
    <2>2. \A u \in T : \E i \in 0 .. Waves - 1 : u = Unlock(i)
      BY UnlockTimesAre
    <2> HIDE DEF T
    <2> QED BY <2>1, <2>2, FirstUnlocks
  <1>2. ASSUME n < PriorityStart PROVE Reached(w, n + 1)
    <2>1. \A u \in UnlockTimes : PriorityStart <= u
      <3> SUFFICES ASSUME NEW i \in 0 .. Waves - 1 PROVE PriorityStart <= Unlock(i)
        BY UnlockTimesAre
      <3>1. i * Duration \in Nat
        BY Times
      <3>2. (i * Duration) \div Waves \in Nat
        BY <3>1, Times, Division
      <3> QED BY <3>2, Times DEF Unlock
    <2>2. ASSUME NEW u \in T PROVE FALSE
      <3>1. u \in Nat /\ PriorityStart <= u /\ u <= c
        BY <2>1, UnlockTimesAre
      <3> QED BY <1>2, <3>1, Times
    <2>3. T = {}
      BY <2>2
    <2>4. w = 0
      BY <2>3, FS_EmptySet
    <2> HIDE DEF w
    <2> QED BY <2>4 DEF Reached
  <1>3. ASSUME SignupStart <= n + 1 PROVE Reached(w, n + 1)
    <2>1. CurrentWave(n + 1) = Waves + 1
      BY <1>3, Times DEF CurrentWave
    <2>2. PriorityStart <= n + 1
      BY <1>3, Times
    <2> HIDE DEF w
    <2> QED BY <1>1, <2>1, <2>2, Times DEF Reached
  <1>4. ASSUME PriorityStart <= n, n + 1 < SignupStart PROVE Reached(w, n + 1)
    <2>1. n + 1 \in Nat /\ PriorityStart <= n + 1 /\ n + 1 - PriorityStart \in Nat
      BY <1>4, Times
    <2>2. e \in Nat
      BY <2>1, Times
    <2>3. q \in Nat /\ CurrentWave(n + 1) = IF q + 1 <= Waves THEN q + 1 ELSE Waves
      <3> DEFINE m == n + 1
      <3>1. m \in Nat /\ PriorityStart <= m /\ m < SignupStart
        BY <1>4, <2>1
      <3> HIDE DEF m
      <3>2. LET p == ((m - PriorityStart) * Waves) \div Duration
            IN  p \in Nat /\ CurrentWave(m) = IF p + 1 <= Waves THEN p + 1 ELSE Waves
        BY <3>1, CurrentWaveIs
      <3> QED BY <3>2 DEF m
    <2> DEFINE k == CurrentWave(n + 1)
    <2>4. k \in 0 .. Waves
      <3> HIDE DEF q
      <3> QED BY <2>3, Times
    <2>5. ASSUME NEW u \in T PROVE \E i \in 0 .. k - 1 : u = Unlock(i)
      <3>1. PICK i \in 0 .. Waves - 1 : u = Unlock(i)
        BY UnlockTimesAre
      <3> DEFINE d == (i * Duration) \div Waves
      <3>2. i * Duration \in Nat /\ d \in Nat
        <4>1. i * Duration \in Nat
          BY Times
        <4> QED BY <4>1, Times, Division
      <3>3. d <= n - PriorityStart
        <4>1. PriorityStart + d <= c
          BY <3>1 DEF Unlock
        <4> HIDE DEF d
        <4> QED BY <3>2, <4>1, Times
      <3>4. ~ (n - PriorityStart + 1 <= d)
        BY <2>1, <3>2, <3>3, Times
      <3>5. ~ ((n - PriorityStart + 1) * Waves <= i * Duration)
        BY <2>1, <3>2, <3>4, Times, Quotient
      <3>6. (n - PriorityStart + 1) * Waves = e
        BY <2>1, Times
      <3>7. i * Duration <= e
        <4> HIDE DEF e
        <4> QED BY <2>2, <3>2, <3>5, <3>6
      <3>8. i <= q
        <4> HIDE DEF e
        <4> QED BY <2>2, <3>7, Times, Quotient
      <3>9. i \in 0 .. k - 1
        <4> HIDE DEF q
        <4> QED BY <2>3, <3>8, Times
      <3> QED BY <3>1, <3>9
    <2> HIDE DEF T, k
    <2>6. Cardinality(T) \in 0 .. k
      BY <2>4, <2>5, FirstUnlocks
    <2>7. w <= k
      BY <2>4, <2>6, Times
    <2> HIDE DEF w
    <2> QED BY <2>1, <2>7 DEF Reached, k
  <1>5. Reached(w, n + 1)
    <2> HIDE DEF w
    <2> QED BY <1>2, <1>3, <1>4, Times
  <1> QED BY <1>1, <1>5

\* There is a next unlock time, for the timer.
LEMMA NextUnlock ==
    ASSUME NEW T \in SUBSET UnlockTimes, T # {}
    PROVE  Min(T) \in Nat
PROOF
  <1>1. T \in SUBSET Nat
    BY UnlockTimesAre
  <1>2. \E x \in T : \A y \in T : x <= y
    BY <1>1, LeastNatural
  <1>3. Min(T) \in T
    BY <1>2 DEF Min
  <1> QED BY <1>1, <1>3

-----------------------------------------------------------------------------
(* The invariant *)

\* Of a tab whose clock is not ahead.
OnTime(t) == skew[t] <= 0

\* A tab never knows of more groups than there are.
KnownInv == \A t \in Tabs : known[t] <= total

\* A snapshot under way names a wave the API has reached ...
MailInv == \A t \in Tabs : \A i \in 1 .. Len(mail[t]) : Reached(mail[t][i], now)

\* ... and a tab is at one that is reached within the millisecond.
WaveInv == \A t \in Tabs : OnTime(t) => Reached(wave[t], now + 1)

\* A request is for a group whose wave had begun a millisecond after the click.
ClickInv ==
    \A t \in Tabs : OnTime(t) /\ click[t] # NoClick =>
        /\ click[t].at <= now
        /\ click[t].group < total
        /\ Reached(StartingWave(click[t].group, total), click[t].at + 1)

OfferInv == TypeOK /\ KnownInv /\ MailInv /\ WaveInv /\ ClickInv

\* Waves are numbers, for the provers.
LEMMA WaveValues == {-1} \cup 0 .. Waves + 1 \subseteq Int
PROOF BY Times

\* Page and API deal out the groups alike.
LEMMA CalculateIsStarting == \A g, n : CalculateWave(g, n) = StartingWave(g, n)
PROOF BY DEF CalculateWave, StartingWave

\* Initially no tab knows of a group.
LEMMA InitOffers == Init => OfferInv
PROOF
  <1> SUFFICES ASSUME Init PROVE OfferInv
    OBVIOUS
  <1> USE DEF Init
  <1>1. TypeOK
    <2>1. 0 \in Skews /\ 0 \in Ticks /\ 0 \in 0 .. GroupSize /\ 0 \in 0 .. MaxTotal
      BY AdmissionAssumption, Times DEF Ticks
    <2>2. total \in FirstTotal .. MaxTotal
      BY Times
    <2>3. skew \in [Tabs -> Skews] /\ listening \subseteq Tabs
      BY <2>1
    <2>4. wave \in [Tabs -> {-1} \cup 0 .. Waves + 1]
      OBVIOUS
    <2>5. \A t \in Tabs : <<>> \in Seq({-1} \cup 1 .. Waves + 1)
      OBVIOUS
    <2> QED BY <2>1, <2>2, <2>3, <2>4, <2>5 DEF TypeOK, None
  <1>2. KnownInv
    BY Times DEF KnownInv
  <1>3. MailInv
    BY DEF MailInv
  <1>4. WaveInv
    BY DEF WaveInv, Reached
  <1>5. ClickInv
    BY DEF ClickInv
  <1> QED BY <1>1, <1>2, <1>3, <1>4, <1>5 DEF OfferInv

\* With a wave all earlier ones have been reached.
LEMMA ReachedEarlier ==
    ASSUME NEW v \in Int, NEW w \in Int, w <= v, NEW n \in Nat, Reached(v, n)
    PROVE  Reached(w, n)
PROOF BY CurrentWaveType, WaveValues DEF Reached

\* What TypeOK says of the values at hand.
LEMMA TypeFacts ==
    ASSUME TypeOK
    PROVE  /\ now \in Nat /\ total \in Nat /\ total <= MaxTotal
           /\ \A t \in Tabs : /\ skew[t] \in Int
                              /\ known[t] \in Nat
                              /\ wave[t] \in Int
                              /\ Clock(t) \in Int
                              /\ OnTime(t) => Clock(t) <= now
                              /\ mail[t] \in Seq({-1} \cup 1 .. Waves + 1)
                              /\ \A i \in 1 .. Len(mail[t]) : mail[t][i] \in Int
           /\ \A t \in Tabs : click[t] # NoClick =>
                  click[t].group \in Groups(MaxTotal) /\ click[t].at \in Ticks
                  /\ click[t].group \in Nat /\ click[t].at \in Nat
PROOF
  <1>1. now \in Nat /\ total \in Nat /\ total <= MaxTotal
    BY Times DEF TypeOK, Ticks
  <1>2. ASSUME NEW t \in Tabs
        PROVE  skew[t] \in Int /\ known[t] \in Nat /\ wave[t] \in Int
    <2>1. skew[t] \in Skews /\ known[t] \in 0 .. MaxTotal
          /\ wave[t] \in {-1} \cup 0 .. Waves + 1
      BY DEF TypeOK
    <2>2. skew[t] \in Int
      BY <2>1, AdmissionAssumption
    <2> QED BY <2>1, <2>2, WaveValues, Times
  <1>3. ASSUME NEW t \in Tabs
        PROVE  Clock(t) \in Int /\ (OnTime(t) => Clock(t) <= now)
    BY <1>1, <1>2 DEF Clock, OnTime
  <1>4. ASSUME NEW t \in Tabs
        PROVE  /\ mail[t] \in Seq({-1} \cup 1 .. Waves + 1)
               /\ \A i \in 1 .. Len(mail[t]) : mail[t][i] \in Int
    <2>1. mail[t] \in Seq({-1} \cup 1 .. Waves + 1)
      BY DEF TypeOK
    <2>2. \A i \in 1 .. Len(mail[t]) : mail[t][i] \in {-1} \cup 1 .. Waves + 1
      BY <2>1
    <2> QED BY <2>1, <2>2, Times
  <1>5. ASSUME NEW t \in Tabs, click[t] # NoClick
        PROVE  click[t].group \in Groups(MaxTotal) /\ click[t].at \in Ticks
               /\ click[t].group \in Nat /\ click[t].at \in Nat
    <2>1. click[t] \in [group : Groups(MaxTotal), at : Ticks]
      BY <1>5 DEF TypeOK
    <2> QED BY <2>1, Times DEF Groups, Ticks
  <1> QED BY <1>1, <1>2, <1>3, <1>4, <1>5

\* Time passes: what was reached stays reached.
LEMMA TickOffers == ASSUME OfferInv, Tick PROVE OfferInv'
PROOF
  <1> USE DEF OfferInv, Tick, clockVars, tabVars, openVars
  <1>1. now \in Nat /\ now' \in Nat /\ now <= now' /\ now + 1 <= now' + 1
    BY TypeFacts
  <1>2. TypeOK'
    <2>1. now' \in Ticks
      BY <1>1, Times DEF Ticks
    <2> QED BY <2>1 DEF TypeOK
  <1>3. KnownInv'
    BY DEF KnownInv
  <1>4. MailInv'
    <2> SUFFICES ASSUME NEW t \in Tabs, NEW i \in 1 .. Len(mail[t])
                 PROVE  Reached(mail[t][i], now')
      BY DEF MailInv
    <2>1. Reached(mail[t][i], now) /\ mail[t][i] \in Int
      BY TypeFacts DEF MailInv
    <2> QED BY <1>1, <2>1, ReachedStays
  <1>5. WaveInv'
    <2> SUFFICES ASSUME NEW t \in Tabs, OnTime(t) PROVE Reached(wave[t], now' + 1)
      BY DEF WaveInv, OnTime
    <2>1. Reached(wave[t], now + 1) /\ wave[t] \in Int
      BY TypeFacts DEF WaveInv
    <2>2. now + 1 \in Nat /\ now' + 1 \in Nat
      BY <1>1
    <2> QED BY <1>1, <2>1, <2>2, ReachedStays
  <1>6. ClickInv'
    <2> SUFFICES ASSUME NEW t \in Tabs, OnTime(t), click[t] # NoClick
                 PROVE  click[t].at <= now'
      BY DEF ClickInv, OnTime
    <2>1. click[t].at <= now /\ click[t].at \in Nat
      BY TypeFacts DEF ClickInv
    <2> QED BY <1>1, <2>1
  <1> QED BY <1>2, <1>3, <1>4, <1>5, <1>6

\* Appended tee times move no group to a later wave.
LEMMA AppendOffers == ASSUME OfferInv, AppendTeetime PROVE OfferInv'
PROOF
  <1> USE DEF OfferInv, AppendTeetime, clockVars, tabVars, openVars
  <1>1. total \in Nat /\ total' \in Nat /\ total <= total' /\ total' = total + 1
    BY TypeFacts
  <1>2. TypeOK'
    <2>1. total' \in FirstTotal .. MaxTotal
      BY Times DEF TypeOK
    <2> QED BY <2>1 DEF TypeOK
  <1>3. KnownInv'
    <2> SUFFICES ASSUME NEW t \in Tabs PROVE known[t] <= total'
      BY DEF KnownInv
    <2>1. known[t] <= total /\ known[t] \in Nat
      BY TypeFacts DEF KnownInv
    <2> QED BY <1>1, <2>1
  <1>4. MailInv' /\ WaveInv'
    BY DEF MailInv, WaveInv, OnTime
  <1>5. ClickInv'
    <2> SUFFICES ASSUME NEW t \in Tabs, OnTime(t), click[t] # NoClick
                 PROVE  /\ click[t].at <= now
                        /\ click[t].group < total'
                        /\ Reached(StartingWave(click[t].group, total'), click[t].at + 1)
      BY DEF ClickInv, OnTime
    <2> DEFINE g == click[t].group
               a == click[t].at
    <2>1. a <= now /\ g < total /\ Reached(StartingWave(g, total), a + 1)
      BY DEF ClickInv
    <2>2. g \in Nat /\ a + 1 \in Nat
      BY TypeFacts
    <2> HIDE DEF g, a
    <2>3. g \in Groups(total) /\ g \in Groups(total')
      BY <1>1, <2>1, <2>2 DEF Groups
    <2>4. StartingWave(g, total') <= StartingWave(g, total)
      BY <1>1, <2>3, StartingWaveFalls
    <2>5. StartingWave(g, total) \in Int /\ StartingWave(g, total') \in Int
      BY <1>1, <2>3, StartingWaveTakes, Times
    <2>6. Reached(StartingWave(g, total'), a + 1)
      BY <2>1, <2>2, <2>4, <2>5, ReachedEarlier
    <2> QED BY <1>1, <2>1, <2>2, <2>6 DEF g, a
  <1> QED BY <1>2, <1>3, <1>4, <1>5

\* A snapshot carries the wave of now.
LEMMA AnnounceOffers == ASSUME OfferInv, Announce PROVE OfferInv'
PROOF
  <1> USE DEF OfferInv, Announce, clockVars, tabVars, openVars
  <1> DEFINE w == CurrentWave(now)
  <1>1. now \in Nat /\ w \in {-1} \cup 1 .. Waves + 1
    BY TypeFacts, CurrentWaveType
  <1>2. Reached(w, now)
    BY <1>1, CurrentWaveType, Times DEF Reached, CurrentWave
  <1> HIDE DEF w
  <1>3. ASSUME NEW t \in Tabs
        PROVE  /\ mail'[t] \in {mail[t], Append(mail[t], w)}
               /\ mail[t] \in Seq({-1} \cup 1 .. Waves + 1)
               /\ mail'[t] \in Seq({-1} \cup 1 .. Waves + 1)
    <2>1. mail'[t] \in {mail[t], Append(mail[t], w)}
      BY DEF w
    <2>2. mail[t] \in Seq({-1} \cup 1 .. Waves + 1)
      BY TypeFacts
    <2> QED BY <1>1, <2>1, <2>2
  <1>4. TypeOK'
    <2>1. mail' \in [Tabs -> Seq({-1} \cup 1 .. Waves + 1)]
      <3>1. mail' = [t \in Tabs |-> mail'[t]]
        OBVIOUS
      <3> QED BY <1>3, <3>1
    <2>2. announced' \in {-1} \cup 1 .. Waves + 1
      BY <1>1 DEF w
    <2> QED BY <2>1, <2>2 DEF TypeOK
  <1>5. MailInv'
    <2> SUFFICES ASSUME NEW t \in Tabs, NEW i \in 1 .. Len(mail'[t])
                 PROVE  Reached(mail'[t][i], now)
      BY DEF MailInv
    <2>1. \A j \in 1 .. Len(mail[t]) : Reached(mail[t][j], now)
      BY DEF MailInv
    <2>2. mail'[t] = mail[t] \/ mail'[t] = Append(mail[t], w)
      BY <1>3
    <2>3. mail[t] \in Seq({-1} \cup 1 .. Waves + 1)
      BY <1>3
    <2>4. (i \in 1 .. Len(mail[t]) /\ mail'[t][i] = mail[t][i]) \/ mail'[t][i] = w
      <3>1. CASE mail'[t] = mail[t]
        BY <3>1
      <3>2. CASE mail'[t] = Append(mail[t], w)
        <4>1. Len(mail'[t]) = Len(mail[t]) + 1 /\ Len(mail[t]) \in Nat
          BY <2>3, <3>2
        <4>2. CASE i = Len(mail[t]) + 1
          BY <2>3, <3>2, <4>2
        <4>3. CASE i # Len(mail[t]) + 1
          BY <2>3, <3>2, <4>1, <4>3
        <4> QED BY <4>2, <4>3
      <3> QED BY <2>2, <3>1, <3>2
    <2> QED BY <1>2, <2>1, <2>4
  <1>6. KnownInv' /\ WaveInv' /\ ClickInv'
    BY DEF KnownInv, WaveInv, ClickInv, OnTime
  <1> QED BY <1>4, <1>5, <1>6

\* A tab that counts unlock times keeps the invariant.
LEMMA ComputeOffers ==
    ASSUME OfferInv, NEW t \in Tabs, ComputeAndSchedule(t), UNCHANGED now
    PROVE  /\ wave' \in [Tabs -> {-1} \cup 0 .. Waves + 1]
           /\ timer' \in [Tabs -> Nat \cup {None}]
           /\ skew' = skew => WaveInv'
PROOF
  <1> DEFINE T == {u \in UnlockTimes : u <= Clock(t)}
             w == Cardinality(T)
             due == IF T = UnlockTimes THEN None ELSE Min(UnlockTimes \ T) + Lag
  <1>1. now \in Nat /\ Clock(t) \in Int /\ (OnTime(t) => Clock(t) <= now)
    BY TypeFacts DEF OfferInv
  <1>2. /\ wave \in [Tabs -> {-1} \cup 0 .. Waves + 1]
        /\ timer \in [Tabs -> Nat \cup {None}]
    BY DEF OfferInv, TypeOK
  <1>3. wave' = [wave EXCEPT ![t] = w] /\ timer' = [timer EXCEPT ![t] = due]
    BY DEF ComputeAndSchedule
  <1>4. w \in 0 .. Waves
    <2>1. PICK n \in Nat : Clock(t) <= n
      <3>1. Clock(t) <= 0 \/ Clock(t) \in Nat
        BY <1>1
      <3> QED BY <1>1, <3>1
    <2> QED BY <1>1, <2>1, PassedIsReached
  <1>5. OnTime(t) => Reached(w, now + 1)
    BY <1>1, PassedIsReached
  <1>6. due \in Nat \cup {None}
    <2>1. CASE T = UnlockTimes
      BY <2>1
    <2>2. CASE T # UnlockTimes
      <3>1. UnlockTimes \ T \in SUBSET UnlockTimes /\ UnlockTimes \ T # {}
        BY <2>2
      <3>2. Min(UnlockTimes \ T) \in Nat
        BY <3>1, NextUnlock
      <3> QED BY <2>2, <3>2, Times
    <2> QED BY <2>1, <2>2
  <1> HIDE DEF T, w, due
  <1>7. wave' \in [Tabs -> {-1} \cup 0 .. Waves + 1]
    BY <1>2, <1>3, <1>4, Times
  <1>8. timer' \in [Tabs -> Nat \cup {None}]
    BY <1>2, <1>3, <1>6
  <1>9. ASSUME skew' = skew PROVE WaveInv'
    <2> SUFFICES ASSUME NEW s \in Tabs, OnTime(s) PROVE Reached(wave'[s], now + 1)
      BY <1>9 DEF WaveInv, OnTime
    <2>1. wave'[s] = IF s = t THEN w ELSE wave[s]
      BY <1>2, <1>3
    <2> QED BY <1>5, <2>1 DEF OfferInv, WaveInv
  <1> QED BY <1>7, <1>8, <1>9

\* The event is loaded with the groups of now.
LEMMA LoadOffers ==
    ASSUME OfferInv, NEW t \in Tabs, LoadEvent(t) PROVE OfferInv'
PROOF
  <1> USE DEF LoadEvent, clockVars, openVars
  <1>1. /\ wave' \in [Tabs -> {-1} \cup 0 .. Waves + 1]
        /\ timer' \in [Tabs -> Nat \cup {None}]
        /\ WaveInv'
    BY ComputeOffers
  <1> USE DEF OfferInv
  <1>2. total \in 0 .. MaxTotal /\ known \in [Tabs -> 0 .. MaxTotal]
    BY TypeFacts, Times DEF TypeOK
  <1>3. TypeOK'
    BY <1>1, <1>2 DEF TypeOK
  <1>4. KnownInv'
    <2> SUFFICES ASSUME NEW s \in Tabs PROVE known'[s] <= total
      BY DEF KnownInv
    <2> QED BY <1>2, Times DEF KnownInv
  <1>5. MailInv' /\ ClickInv'
    BY DEF MailInv, ClickInv, OnTime
  <1> QED BY <1>1, <1>3, <1>4, <1>5

\* The timer counts the unlock times once more.
LEMMA TimerOffers ==
    ASSUME OfferInv, NEW t \in Tabs, WaveTimer(t) PROVE OfferInv'
PROOF
  <1> USE DEF WaveTimer, clockVars, openVars
  <1>1. /\ wave' \in [Tabs -> {-1} \cup 0 .. Waves + 1]
        /\ timer' \in [Tabs -> Nat \cup {None}]
        /\ WaveInv'
    BY ComputeOffers
  <1>2. TypeOK'
    BY <1>1 DEF OfferInv, TypeOK
  <1>3. KnownInv' /\ MailInv' /\ ClickInv'
    BY DEF OfferInv, KnownInv, MailInv, ClickInv, OnTime
  <1> QED BY <1>1, <1>2, <1>3 DEF OfferInv

\* A snapshot that arrives was true when it was sent.
LEMMA UpdateOffers ==
    ASSUME OfferInv, NEW t \in Tabs, SSEUpdate(t) PROVE OfferInv'
PROOF
  <1> USE DEF SSEUpdate, clockVars, openVars, OfferInv
  <1> DEFINE V == {-1} \cup 1 .. Waves + 1
  <1>1. mail[t] \in Seq(V) /\ mail[t] # <<>> /\ mail \in [Tabs -> Seq(V)]
    BY DEF TypeOK
  <1>2. Head(mail[t]) \in V /\ Tail(mail[t]) \in Seq(V)
        /\ Head(mail[t]) = mail[t][1] /\ 1 \in 1 .. Len(mail[t])
    BY <1>1
  <1>3. mail' = [mail EXCEPT ![t] = Tail(mail[t])]
    OBVIOUS
  <1>4. TypeOK'
    <2>1. mail' \in [Tabs -> Seq(V)]
      BY <1>1, <1>2, <1>3
    <2>2. wave' \in [Tabs -> {-1} \cup 0 .. Waves + 1]
      BY <1>2, Times DEF TypeOK
    <2> QED BY <2>1, <2>2 DEF TypeOK
  <1>5. MailInv'
    <2> SUFFICES ASSUME NEW s \in Tabs, NEW i \in 1 .. Len(mail'[s])
                 PROVE  Reached(mail'[s][i], now)
      BY DEF MailInv
    <2>1. CASE s = t
      <3>1. mail'[s] = Tail(mail[t])
        BY <1>1, <1>3, <2>1
      <3>2. i + 1 \in 1 .. Len(mail[t]) /\ mail'[s][i] = mail[t][i + 1]
        <4> DEFINE m == mail[t]
        <4>1. m \in Seq(V) /\ m # <<>> /\ i \in 1 .. Len(Tail(m))
          BY <1>1, <3>1
        <4> HIDE DEF m
        <4>2. Len(Tail(m)) = Len(m) - 1 /\ Len(m) \in Nat
          BY <4>1
        <4>3. i + 1 \in 1 .. Len(m) /\ Tail(m)[i] = m[i + 1]
          BY <4>1, <4>2
        <4> QED BY <3>1, <4>3 DEF m
      <3> QED BY <3>2 DEF MailInv
    <2>2. CASE s # t
      BY <1>1, <1>3, <2>2 DEF MailInv
    <2> QED BY <2>1, <2>2
  <1>6. WaveInv'
    <2> SUFFICES ASSUME NEW s \in Tabs, OnTime(s) PROVE Reached(wave'[s], now + 1)
      BY DEF WaveInv, OnTime
    <2>1. CASE s = t
      <3>1. wave'[s] = mail[t][1]
        BY <1>2, <2>1 DEF TypeOK
      <3>2. Reached(mail[t][1], now) /\ mail[t][1] \in Int /\ now \in Nat
        BY <1>2, TypeFacts DEF MailInv
      <3>3. now + 1 \in Nat /\ now <= now + 1
        BY <3>2
      <3> QED BY <3>1, <3>2, <3>3, ReachedStays
    <2>2. CASE s # t
      BY <2>2 DEF WaveInv, TypeOK
    <2> QED BY <2>1, <2>2
  <1>7. KnownInv' /\ ClickInv'
    BY DEF KnownInv, ClickInv, OnTime
  <1> QED BY <1>4, <1>5, <1>6, <1>7

\* What is clicked had been offered.
LEMMA RegisterOffers ==
    ASSUME OfferInv, NEW t \in Tabs, NEW g \in Groups(MaxTotal), Register(t, g)
    PROVE  OfferInv'
PROOF
  <1> USE DEF Register, clockVars, openVars, OfferInv
  <1>0. now \in Nat /\ now \in Ticks /\ total \in Nat /\ known[t] \in Nat
        /\ wave[t] \in Int /\ known[t] <= total
    BY TypeFacts DEF TypeOK, KnownInv
  <1>1. g \in Groups(known[t]) /\ StartingWave(g, known[t]) <= wave[t]
    BY CalculateIsStarting DEF Offered
  <1>2. TypeOK'
    <2>1. [group |-> g, at |-> now] \in [group : Groups(MaxTotal), at : Ticks]
      BY <1>0
    <2> QED BY <2>1 DEF TypeOK
  <1>3. g \in Groups(total) /\ g < total
    BY <1>0, <1>1 DEF Groups
  <1>4. OnTime(t) => Reached(StartingWave(g, total), now + 1)
    <2> SUFFICES ASSUME OnTime(t) PROVE Reached(StartingWave(g, total), now + 1)
      OBVIOUS
    <2>1. StartingWave(g, total) <= StartingWave(g, known[t])
      BY <1>0, <1>1, StartingWaveFalls
    <2>2. StartingWave(g, total) \in Int /\ StartingWave(g, known[t]) \in Int
      BY <1>0, <1>1, <1>3, StartingWaveTakes, Times
    <2>3. Reached(wave[t], now + 1) /\ now + 1 \in Nat
      BY <1>0 DEF WaveInv
    <2>4. StartingWave(g, total) <= wave[t]
      BY <1>0, <1>1, <2>1, <2>2
    <2> QED BY <1>0, <2>2, <2>3, <2>4, ReachedEarlier
  <1>5. ClickInv'
    <2> SUFFICES ASSUME NEW s \in Tabs, OnTime(s), click'[s] # NoClick
                 PROVE  /\ click'[s].at <= now
                        /\ click'[s].group < total
                        /\ Reached(StartingWave(click'[s].group, total), click'[s].at + 1)
      BY DEF ClickInv, OnTime
    <2>1. CASE s = t
      <3>1. click'[s] = [group |-> g, at |-> now]
        BY <2>1 DEF TypeOK
      <3> QED BY <1>0, <1>3, <1>4, <2>1, <3>1
    <2>2. CASE s # t
      <3>1. click'[s] = click[s]
        BY <2>2 DEF TypeOK
      <3> QED BY <3>1 DEF ClickInv
    <2> QED BY <2>1, <2>2
  <1>6. KnownInv' /\ MailInv' /\ WaveInv'
    BY DEF KnownInv, MailInv, WaveInv, OnTime
  <1> QED BY <1>2, <1>5, <1>6

\* An answer ends a request.
LEMMA ReserveOffers ==
    ASSUME OfferInv, NEW t \in Tabs, Reserve(t) PROVE OfferInv'
PROOF
  <1> USE DEF Reserve, clockVars, openVars, OfferInv
  <1>1. TypeOK'
    BY DEF TypeOK
  <1>2. ClickInv'
    <2> SUFFICES ASSUME NEW s \in Tabs, OnTime(s), click'[s] # NoClick
                 PROVE  /\ click'[s].at <= now
                        /\ click'[s].group < total
                        /\ Reached(StartingWave(click'[s].group, total), click'[s].at + 1)
      BY DEF ClickInv, OnTime
    <2>1. click'[s] = click[s]
      BY DEF TypeOK
    <2> QED BY <2>1 DEF ClickInv
  <1>3. KnownInv' /\ MailInv' /\ WaveInv'
    BY DEF KnownInv, MailInv, WaveInv, OnTime
  <1> QED BY <1>1, <1>2, <1>3

-----------------------------------------------------------------------------
(* An event without tee times *)

\* The count of the players is a sum.
LEMMA PlayersAreSummed == Players = SumOf(players, Users)
PROOF BY DEF Players, MapThenSumSet, MapThenFoldSet, SumOf, Sums, First

\* The users with a registration.
Active == {u \in Users : players[u] > 0}

\* Nobody in the field is left out of the count.
LEMMA PlayersCount ==
    ASSUME TypeOK
    PROVE  /\ Players \in Nat
           /\ IsFiniteSet(Active) /\ Cardinality(Active) \in Nat
           /\ Cardinality(Active) <= Players
PROOF
  <1>1. IsFiniteSet(Users)
    BY AdmissionAssumption
  <1>2. \A u \in Users : players[u] \in Nat
    BY AdmissionAssumption DEF TypeOK
  <1>3. SumOf(players, Users) \in Nat
        /\ Cardinality({u \in Users : players[u] > 0}) <= SumOf(players, Users)
    BY <1>1, <1>2, SumCounts
  <1>4. IsFiniteSet(Active)
    BY <1>1, FS_Subset DEF Active
  <1> QED BY <1>3, <1>4, PlayersAreSummed, FS_CardinalityType DEF Active

\* Types, in events without tee times.
LEMMA OpenTypes ==
    ASSUME TypeOK, NEW u \in Users,
           CountPlayers(u) \/ InsertRegistration(u) \/ FillSlot(u) \/ Leave(u)
    PROVE  TypeOK'
PROOF
  <1> USE DEF TypeOK, clockVars, tabVars, openVars
  <1>0. GroupSize \in Nat \ {0}
    BY AdmissionAssumption
  <1>1. CASE CountPlayers(u)
    <2>1. Players \in Nat
      BY PlayersCount
    <2>2. count' \in [Users -> Nat \cup {None}]
      BY <1>1, <2>1 DEF CountPlayers
    <2> QED BY <1>1, <2>2 DEF CountPlayers
  <1>2. CASE InsertRegistration(u)
    <2>1. count' \in [Users -> Nat \cup {None}]
      BY <1>2 DEF InsertRegistration
    <2>2. players' \in [Users -> 0 .. GroupSize] /\ raced' \subseteq Users
      <3>1. CASE players' = players /\ raced' = raced
        BY <3>1
      <3>2. CASE /\ players' = [players EXCEPT ![u] = 1]
                 /\ raced' = IF count[u] < Players THEN raced \cup {u} ELSE raced
        <4>1. players' \in [Users -> 0 .. GroupSize]
          BY <1>0, <3>2
        <4>2. raced' \subseteq Users
          BY <3>2
        <4> QED BY <4>1, <4>2
      <3> QED BY <1>2, <3>1, <3>2 DEF InsertRegistration
    <2> QED BY <1>2, <2>1, <2>2 DEF InsertRegistration
  <1>3. CASE FillSlot(u)
    <2>1. players[u] + 1 \in 0 .. GroupSize
      BY <1>0, <1>3 DEF FillSlot
    <2>2. players' \in [Users -> 0 .. GroupSize]
      BY <1>3, <2>1 DEF FillSlot
    <2> QED BY <1>3, <2>2 DEF FillSlot
  <1>4. CASE Leave(u)
    <2>1. players' \in [Users -> 0 .. GroupSize] /\ raced' \subseteq Users
      BY <1>0, <1>4 DEF Leave
    <2> QED BY <1>4, <2>1 DEF Leave
  <1> QED BY <1>1, <1>2, <1>3, <1>4

\* Users of events without tee times leave the tabs alone.
LEMMA OpenOffers ==
    ASSUME OfferInv, NEW u \in Users,
           CountPlayers(u) \/ InsertRegistration(u) \/ FillSlot(u) \/ Leave(u)
    PROVE  OfferInv'
PROOF
  <1>1. TypeOK'
    BY OpenTypes DEF OfferInv
  <1>2. UNCHANGED <<now, skew, total, mail, known, wave, click>>
    BY DEF CountPlayers, InsertRegistration, FillSlot, Leave, clockVars, tabVars
  <1>3. KnownInv' /\ MailInv' /\ WaveInv' /\ ClickInv'
    BY <1>2 DEF OfferInv, KnownInv, MailInv, WaveInv, ClickInv, OnTime
  <1> QED BY <1>1, <1>3 DEF OfferInv

\* Every step keeps the invariant.
LEMMA StepOffers == OfferInv /\ [Next]_vars => OfferInv'
PROOF
  <1> SUFFICES ASSUME OfferInv, [Next]_vars PROVE OfferInv'
    OBVIOUS
  <1>1. CASE Tick BY <1>1, TickOffers
  <1>2. CASE AppendTeetime BY <1>2, AppendOffers
  <1>3. CASE Announce BY <1>3, AnnounceOffers
  <1>4. ASSUME NEW t \in Tabs,
               \/ LoadEvent(t) \/ WaveTimer(t) \/ SSEUpdate(t) \/ Reserve(t)
               \/ \E g \in Groups(MaxTotal) : Register(t, g)
        PROVE  OfferInv'
    BY <1>4, LoadOffers, TimerOffers, UpdateOffers, ReserveOffers, RegisterOffers
  <1>5. ASSUME NEW u \in Users,
               CountPlayers(u) \/ InsertRegistration(u) \/ FillSlot(u) \/ Leave(u)
        PROVE  OfferInv'
    BY <1>5, OpenOffers
  <1>6. CASE UNCHANGED vars
    <2>1. TypeOK'
      BY <1>6 DEF OfferInv, TypeOK, vars, clockVars, tabVars, openVars
    <2>2. KnownInv' /\ MailInv' /\ WaveInv' /\ ClickInv'
      BY <1>6 DEF OfferInv, KnownInv, MailInv, WaveInv, ClickInv, OnTime,
                  vars, clockVars, tabVars, openVars
    <2> QED BY <2>1, <2>2 DEF OfferInv
  <1> QED BY <1>1, <1>2, <1>3, <1>4, <1>5, <1>6 DEF Next

\* What the members with a correct clock are offered follows from the clocks,
\* the unlock times, the snapshots and the groups the tab knew of.
THEOREM OffersSafe == Spec => []OfferInv
PROOF BY InitOffers, StepOffers, PTL DEF Spec

\* Every variable keeps its type, the waves and the timers too, which are
\* computed by division.
THEOREM AdmissionTypeCorrect == Spec => []TypeOK
PROOF
  <1>1. OfferInv => TypeOK
    BY DEF OfferInv
  <1> QED BY <1>1, OffersSafe, PTL

\* validateRegistrationRequest admits what reserve-utils.ts offers, for any
\* number of waves, groups and tabs, any times and any delay of a request.
THEOREM OffersAreHonoured == Spec => []NoRefusedOffer
PROOF
  <1>1. OfferInv => NoRefusedOffer
    <2> SUFFICES ASSUME OfferInv, NEW t \in Tabs, skew[t] <= 0, click[t] # NoClick,
                        now > click[t].at, now < SignupEnd
                 PROVE  Admitted(click[t].group)
      BY DEF NoRefusedOffer
    <2> DEFINE g == click[t].group
               a == click[t].at
               w == StartingWave(g, total)
    <2>1. now \in Nat /\ total \in Nat /\ g \in Nat /\ a \in Nat
      BY TypeFacts DEF OfferInv
    <2>2. g < total /\ Reached(w, a + 1)
      BY DEF OfferInv, ClickInv, OnTime
    <2>3. g \in Groups(total)
      BY <2>1, <2>2 DEF Groups
    <2>4. w \in 1 .. Waves
      BY <2>1, <2>3, StartingWaveTakes
    <2>5. a < now
      OBVIOUS
    <2> HIDE DEF g, a, w
    <2>6. w \in Int /\ w > 0 /\ a + 1 \in Nat /\ a + 1 <= now
      BY <2>1, <2>4, <2>5, Times
    <2>7. Reached(w, now)
      BY <2>1, <2>2, <2>6, ReachedStays
    <2>8. PriorityStart <= now /\ w <= CurrentWave(now)
      BY <2>6, <2>7 DEF Reached
    <2>9. Window(now) \in {"priority", "registration"}
      BY <2>1, <2>8, Times DEF Window
    <2> QED BY <2>8, <2>9 DEF Admitted, w, g
  <1> QED BY <1>1, OffersSafe, PTL

\* The API admits a group from the moment its wave is due on the API's own clock,
\* and not earlier: getCurrentWave and getStartingWave together, each rounding in
\* its own way, for any number of waves and groups and any duration, none of them
\* a multiple of another.
THEOREM WavesBeginOnTime == Spec => []WavesArePunctual
PROOF
  <1>1. OfferInv => WavesArePunctual
    <2> SUFFICES ASSUME OfferInv, Window(now) = "priority", NEW g \in Groups(total)
                 PROVE  Admitted(g) <=>
                          (now - PriorityStart) * Waves >= (FairWave(g, total) - 1) * Duration
      BY DEF WavesArePunctual
    <2> DEFINE w == StartingWave(g, total)
               e == (now - PriorityStart) * Waves
               q == e \div Duration
    <2>1. now \in Nat /\ total \in Nat
      BY TypeFacts DEF OfferInv
    <2>2. PriorityStart <= now /\ now < SignupStart
      BY <2>1, Times DEF Window
    <2>3. w \in 1 .. Waves /\ FairWave(g, total) = w
      BY <2>1, StartingWaveTakes, StartingWaveIsFair
    <2>4. q \in Nat /\ CurrentWave(now) = IF q + 1 <= Waves THEN q + 1 ELSE Waves
      BY <2>1, <2>2, CurrentWaveIs
    <2>5. e \in Nat
      <3>1. now - PriorityStart \in Nat
        BY <2>1, <2>2, Times
      <3> QED BY <3>1, Times
    <2> HIDE DEF w, e
    <2>6. w - 1 <= q <=> (w - 1) * Duration <= e
      <3>1. w - 1 \in Int
        BY <2>3, Times
      <3> QED BY <2>5, <3>1, Times, Quotient
    <2>7. Admitted(g) <=> w <= CurrentWave(now)
      BY DEF Admitted, w
    <2> HIDE DEF q
    <2>8. w <= CurrentWave(now) <=> w - 1 <= q
      BY <2>3, <2>4, Times
    <2>9. (w - 1) * Duration \in Int
      BY <2>3, Times
    <2>10. Admitted(g) <=> e >= (w - 1) * Duration
      BY <2>5, <2>6, <2>7, <2>8, <2>9
    <2> QED BY <2>3, <2>10 DEF e
  <1> QED BY <1>1, OffersSafe, PTL

\* createNonChoosableSlots overbooks by races and added players only: any
\* number of users, groups of any size, any maximum.
THEOREM CountsKeepTheMaximum == Spec => []OnlyRacesOverbook
PROOF
  <1> DEFINE A == Active \ raced
  <1>0. OnlyRacesOverbook <=> Cardinality(A) <= Maximum
    BY DEF OnlyRacesOverbook, Active
  <1>1. Init => OnlyRacesOverbook
    <2> SUFFICES ASSUME Init PROVE Cardinality(A) <= Maximum
      BY <1>0
    <2>1. A = {}
      BY DEF Init, Active
    <2> QED BY <2>1, FS_EmptySet, AdmissionAssumption
  <1>2. TypeOK /\ OnlyRacesOverbook /\ [Next]_vars => OnlyRacesOverbook'
    <2> SUFFICES ASSUME TypeOK, OnlyRacesOverbook, [Next]_vars
                 PROVE  Cardinality(A') <= Maximum
      BY DEF OnlyRacesOverbook, Active
    <2>0. /\ Cardinality(A) <= Maximum /\ Maximum \in Nat
          /\ IsFiniteSet(Active) /\ Cardinality(Active) \in Nat
          /\ Cardinality(Active) <= Players /\ Players \in Nat
      BY <1>0, PlayersCount, AdmissionAssumption
    <2>1. ASSUME A' \subseteq A PROVE Cardinality(A') <= Maximum
      <3>1. IsFiniteSet(A)
        BY <2>0, FS_Difference
      <3>2. IsFiniteSet(A') /\ Cardinality(A') <= Cardinality(A)
        BY <2>1, <3>1, FS_Subset
      <3>3. Cardinality(A) \in Nat /\ Cardinality(A') \in Nat
        BY <3>1, <3>2, FS_CardinalityType
      <3> QED BY <2>0, <3>2, <3>3
    <2>2. ASSUME UNCHANGED <<players, raced>> PROVE A' \subseteq A
      BY <2>2 DEF Active
    <2>3. ASSUME NEW u \in Users, InsertRegistration(u) PROVE Cardinality(A') <= Maximum
      <3>1. CASE count[u] + 1 > Maximum
        BY <2>1, <2>2, <2>3, <3>1 DEF InsertRegistration
      <3>2. CASE ~ (count[u] + 1 > Maximum)
        <4>1. players' = [players EXCEPT ![u] = 1]
              /\ raced' = IF count[u] < Players THEN raced \cup {u} ELSE raced
          BY <2>3, <3>2 DEF InsertRegistration
        <4>2. Active' \subseteq Active \cup {u}
          BY <4>1 DEF Active, TypeOK
        <4>3. CASE count[u] < Players
          BY <2>1, <4>1, <4>2, <4>3
        <4>4. CASE ~ (count[u] < Players)
          <5>1. count[u] \in Nat
            BY <2>3 DEF InsertRegistration, TypeOK
          <5>2. A' \subseteq Active \cup {u}
            BY <4>2
          <5>3. IsFiniteSet(Active \cup {u})
                /\ Cardinality(Active \cup {u}) <= Cardinality(Active) + 1
            <6>1. IsFiniteSet(Active \cup {u})
                  /\ Cardinality(Active \cup {u}) =
                       IF u \in Active THEN Cardinality(Active) ELSE Cardinality(Active) + 1
              BY <2>0, FS_AddElement
            <6> QED BY <2>0, <6>1
          <5>4. IsFiniteSet(A') /\ Cardinality(A') <= Cardinality(Active \cup {u})
            BY <5>2, <5>3, FS_Subset
          <5>5. Cardinality(A') \in Nat /\ Cardinality(Active \cup {u}) \in Nat
            BY <5>3, <5>4, FS_CardinalityType
          <5>6. Cardinality(Active) + 1 <= Maximum
            BY <2>0, <3>2, <4>4, <5>1
          <5> HIDE DEF A
          <5> QED BY <2>0, <5>3, <5>4, <5>5, <5>6
        <4> QED BY <4>3, <4>4
      <3> QED BY <3>1, <3>2
    <2>4. ASSUME NEW u \in Users, FillSlot(u) PROVE A' \subseteq A
      <3>1. GroupSize \in Nat /\ players[u] \in 1 .. GroupSize - 1
        BY <2>4, AdmissionAssumption DEF FillSlot
      <3>2. players' = [players EXCEPT ![u] = players[u] + 1] /\ raced' = raced
        BY <2>4 DEF FillSlot
      <3>3. Active' \subseteq Active
        BY <3>1, <3>2 DEF Active, TypeOK
      <3> QED BY <3>2, <3>3
    <2>5. ASSUME NEW u \in Users, Leave(u) PROVE A' \subseteq A
      <3>1. players' = [players EXCEPT ![u] = 0] /\ raced' = raced \ {u}
        BY <2>5 DEF Leave
      <3>2. Active' \subseteq Active \ {u}
        BY <3>1 DEF Active, TypeOK
      <3> QED BY <3>1, <3>2
    <2>6. CASE \/ Tick \/ AppendTeetime \/ Announce
               \/ \E t \in Tabs : \/ LoadEvent(t) \/ WaveTimer(t) \/ SSEUpdate(t)
                                  \/ Reserve(t)
                                  \/ \E g \in Groups(MaxTotal) : Register(t, g)
               \/ \E u \in Users : CountPlayers(u)
      <3>1. UNCHANGED <<players, raced>>
        BY <2>6 DEF Tick, AppendTeetime, Announce, LoadEvent, WaveTimer, SSEUpdate,
                    Reserve, Register, CountPlayers, openVars
      <3> QED BY <2>1, <2>2, <3>1
    <2>7. CASE UNCHANGED vars
      <3>1. UNCHANGED <<players, raced>>
        BY <2>7 DEF vars, openVars
      <3> QED BY <2>1, <2>2, <3>1
    <2> QED BY <2>1, <2>3, <2>4, <2>5, <2>6, <2>7 DEF Next
  <1> QED BY <1>1, <1>2, AdmissionTypeCorrect, PTL DEF Spec
================================================================================
