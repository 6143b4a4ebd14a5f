---------------------------- MODULE CdcFifo_proofs ----------------------------
(***************************************************************************)
(* Proofs about the dual-clock FIFO, for every depth and every length of   *)
(* the reset synchronizers.                                                *)
(***************************************************************************)
EXTENDS CdcFifo, Integers, SequenceTheorems, FiniteSetTheorems, WellFoundedInduction, TLAPS

-----------------------------------------------------------------------------
(* A set of naturals that is closed under taking the successor and holds   *)
(* the numbers before its least missing one holds them all.                *)
LEMMA NatSets ==
  ASSUME NEW S \in SUBSET Nat, \A n \in Nat : (\A m \in Nat : m < n => m \in S) => n \in S
  PROVE  S = Nat
<1> DEFINE R == {ss \in Nat \X Nat : ss[1] < ss[2]}
           T == Nat \ S
<1>1. IsWellFoundedOn(R, Nat)
  BY NatLessThanWellFounded DEF OpToRel
<1>2. \A x, y \in Nat : <<y, x>> \in R <=> y < x
  OBVIOUS
<1>3. T \subseteq Nat
  OBVIOUS
<1> SUFFICES ASSUME T # {} PROVE FALSE
  OBVIOUS
<1>4. PICK n \in T : \A m \in T : ~(<<m, n>> \in R)
  <2> HIDE DEF R, T
  <2> QED
    BY <1>1, <1>3, WFMin
<1> HIDE DEF R
<1>5. \A m \in Nat : m < n => m \in S
  BY <1>2, <1>4
<1> QED
  BY <1>4, <1>5

(* Powers of two.                                                          *)
LEMMA Powers ==
  /\ \A n \in Nat : 2^n \in Nat \ {0} /\ 2^(n + 1) = 2 * 2^n
  /\ 2^0 = 1
<1>1. ASSUME NEW n \in Nat
      PROVE  2^n \in Nat \ {0} /\ IsFiniteSet(SUBSET (1 .. n)) /\ Cardinality(SUBSET (1 .. n)) = 2^n
  <2>1. IsFiniteSet(1 .. n) /\ Cardinality(1 .. n) = n
    BY FS_Interval
  <2>2. IsFiniteSet(SUBSET (1 .. n)) /\ Cardinality(SUBSET (1 .. n)) = 2^n
    BY <2>1, FS_SUBSET
  <2>3. SUBSET (1 .. n) # {}
    OBVIOUS
  <2>4. Cardinality(SUBSET (1 .. n)) \in Nat /\ Cardinality(SUBSET (1 .. n)) # 0
    BY <2>2, <2>3, FS_CardinalityType, FS_EmptySet
  <2> QED
    BY <2>2, <2>4
<1>2. ASSUME NEW n \in Nat
      PROVE  2^(n + 1) = 2 * 2^n
  <2> DEFINE A == SUBSET (1 .. n)
             B == {x \cup {n + 1} : x \in A}
             g == [x \in A |-> x \cup {n + 1}]
  <2>1. \A x \in A : n + 1 \notin x
    OBVIOUS
  <2>2. g \in Bijection(A, B)
    <3>1. g \in [A -> B] /\ \A y \in B : \E x \in A : g[x] = y
      OBVIOUS
    <3>2. ASSUME NEW x \in A, NEW y \in A, g[x] = g[y] PROVE x = y
      <4>1. x \cup {n + 1} = y \cup {n + 1}
        BY <3>2
      <4> QED
        BY <2>1, <4>1
    <3> QED
      BY <3>1, <3>2 DEF Bijection, Injection, Surjection, IsInjective
  <2>3. IsFiniteSet(A) /\ Cardinality(A) = 2^n /\ 2^n \in Nat
    BY <1>1
  <2>4. IsFiniteSet(B) /\ Cardinality(B) = 2^n
    <3> HIDE DEF A, B, g
    <3>1. ExistsBijection(A, B)
      BY <2>2 DEF ExistsBijection
    <3> QED
      BY <2>3, <3>1, FS_Bijection
  <2>5. A \cap B = {}
    BY <2>1
  <2>6. A \cup B = SUBSET (1 .. n + 1)
    <3>1. A \cup B \subseteq SUBSET (1 .. n + 1)
      <4>1. 1 .. n \subseteq 1 .. n + 1 /\ n + 1 \in 1 .. n + 1
        OBVIOUS
      <4>2. \A x \in A : x \subseteq 1 .. n + 1 /\ x \cup {n + 1} \subseteq 1 .. n + 1
        BY <4>1
      <4> QED
        BY <4>2
    <3>2. ASSUME NEW x \in SUBSET (1 .. n + 1) PROVE x \in A \cup B
      <4>1. 1 .. n + 1 = (1 .. n) \cup {n + 1}
        OBVIOUS
      <4>2. CASE n + 1 \in x
        <5>1. x \ {n + 1} \in A /\ x = (x \ {n + 1}) \cup {n + 1}
          BY <4>1, <4>2
        <5> QED
          BY <5>1
      <4>3. CASE n + 1 \notin x
        BY <4>1, <4>3
      <4> QED
        BY <4>2, <4>3
    <3> QED
      BY <3>1, <3>2
  <2>7. Cardinality(A \cup B) = 2^n + 2^n
    <3> HIDE DEF A, B
    <3>1. Cardinality(A \cap B) = 0
      BY <2>5, FS_EmptySet
    <3> QED
      BY <2>3, <2>4, <3>1, FS_Union
  <2>8. Cardinality(A \cup B) = 2^(n + 1)
    <3>1. n + 1 \in Nat
      OBVIOUS
    <3> QED
      BY <1>1, <2>6, <3>1
  <2> HIDE DEF A, B
  <2> QED
    BY <2>3, <2>7, <2>8
<1>3. 2^0 = 1
  OBVIOUS
<1> QED
  BY <1>1, <1>2, <1>3
-----------------------------------------------------------------------------
(* Quotient and remainder are unique.                                      *)
LEMMA Times ==
  ASSUME NEW m \in Nat \ {0}, NEW d \in Int
  PROVE  (d >= 1 => m * d >= m) /\ (d <= -1 => m * d <= -m)
  OBVIOUS

LEMMA DivisionIsUnique ==
  ASSUME NEW m \in Nat \ {0}, NEW x \in Int, NEW q \in Int, NEW e \in 0 .. m - 1, x = m * q + e
  PROVE  x % m = e /\ x \div m = q
<1> DEFINE p == x \div m
           s == x % m
<1>1. p \in Int /\ s \in 0 .. m - 1 /\ x = m * p + s
  OBVIOUS
<1> HIDE DEF p, s
<1>2. m * (p - q) = e - s
  <2>1. m * (p - q) = m * p - m * q
    BY <1>1
  <2> QED
    BY <1>1, <2>1
<1>3. p - q \in Int /\ ~(p - q >= 1) /\ ~(p - q <= -1)
  BY <1>1, <1>2, Times
<1>4. p = q
  BY <1>1, <1>3
<1>5. e = s
  BY <1>1, <1>4
<1> QED
  BY <1>4, <1>5 DEF p, s

LEMMA Division ==
  ASSUME NEW m \in Nat \ {0}, NEW x \in Nat
  PROVE  /\ x \div m \in Nat /\ x % m \in 0 .. m - 1
         /\ x = m * (x \div m) + (x % m)
         /\ x < m => x \div m = 0 /\ x % m = x
<1>1. x \div m \in Int /\ x % m \in 0 .. m - 1 /\ x = m * (x \div m) + (x % m)
  OBVIOUS
<1>2. x \div m \in Nat
  <2> DEFINE q == x \div m
             s == x % m
  <2>1. q \in Int /\ s \in 0 .. m - 1 /\ x = m * q + s
    BY <1>1
  <2> HIDE DEF q, s
  <2>2. ~(q <= -1)
    BY <2>1, Times
  <2>3. q \in Nat
    BY <2>1, <2>2
  <2> QED
    BY <2>3 DEF q
<1>3. ASSUME x < m PROVE x \div m = 0 /\ x % m = x
  <2>1. x \in Int /\ 0 \in Int /\ x \in 0 .. m - 1 /\ x = m * 0 + x
    BY <1>3
  <2> QED
    BY <2>1, DivisionIsUnique
<1> QED
  BY <1>1, <1>2, <1>3

(* A remainder may be taken before or after a sum; of a double, before the *)
(* remainder itself; and it tells numbers less than a lap apart.           *)
LEMMA Remainders ==
  ASSUME NEW m \in Nat \ {0}
  PROVE  /\ \A a, n \in Nat : ((a % m) + n) % m = (a + n) % m
         /\ \A a \in Nat : (a % (2 * m)) % m = a % m
         /\ \A a, n \in Nat : n < m /\ (a + n) % m = a % m => n = 0
<1>1. ASSUME NEW a \in Nat, NEW n \in Nat PROVE ((a % m) + n) % m = (a + n) % m
  <2> DEFINE p == a \div m
             s == a % m
             p2 == (s + n) \div m
             s2 == (s + n) % m
  <2>1. p \in Nat /\ s \in Nat /\ a = m * p + s
    BY Division
  <2> HIDE DEF p, s
  <2>2. p2 \in Nat /\ s2 \in 0 .. m - 1 /\ s + n = m * p2 + s2
    <3>1. s + n \in Nat
      BY <2>1
    <3> QED
      BY <3>1, Division
  <2> HIDE DEF p2, s2
  <2>3. a + n = m * (p + p2) + s2
    <3>1. m * (p + p2) = m * p + m * p2
      BY <2>1, <2>2
    <3> QED
      BY <2>1, <2>2, <3>1
  <2>4. a + n \in Int /\ p + p2 \in Int
    BY <2>1, <2>2
  <2>5. (a + n) % m = s2
    BY <2>2, <2>3, <2>4, DivisionIsUnique
  <2> QED
    BY <2>5 DEF s, s2
<1>2. ASSUME NEW a \in Nat PROVE (a % (2 * m)) % m = a % m
  <2> DEFINE d == 2 * m
             p == a \div d
             s == a % d
             q == s \div m
             t == s % m
  <2>1. d \in Nat \ {0}
    OBVIOUS
  <2>2. p \in Nat /\ s \in Nat /\ a = d * p + s
    <3> HIDE DEF d
    <3> QED
      BY <2>1, Division
  <2> HIDE DEF p, s
  <2>3. q \in Nat /\ t \in 0 .. m - 1 /\ s = m * q + t
    BY <2>2, Division
  <2> HIDE DEF q, t
  <2>4. a = m * (2 * p + q) + t
    <3>1. m * (2 * p + q) = (2 * m) * p + m * q
      BY <2>2, <2>3
    <3> QED
      BY <2>2, <2>3, <3>1
  <2>5. a % m = t
    <3>1. a \in Int /\ 2 * p + q \in Int
      BY <2>2, <2>3
    <3> QED
      BY <2>3, <2>4, <3>1, DivisionIsUnique
  <2> QED
    BY <2>5 DEF s, t
<1>3. ASSUME NEW a \in Nat, NEW n \in Nat, n < m, (a + n) % m = a % m PROVE n = 0
  <2> DEFINE p == a \div m
             s == a % m
             q == (a + n) \div m
  <2>1. p \in Nat /\ s \in 0 .. m - 1 /\ a = m * p + s
    BY Division
  <2>2. q \in Nat /\ a + n = m * q + s
    <3>1. a + n \in Nat
      OBVIOUS
    <3>2. (a + n) = m * ((a + n) \div m) + ((a + n) % m) /\ (a + n) \div m \in Nat
      BY <3>1, Division
    <3> QED
      BY <1>3, <3>2
  <2> HIDE DEF p, s, q
  <2>3. m * (q - p) = n
    <3>1. m * (q - p) = m * q - m * p
      BY <2>1, <2>2
    <3> QED
      BY <2>1, <2>2, <3>1
  <2>4. q - p \in Int /\ ~(q - p >= 1) /\ ~(q - p <= -1)
    BY <1>3, <2>1, <2>2, <2>3, Times
  <2>5. q - p = 0
    BY <2>4
  <2> QED
    BY <2>1, <2>3, <2>5
<1> QED
  BY <1>1, <1>2, <1>3
-----------------------------------------------------------------------------
(* The bits of a number are its parity and the bits of its half.           *)
LEMMA Halves ==
  ASSUME NEW n \in Nat
  PROVE  /\ n \div 2 \in Nat /\ n % 2 \in {0, 1} /\ n = 2 * (n \div 2) + (n % 2)
         /\ n # 0 => n \div 2 < n
         /\ n % 2 = 0 => (n + 1) \div 2 = n \div 2 /\ (n + 1) % 2 = 1
         /\ n % 2 = 1 => (n + 1) \div 2 = (n \div 2) + 1 /\ (n + 1) % 2 = 0
  OBVIOUS

LEMMA BitsOfHalf ==
  ASSUME NEW n \in Nat
  PROVE  /\ bit(n, 0) = n % 2
         /\ \A i \in Nat : bit(n, i) \in {0, 1} /\ bit(n, i + 1) = bit(n \div 2, i)
<1>1. bit(n, 0) = n % 2
  <2>1. n \div 1 = n
    OBVIOUS
  <2> QED
    BY <2>1, Powers DEF bit
<1>2. ASSUME NEW i \in Nat PROVE bit(n, i) \in {0, 1} /\ n \div 2^(i + 1) = (n \div 2) \div 2^i
  <2> DEFINE d == 2^i
             h == n \div 2
             q == h \div d
             e == h % d
             c == n % 2
  <2>1. d \in Nat \ {0} /\ 2^(i + 1) = 2 * d
    BY Powers
  <2>2. h \in Nat /\ c \in {0, 1} /\ n = 2 * h + c
    BY Halves
  <2> HIDE DEF d, h, c
  <2>3. q \in Nat /\ e \in 0 .. d - 1 /\ h = d * q + e
    BY <2>1, <2>2, Division
  <2>4. n \div d \in Nat
    BY <2>1, Division
  <2> HIDE DEF q, e
  <2>5. n = (2 * d) * q + (2 * e + c)
    <3>1. 2 * (d * q + e) = (2 * d) * q + 2 * e
      BY <2>1, <2>3
    <3> QED
      BY <2>1, <2>2, <2>3, <3>1
  <2>6. 2 * e + c \in 0 .. 2 * d - 1 /\ 2 * d \in Nat \ {0} /\ n \in Int /\ q \in Int
    BY <2>1, <2>2, <2>3
  <2>7. n \div (2 * d) = q
    <3> DEFINE m == 2 * d
               f == 2 * e + c
    <3>1. m \in Nat \ {0} /\ f \in 0 .. m - 1 /\ n = m * q + f /\ n \in Int /\ q \in Int
      BY <2>5, <2>6
    <3> HIDE DEF m, f
    <3>2. n \div m = q
      BY <3>1, DivisionIsUnique
    <3> QED
      BY <3>2 DEF m
  <2>8. n \div 2^(i + 1) = h \div d
    BY <2>1, <2>7 DEF q
  <2>9. bit(n, i) \in {0, 1}
    <3>1. bit(n, i) = (n \div d) % 2
      BY DEF bit, d
    <3> QED
      BY <2>4, <3>1, Halves
  <2> QED
    BY <2>8, <2>9 DEF h, d
<1>3. ASSUME NEW i \in Nat PROVE bit(n, i + 1) = bit(n \div 2, i)
  BY <1>2 DEF bit
<1> QED
  BY <1>1, <1>2, <1>3

(* Bit i of the gray code.                                                 *)
Edge(n, i) == bit(n, i) # bit(n, i + 1)

LEMMA EdgesOfHalf ==
  ASSUME NEW n \in Nat
  PROVE  /\ Edge(n, 0) <=> n % 2 # (n \div 2) % 2
         /\ \A i \in Nat : Edge(n, i + 1) <=> Edge(n \div 2, i)
<1>1. n \div 2 \in Nat
  BY Halves
<1>2. bit(n, 0) = n % 2 /\ bit(n, 0 + 1) = bit(n \div 2, 0) /\ bit(n \div 2, 0) = (n \div 2) % 2
  BY <1>1, BitsOfHalf
<1>3. ASSUME NEW i \in Nat PROVE Edge(n, i + 1) <=> Edge(n \div 2, i)
  <2>1. i + 1 \in Nat
    OBVIOUS
  <2>2. bit(n, i + 1) = bit(n \div 2, i) /\ bit(n, (i + 1) + 1) = bit(n \div 2, i + 1)
    BY <2>1, BitsOfHalf
  <2> QED
    BY <2>2 DEF Edge
<1> QED
  BY <1>2, <1>3 DEF Edge

(* The codes of neighbours differ in one bit.                              *)
LEMMA NeighboursDiffer ==
  \A n \in Nat : \E i \in Nat : \A j \in Nat : j # i => (Edge(n, j) <=> Edge(n + 1, j))
<1> DEFINE Differ(n) == \E i \in Nat : \A j \in Nat : j # i => (Edge(n, j) <=> Edge(n + 1, j))
           S == {n \in Nat : Differ(n)}
<1>1. ASSUME NEW n \in Nat, \A m \in Nat : m < n => m \in S PROVE Differ(n)
  <2> DEFINE h == n \div 2
  <2>1. h \in Nat /\ n % 2 \in {0, 1} /\ n + 1 \in Nat /\ (n + 1) \div 2 \in Nat
    BY Halves
  <2>2. CASE n % 2 = 0
    <3>1. (n + 1) \div 2 = h
      BY <2>2, Halves
    <3>2. ASSUME NEW j \in Nat, j # 0 PROVE Edge(n, j) <=> Edge(n + 1, j)
      <4>1. j - 1 \in Nat /\ (j - 1) + 1 = j
        BY <3>2
      <4>2. (Edge(n, (j - 1) + 1) <=> Edge(h, j - 1)) /\ (Edge(n + 1, (j - 1) + 1) <=> Edge(h, j - 1))
        BY <2>1, <3>1, <4>1, EdgesOfHalf
      <4> QED
        BY <4>1, <4>2
    <3> QED
      BY <3>2
  <2>3. CASE n % 2 = 1
    <3>1. (n + 1) \div 2 = h + 1 /\ (n + 1) % 2 = 0 /\ h < n
      BY <2>3, Halves
    <3>2. PICK i \in Nat : \A j \in Nat : j # i => (Edge(h, j) <=> Edge(h + 1, j))
      BY <1>1, <2>1, <3>1
    <3>3. Edge(n, 0) <=> Edge(n + 1, 0)
      <4>1. (Edge(n, 0) <=> 1 # h % 2) /\ (Edge(n + 1, 0) <=> 0 # (h + 1) % 2)
        BY <2>1, <2>3, <3>1, EdgesOfHalf
      <4>2. 1 # h % 2 <=> 0 # (h + 1) % 2
        <5> HIDE DEF h
        <5> QED
          BY <2>1
      <4> QED
        BY <4>1, <4>2
    <3>4. ASSUME NEW j \in Nat, j # i + 1 PROVE Edge(n, j) <=> Edge(n + 1, j)
      <4>1. CASE j = 0
        BY <3>3, <4>1
      <4>2. CASE j # 0
        <5>1. j - 1 \in Nat /\ (j - 1) + 1 = j /\ j - 1 # i
          BY <3>4, <4>2
        <5>2. /\ Edge(n, (j - 1) + 1) <=> Edge(h, j - 1)
              /\ Edge(n + 1, (j - 1) + 1) <=> Edge(h + 1, j - 1)
          BY <2>1, <3>1, <5>1, EdgesOfHalf
        <5> QED
          BY <3>2, <5>1, <5>2
      <4> QED
        BY <4>1, <4>2
    <3>5. i + 1 \in Nat
      OBVIOUS
    <3> QED
      BY <3>4, <3>5
  <2> QED
    BY <2>1, <2>2, <2>3
<1> HIDE DEF Differ
<1>2. S = Nat
  <2>1. S \in SUBSET Nat /\ \A n \in Nat : (\A m \in Nat : m < n => m \in S) => n \in S
    BY <1>1
  <2> HIDE DEF S
  <2> QED
    BY <2>1, NatSets
<1>3. \A n \in Nat : Differ(n)
  BY <1>2
<1> QED
  BY <1>3 DEF Differ
(* A number is determined by its code.                                     *)
LEMMA CodesAreDistinct ==
  \A n, m \in Nat : (\A j \in Nat : Edge(n, j) <=> Edge(m, j)) => n = m
<1> DEFINE Distinct(n) == \A m \in Nat : (\A j \in Nat : Edge(n, j) <=> Edge(m, j)) => n = m
<1>0. ASSUME NEW n \in Nat, \A k \in Nat : k < n => Distinct(k), n # 0
      PROVE  Distinct(n)
  <2> SUFFICES ASSUME NEW m \in Nat, \A j \in Nat : Edge(n, j) <=> Edge(m, j) PROVE n = m
    OBVIOUS
  <2> DEFINE a == n \div 2
             b == m \div 2
  <2>1. /\ a \in Nat /\ n % 2 \in {0, 1} /\ n = 2 * a + (n % 2) /\ a < n
        /\ b \in Nat /\ m % 2 \in {0, 1} /\ m = 2 * b + (m % 2)
    BY <1>0, Halves
  <2>2. \A j \in Nat : Edge(a, j) <=> Edge(b, j)
    <3>1. \A j \in Nat : j + 1 \in Nat
      OBVIOUS
    <3> QED
      BY <2>1, <3>1, EdgesOfHalf
  <2>3. a = b
    <3>1. Distinct(a)
      BY <1>0, <2>1
    <3> HIDE DEF a, b
    <3> QED
      BY <2>1, <2>2, <3>1
  <2>4. n % 2 # a % 2 <=> m % 2 # b % 2
    <3>1. (Edge(n, 0) <=> n % 2 # a % 2) /\ (Edge(m, 0) <=> m % 2 # b % 2)
      BY EdgesOfHalf
    <3> QED
      BY <3>1
  <2>5. a % 2 \in {0, 1}
    BY <2>1, Halves
  <2>6. n % 2 = m % 2
    <3> HIDE DEF a, b
    <3> QED
      BY <2>1, <2>3, <2>4, <2>5
  <2> HIDE DEF a, b
  <2> QED
    BY <2>1, <2>3, <2>6
<1> DEFINE Z == {m \in Nat : (\A j \in Nat : Edge(0, j) <=> Edge(m, j)) => m = 0}
<1>1. Z = Nat
  <2>1. ASSUME NEW m \in Nat, \A k \in Nat : k < m => k \in Z PROVE m \in Z
    <3> SUFFICES ASSUME \A j \in Nat : Edge(0, j) <=> Edge(m, j), m # 0 PROVE FALSE
      OBVIOUS
    <3> DEFINE b == m \div 2
    <3>1. b \in Nat /\ b < m /\ m % 2 \in {0, 1} /\ m = 2 * b + (m % 2) /\ 0 \div 2 = 0 /\ 0 % 2 = 0
      BY Halves
    <3>2. \A j \in Nat : Edge(0, j) <=> Edge(b, j)
      <4>1. \A j \in Nat : j + 1 \in Nat
        OBVIOUS
      <4>2. \A j \in Nat : (Edge(0, j + 1) <=> Edge(0, j)) /\ (Edge(m, j + 1) <=> Edge(b, j))
        BY <3>1, EdgesOfHalf
      <4> QED
        BY <4>1, <4>2
    <3>3. b = 0
      BY <2>1, <3>1, <3>2
    <3>4. m = 1 /\ m % 2 = 1
      <4> HIDE DEF b
      <4> QED
        BY <3>1, <3>3
    <3>5. ~Edge(0, 0) /\ Edge(m, 0)
      BY <3>1, <3>3, <3>4, EdgesOfHalf
    <3> QED
      BY <3>5
  <2>2. Z \in SUBSET Nat
    OBVIOUS
  <2> HIDE DEF Z
  <2> QED
    BY <2>1, <2>2, NatSets
<1>2. Distinct(0)
  BY <1>1
<1> DEFINE T == {n \in Nat : Distinct(n)}
<1>3. T = Nat
  <2>1. T \in SUBSET Nat /\ \A n \in Nat : (\A m \in Nat : m < n => m \in T) => n \in T
    <3> HIDE DEF Distinct
    <3> QED
      BY <1>0, <1>2
  <2> HIDE DEF T
  <2> QED
    BY <2>1, NatSets
<1> HIDE DEF Distinct
<1>4. \A n \in Nat : Distinct(n)
  BY <1>3
<1> QED
  BY <1>4 DEF Distinct

(* Below 2^(k + 1) only the bits up to k can be one.                       *)
LEMMA HighBits ==
  \A k \in Nat, n \in Nat : n < 2^k => \A j \in Nat : j >= k => bit(n, j) = 0
<1> DEFINE Low(k) == \A n \in Nat : n < 2^k => \A j \in Nat : j >= k => bit(n, j) = 0
           S == {k \in Nat : Low(k)}
<1>1. ASSUME NEW k \in Nat, \A m \in Nat : m < k => Low(m) PROVE Low(k)
  <2> SUFFICES ASSUME NEW n \in Nat, n < 2^k, NEW j \in Nat, j >= k PROVE bit(n, j) = 0
    OBVIOUS
  <2>1. CASE k = 0
    <3>1. n = 0
      BY <2>1, Powers
    <3>2. 2^j \in Nat \ {0}
      BY Powers
    <3>3. 0 \div 2^j = 0
      BY <3>2, Division
    <3>4. bit(0, j) = (0 \div 2^j) % 2
      BY DEF bit
    <3>5. 0 % 2 = 0
      OBVIOUS
    <3> QED
      BY <3>1, <3>3, <3>4, <3>5, Zenon
  <2>2. CASE k # 0
    <3>1. k - 1 \in Nat /\ (k - 1) + 1 = k /\ j - 1 \in Nat /\ (j - 1) + 1 = j /\ k - 1 < k /\ j - 1 >= k - 1
      BY <2>2
    <3>2. n \div 2 < 2^(k - 1) /\ n \div 2 \in Nat
      <4> DEFINE d == 2^(k - 1)
                 a == n \div 2
                 c == n % 2
      <4>1. d \in Nat /\ n < 2 * d
        <5>1. 2^((k - 1) + 1) = 2 * d /\ d \in Nat
          BY <3>1, Powers
        <5> QED
          BY <3>1, <5>1
      <4>2. a \in Nat /\ c \in {0, 1} /\ n = 2 * a + c
        BY Halves
      <4> HIDE DEF d, a, c
      <4>3. a < d
        BY <4>1, <4>2
      <4> QED
        BY <4>2, <4>3 DEF a, d
    <3>3. bit(n \div 2, j - 1) = 0
      BY <1>1, <3>1, <3>2
    <3>4. bit(n, (j - 1) + 1) = bit(n \div 2, j - 1)
      BY <3>1, BitsOfHalf
    <3> QED
      BY <3>1, <3>3, <3>4
  <2> QED
    BY <2>1, <2>2
<1>2. S = Nat
  <2>1. S \in SUBSET Nat /\ \A n \in Nat : (\A m \in Nat : m < n => m \in S) => n \in S
    <3> HIDE DEF Low
    <3> QED
      BY <1>1
  <2> HIDE DEF S
  <2> QED
    BY <2>1, NatSets
<1> HIDE DEF Low
<1>3. \A k \in Nat : Low(k)
  BY <1>2
<1> QED
  BY <1>3 DEF Low

(* Adding 2^k to a number below it sets bit k and changes no bit below.    *)
LEMMA AddedBit ==
  \A k \in Nat, n \in Nat : n < 2^k =>
    bit(n + 2^k, k) = 1 /\ \A j \in Nat : j < k => bit(n + 2^k, j) = bit(n, j)
<1> DEFINE Add(k) == \A n \in Nat : n < 2^k =>
                       bit(n + 2^k, k) = 1 /\ \A j \in Nat : j < k => bit(n + 2^k, j) = bit(n, j)
           S == {k \in Nat : Add(k)}
<1>1. ASSUME NEW k \in Nat, \A m \in Nat : m < k => Add(m) PROVE Add(k)
  <2> SUFFICES ASSUME NEW n \in Nat, n < 2^k
               PROVE  bit(n + 2^k, k) = 1 /\ \A j \in Nat : j < k => bit(n + 2^k, j) = bit(n, j)
    OBVIOUS
  <2>1. CASE k = 0
    <3>1. n = 0 /\ n + 2^k = 1
      BY <2>1, Powers
    <3>2. bit(1, 0) = 1
      BY BitsOfHalf
    <3> QED
      BY <2>1, <3>1, <3>2
  <2>2. CASE k # 0
    <3> DEFINE d == 2^(k - 1)
               a == n \div 2
               c == n % 2
               x == n + 2^k
    <3>1. k - 1 \in Nat /\ (k - 1) + 1 = k /\ k - 1 < k
      BY <2>2
    <3>2. d \in Nat /\ 2^k = 2 * d
      <4>1. 2^((k - 1) + 1) = 2 * d /\ d \in Nat
        BY <3>1, Powers
      <4> QED
        BY <3>1, <4>1
    <3>3. a \in Nat /\ c \in {0, 1} /\ n = 2 * a + c
      BY Halves
    <3>4. a < d /\ x \in Nat /\ x = 2 * (a + d) + c
      <4>1. n < 2 * d /\ x = n + 2 * d
        BY <3>2
      <4> HIDE DEF a, c, d, x
      <4> QED
        BY <3>2, <3>3, <4>1
    <3>5. x \div 2 = a + d /\ x % 2 = c
      <4> HIDE DEF a, c, d, x
      <4> QED
        BY <3>2, <3>3, <3>4
    <3>6. bit(a + d, k - 1) = 1 /\ \A j \in Nat : j < k - 1 => bit(a + d, j) = bit(a, j)
      <4>1. Add(k - 1)
        BY <1>1, <3>1
      <4> QED
        BY <3>3, <3>4, <4>1
    <3>7. bit(x, k) = 1
      <4>1. bit(x, (k - 1) + 1) = bit(x \div 2, k - 1)
        BY <3>1, <3>4, BitsOfHalf
      <4> HIDE DEF x, a, d
      <4> QED
        BY <3>1, <3>5, <3>6, <4>1
    <3>8. ASSUME NEW j \in Nat, j < k PROVE bit(x, j) = bit(n, j)
      <4>1. CASE j = 0
        <5>1. bit(x, 0) = c /\ bit(n, 0) = c
          BY <3>4, <3>5, BitsOfHalf
        <5> QED
          BY <4>1, <5>1
      <4>2. CASE j # 0
        <5>1. j - 1 \in Nat /\ (j - 1) + 1 = j /\ j - 1 < k - 1
          BY <3>8, <4>2
        <5>2. bit(x, (j - 1) + 1) = bit(x \div 2, j - 1) /\ bit(n, (j - 1) + 1) = bit(a, j - 1)
          BY <3>4, <5>1, BitsOfHalf
        <5> HIDE DEF x, a, d
        <5> QED
          BY <3>5, <3>6, <5>1, <5>2
      <4> QED
        BY <4>1, <4>2
    <3> QED
      BY <3>7, <3>8
  <2> QED
    BY <2>1, <2>2
<1>2. S = Nat
  <2>1. S \in SUBSET Nat /\ \A n \in Nat : (\A m \in Nat : m < n => m \in S) => n \in S
    <3> HIDE DEF Add
    <3> QED
      BY <1>1
  <2> HIDE DEF S
  <2> QED
    BY <2>1, NatSets
<1> HIDE DEF Add
<1>3. \A k \in Nat : Add(k)
  BY <1>2
<1> QED
  BY <1>3 DEF Add
LEMMA AllOnes == \A k \in Nat : \A j \in Nat : j < k => bit(2^k - 1, j) = 1
<1> DEFINE Ones(k) == \A j \in Nat : j < k => bit(2^k - 1, j) = 1
           S == {k \in Nat : Ones(k)}
<1>1. ASSUME NEW k \in Nat, \A m \in Nat : m < k => Ones(m) PROVE Ones(k)
  <2> SUFFICES ASSUME NEW j \in Nat, j < k PROVE bit(2^k - 1, j) = 1
    OBVIOUS
  <2> DEFINE d == 2^(k - 1)
  <2>1. k - 1 \in Nat /\ (k - 1) + 1 = k /\ k - 1 < k
    OBVIOUS
  <2>2. d \in Nat \ {0} /\ 2^k = 2 * d
    <3>1. 2^((k - 1) + 1) = 2 * d /\ d \in Nat \ {0}
      BY <2>1, Powers
    <3> QED
      BY <2>1, <3>1
  <2>3. d - 1 \in Nat /\ d - 1 < d /\ 2^k - 1 = (d - 1) + d
    <3>1. d - 1 \in Nat /\ d - 1 < d /\ 2 * d - 1 = (d - 1) + d
      <4> HIDE DEF d
      <4> QED
        BY <2>2
    <3> QED
      BY <2>2, <3>1
  <2>4. bit((d - 1) + d, k - 1) = 1 /\ \A i \in Nat : i < k - 1 => bit((d - 1) + d, i) = bit(d - 1, i)
    BY <2>1, <2>3, AddedBit
  <2>5. \A i \in Nat : i < k - 1 => bit(d - 1, i) = 1
    BY <1>1, <2>1
  <2>6. j = k - 1 \/ j < k - 1
    BY <2>1
  <2> HIDE DEF d
  <2> QED
    BY <2>3, <2>4, <2>5, <2>6
<1>2. S = Nat
  <2>1. S \in SUBSET Nat /\ \A n \in Nat : (\A m \in Nat : m < n => m \in S) => n \in S
    <3> HIDE DEF Ones
    <3> QED
      BY <1>1
  <2> HIDE DEF S
  <2> QED
    BY <2>1, NatSets
<1> HIDE DEF Ones
<1>3. \A k \in Nat : Ones(k)
  BY <1>2
<1> QED
  BY <1>3 DEF Ones
-----------------------------------------------------------------------------
(* The gray pointers of the FIFO.                                          *)
LEMMA Depths ==
  /\ DEPTH \in Nat \ {0} /\ 2 * DEPTH \in Nat \ {0} /\ 2^(ADDR_W + 1) = 2 * DEPTH
  /\ ADDR_W \in Nat /\ ADDR_W - 1 \in Nat /\ ADDR_W + 1 \in Nat
  BY FifoAssumption, Powers DEF DEPTH

LEMMA GrayEdges == \A n, i : i \in GrayOf(n) <=> i \in Bits /\ Edge(n, i)
  BY DEF GrayOf, Edge

(* No two pointers have the same code.                                     *)
LEMMA GrayIsInjective ==
  ASSUME NEW n \in Ptr, NEW m \in Ptr, GrayOf(n) = GrayOf(m)
  PROVE  n = m
<1>1. n \in Nat /\ m \in Nat /\ n < 2^(ADDR_W + 1) /\ m < 2^(ADDR_W + 1)
  BY Depths DEF Ptr
<1>2. ASSUME NEW j \in Nat PROVE Edge(n, j) <=> Edge(m, j)
  <2>1. CASE j \in Bits
    BY <2>1, GrayEdges
  <2>2. CASE j \notin Bits
    <3>1. j >= ADDR_W + 1 /\ j + 1 >= ADDR_W + 1 /\ j + 1 \in Nat
      BY <2>2, Depths DEF Bits
    <3>2. /\ bit(n, j) = 0 /\ bit(n, j + 1) = 0
          /\ bit(m, j) = 0 /\ bit(m, j + 1) = 0
      BY <1>1, <3>1, Depths, HighBits
    <3> QED
      BY <3>2 DEF Edge
  <2> QED
    BY <2>1, <2>2
<1> QED
  BY <1>1, <1>2, CodesAreDistinct

(* While a pointer steps, a flop captures its old or its new code.         *)
LEMMA CaughtIsOldOrNew ==
  ASSUME NEW n \in Ptr, NEW move \in BOOLEAN, NEW g \in Caught(GrayOf(n), GrayOf(Step(n, move)))
  PROVE  g = GrayOf(n) \/ g = GrayOf(Step(n, move))
<1>1. n \in Nat /\ n < 2 * DEPTH /\ DEPTH \in Nat
  BY Depths DEF Ptr
<1>2. CASE ~move
  <2>1. Step(n, move) = n
    <3>1. Step(n, move) = (n + 0) % (2 * DEPTH)
      BY <1>2 DEF Step
    <3>2. n % (2 * DEPTH) = n
      BY <1>1, Depths, Division
    <3>3. n + 0 = n
      BY <1>1
    <3> QED
      BY <3>1, <3>2, <3>3
  <2> QED
    BY <2>1 DEF Caught
<1>3. CASE move
  <2> DEFINE m == Step(n, move)
  <2>1. m = (n + 1) % (2 * DEPTH)
    BY <1>3 DEF Step
  <2>2. PICK i \in Nat : \A j \in Bits : j # i => (j \in GrayOf(n) <=> j \in GrayOf(m))
    <3>1. CASE n + 1 < 2 * DEPTH
      <4>1. m = n + 1
        <5>1. n + 1 \in Nat
          BY <1>1
        <5> QED
          BY <2>1, <3>1, <5>1, Depths, Division
      <4>2. PICK i \in Nat : \A j \in Nat : j # i => (Edge(n, j) <=> Edge(n + 1, j))
        BY <1>1, NeighboursDiffer
      <4>3. \A j \in Bits : j \in Nat
        BY Depths DEF Bits
      <4> HIDE DEF m
      <4> QED
        BY <4>1, <4>2, <4>3, GrayEdges
    <3>2. CASE ~(n + 1 < 2 * DEPTH)
      <4>1. n + 1 = 2 * DEPTH /\ n = 2 * DEPTH - 1
        BY <1>1, <3>2
      <4>2. m = 0
        <5>1. 0 \in Int /\ 1 \in Int /\ 2 * DEPTH \in Int /\ 2 * DEPTH = (2 * DEPTH) * 1 + 0
          BY <1>1
        <5>2. 0 \in 0 .. 2 * DEPTH - 1
          BY Depths
        <5> HIDE DEF m
        <5> QED
          BY <2>1, <4>1, <5>1, <5>2, Depths, DivisionIsUnique
      <4>3. ASSUME NEW j \in Bits, j # ADDR_W PROVE ~Edge(n, j) /\ ~Edge(0, j)
        <5>1. j \in Nat /\ j < ADDR_W + 1 /\ j + 1 \in Nat /\ j + 1 < ADDR_W + 1 /\ j >= 0 /\ j + 1 >= 0
          BY <4>3, Depths DEF Bits
        <5>2. bit(n, j) = 1 /\ bit(n, j + 1) = 1
          BY <4>1, <5>1, Depths, AllOnes
        <5>3. bit(0, j) = 0 /\ bit(0, j + 1) = 0
          BY <5>1, Powers, HighBits
        <5> QED
          BY <5>2, <5>3 DEF Edge
      <4> HIDE DEF m
      <4> QED
        BY <4>2, <4>3, GrayEdges, Depths
    <3> QED
      BY <3>1, <3>2
  <2>3. GrayOf(n) \subseteq Bits /\ GrayOf(m) \subseteq Bits
    BY GrayEdges
  <2> HIDE DEF m
  <2>4. GrayOf(n) \cap GrayOf(m) \subseteq g /\ g \subseteq GrayOf(n) \cup GrayOf(m)
    BY DEF Caught, m
  <2>5. \A j : j # i => (j \in g <=> j \in GrayOf(n)) /\ (j \in g <=> j \in GrayOf(m))
    BY <2>2, <2>3, <2>4
  <2>6. g = GrayOf(n) \/ g = GrayOf(m)
    BY <2>4, <2>5
  <2> QED
    BY <2>6 DEF m
<1> QED
  BY <1>2, <1>3

(* The pointer a lap ahead has the same code but for the top two bits.     *)
LEMMA LapEdges ==
  ASSUME NEW n \in Nat, n < DEPTH, NEW i \in Bits
  PROVE  Edge(n + DEPTH, i) <=> IF i >= ADDR_W - 1 THEN ~Edge(n, i) ELSE Edge(n, i)
<1>1. i \in Nat /\ i <= ADDR_W /\ i + 1 \in Nat
  BY Depths DEF Bits
<1>2. /\ bit(n + DEPTH, ADDR_W) = 1
      /\ \A j \in Nat : j < ADDR_W => bit(n + DEPTH, j) = bit(n, j)
  BY Depths, AddedBit DEF DEPTH
<1>3. bit(n, ADDR_W) = 0
  BY Depths, HighBits DEF DEPTH
<1>4. bit(n, ADDR_W + 1) = 0 /\ bit(n + DEPTH, ADDR_W + 1) = 0
  <2>1. n + DEPTH \in Nat /\ n + DEPTH < 2^(ADDR_W + 1) /\ n < 2^(ADDR_W + 1)
    BY Depths
  <2> QED
    BY <2>1, Depths, HighBits
<1>5. bit(n, i) \in {0, 1} /\ bit(n, i + 1) \in {0, 1}
  BY <1>1, BitsOfHalf
<1>6. CASE i = ADDR_W
  BY <1>2, <1>3, <1>4, <1>6, Depths DEF Edge
<1>7. CASE i = ADDR_W - 1
  <2>1. i + 1 = ADDR_W /\ i < ADDR_W
    BY <1>7, Depths
  <2> QED
    BY <1>1, <1>2, <1>3, <1>5, <1>7, <2>1 DEF Edge
<1>8. CASE i < ADDR_W - 1
  <2>1. i < ADDR_W /\ i + 1 < ADDR_W /\ ~(i >= ADDR_W - 1)
    BY <1>1, <1>8, Depths
  <2> QED
    BY <1>1, <1>2, <2>1 DEF Edge
<1> QED
  BY <1>1, <1>6, <1>7, <1>8, Depths

(* So the comparison of codes finds the pointers a lap apart.              *)
LEMMA FullIsALapApart ==
  ASSUME NEW a \in Ptr, NEW b \in Ptr
  PROVE  full_next(GrayOf(a), GrayOf(b)) <=> a = (b + DEPTH) % (2 * DEPTH)
<1> DEFINE c == (b + DEPTH) % (2 * DEPTH)
<1>1. a \in Nat /\ b \in Nat /\ b < 2 * DEPTH /\ DEPTH \in Nat
  BY Depths DEF Ptr
<1>2. c \in Ptr
  <2>1. b + DEPTH \in Nat
    BY <1>1
  <2> QED
    BY <2>1, Depths, Division DEF Ptr
<1>3. ASSUME NEW i \in Bits
      PROVE  i \in GrayOf(c) <=> IF i >= ADDR_W - 1 THEN i \notin GrayOf(b) ELSE i \in GrayOf(b)
  <2>1. CASE b < DEPTH
    <3>1. c = b + DEPTH
      <4>1. b + DEPTH \in Nat /\ b + DEPTH < 2 * DEPTH
        BY <1>1, <2>1
      <4> QED
        BY <4>1, Depths, Division
    <3> HIDE DEF c
    <3> QED
      BY <1>1, <2>1, <3>1, GrayEdges, LapEdges
  <2>2. CASE ~(b < DEPTH)
    <3>1. c = b - DEPTH
      <4>1. /\ b + DEPTH \in Int /\ 1 \in Int /\ b - DEPTH \in 0 .. 2 * DEPTH - 1
            /\ b + DEPTH = (2 * DEPTH) * 1 + (b - DEPTH)
        BY <1>1, <2>2
      <4> QED
        BY <4>1, Depths, DivisionIsUnique
    <3> HIDE DEF c
    <3>2. c \in Nat /\ c < DEPTH /\ b = c + DEPTH
      BY <1>1, <2>2, <3>1
    <3> QED
      BY <3>2, GrayEdges, LapEdges
  <2> QED
    BY <2>1, <2>2
<1> HIDE DEF c
<1>4. full_next(GrayOf(a), GrayOf(b)) <=> \A i \in Bits : i \in GrayOf(a) <=> i \in GrayOf(c)
  BY <1>3 DEF full_next
<1>5. full_next(GrayOf(a), GrayOf(b)) <=> GrayOf(a) = GrayOf(c)
  BY <1>4, GrayEdges
<1>6. full_next(GrayOf(a), GrayOf(b)) <=> a = c
  BY <1>2, <1>5, GrayIsInjective
<1> QED
  BY <1>6 DEF c
-----------------------------------------------------------------------------
(* The FIFO.  A pointer is the count of words written or read, modulo a    *)
(* double lap: W and R are the counts, a1 and a2 the counts of reads that  *)
(* the writer's two flops hold, b1 and b2 the counts of writes that the    *)
(* reader's hold.                                                          *)
PtrTo(n) == n % (2 * DEPTH)
Code(n) == GrayOf(PtrTo(n))
One(b) == IF b THEN 1 ELSE 0

WriterIs(v, rst, W, a1, a2) ==
  /\ v.bin = PtrTo(W) /\ v.gray = Code(W) /\ v.q1 = Code(a1) /\ v.q2 = Code(a2)
  /\ ~v.full => W < a2 + DEPTH
  /\ rst => W = 0 /\ v = ResetW

ReaderIs(v, rst, R, b1, b2) ==
  /\ v.bin = PtrTo(R) /\ v.gray = Code(R) /\ v.q1 = Code(b1) /\ v.q2 = Code(b2)
  /\ ~v.empty => R < b2
  /\ rst => R = 0 /\ b1 = 0 /\ v = ResetR

WriterHas(W, a1, a2) == WriterIs(w, wrst, W, a1, a2)
ReaderHas(R, b1, b2) == ReaderIs(r, rrst, R, b1, b2)

(* What each side knows is late but never wrong.                           *)
Lags(W, R, a1, a2, b1, b2) ==
  /\ WriterHas(W, a1, a2) /\ ReaderHas(R, b1, b2)
  /\ a2 <= a1 /\ a1 <= R /\ R <= b2 /\ b2 <= b1 /\ b1 <= W /\ W <= a2 + DEPTH

FifoTypes ==
  /\ mem \in [0 .. DEPTH - 1 -> Word \cup {Unwritten}]
  /\ arst \in BOOLEAN /\ w_sync \in 0 .. STAGES /\ r_sync \in 0 .. STAGES /\ reading \in BOOLEAN
  /\ w.full \in BOOLEAN /\ r.empty \in BOOLEAN
  /\ arst => wrst /\ rrst

FifoInv ==
  /\ FifoTypes
  /\ ~arst => \E W, R, a1, a2, b1, b2 \in Nat : Lags(W, R, a1, a2, b1, b2)

LEMMA Pointers ==
  /\ \A n \in Nat : PtrTo(n) \in Ptr
  /\ PtrTo(0) = 0 /\ Code(0) = {}
  /\ \A n \in Nat, b \in BOOLEAN : Step(PtrTo(n), b) = PtrTo(n + One(b))
  /\ \A n \in Nat : PtrTo(n) % DEPTH = n % DEPTH
  /\ \A n, k \in Nat : n <= k /\ k <= n + DEPTH =>
       /\ Code(n) = Code(k) => n = k
       /\ full_next(Code(k), Code(n)) <=> k = n + DEPTH
<1> DEFINE M == 2 * DEPTH
<1>1. M \in Nat \ {0} /\ DEPTH \in Nat \ {0} /\ DEPTH < M
  BY Depths
<1>2. \A n \in Nat : PtrTo(n) \in Ptr
  <2>1. ASSUME NEW n \in Nat PROVE n % M \in 0 .. M - 1
    <3> HIDE DEF M
    <3> QED
      BY <1>1, Division
  <2> QED
    BY <2>1 DEF PtrTo, Ptr
<1>3. PtrTo(0) = 0
  <2>1. 0 % M = 0
    <3> HIDE DEF M
    <3>1. 0 \in Nat /\ 0 < M
      BY <1>1
    <3> QED
      BY <1>1, <3>1, Division
  <2> QED
    BY <2>1 DEF PtrTo
<1>4. Code(0) = {}
  <2>1. ASSUME NEW i \in Bits PROVE ~Edge(0, i)
    <3>1. i \in Nat /\ i + 1 \in Nat /\ i >= 0 /\ i + 1 >= 0
      BY Depths DEF Bits
    <3>2. bit(0, i) = 0 /\ bit(0, i + 1) = 0
      BY <3>1, Powers, HighBits
    <3> QED
      BY <3>2 DEF Edge
  <2> QED
    BY <1>3, <2>1, GrayEdges DEF Code
<1>5. ASSUME NEW n \in Nat, NEW k \in Nat PROVE PtrTo(PtrTo(n) + k) = PtrTo(n + k)
  <2>1. ((n % M) + k) % M = (n + k) % M
    <3> HIDE DEF M
    <3> QED
      BY <1>1, Remainders
  <2> QED
    BY <2>1 DEF PtrTo
<1>6. ASSUME NEW n \in Nat, NEW b \in BOOLEAN PROVE Step(PtrTo(n), b) = PtrTo(n + One(b))
  <2>1. Step(PtrTo(n), b) = PtrTo(PtrTo(n) + One(b)) /\ One(b) \in Nat
    BY DEF Step, PtrTo, One
  <2> QED
    BY <1>5, <2>1
<1>7. \A n \in Nat : PtrTo(n) % DEPTH = n % DEPTH
  BY <1>1, Remainders DEF PtrTo
<1>8. ASSUME NEW n \in Nat, NEW k \in Nat, n <= k, k <= n + DEPTH, PtrTo(k) = PtrTo(n) PROVE n = k
  <2> DEFINE d == k - n
  <2>1. d \in Nat /\ d < M /\ k = n + d
    BY <1>1, <1>8
  <2>2. (n + d) % M = n % M
    <3>1. k % M = n % M
      BY <1>8 DEF PtrTo
    <3> HIDE DEF M, d
    <3> QED
      BY <2>1, <3>1
  <2> HIDE DEF M, d
  <2>3. d = 0
    BY <1>1, <2>1, <2>2, Remainders
  <2> QED
    BY <2>1, <2>3
<1>9. ASSUME NEW n \in Nat, NEW k \in Nat, n <= k, k <= n + DEPTH
      PROVE  full_next(Code(k), Code(n)) <=> k = n + DEPTH
  <2>1. full_next(Code(k), Code(n)) <=> PtrTo(k) = PtrTo(PtrTo(n) + DEPTH)
    BY <1>2, FullIsALapApart DEF Code, PtrTo
  <2>2. PtrTo(PtrTo(n) + DEPTH) = PtrTo(n + DEPTH)
    BY <1>1, <1>5
  <2>3. PtrTo(k) = PtrTo(n + DEPTH) <=> k = n + DEPTH
    <3>1. n + DEPTH \in Nat /\ k <= n + DEPTH /\ n + DEPTH <= k + DEPTH
      BY <1>1, <1>9
    <3> QED
      BY <1>8, <3>1
  <2> QED
    BY <2>1, <2>2, <2>3
<1>10. ASSUME NEW n \in Nat, NEW k \in Nat, n <= k, k <= n + DEPTH, Code(n) = Code(k) PROVE n = k
  <2>1. PtrTo(n) = PtrTo(k)
    BY <1>2, <1>10, GrayIsInjective DEF Code
  <2> QED
    BY <1>8, <1>10, <2>1
<1> QED
  BY <1>2, <1>3, <1>4, <1>6, <1>7, <1>9, <1>10

(* The registers after an edge of the writer out of reset, that captures   *)
(* the count a.                                                            *)
LEMMA WriterEdge ==
  ASSUME FifoTypes, ~wrst, NEW wr_en \in BOOLEAN,
         NEW W \in Nat, NEW a1 \in Nat, NEW a2 \in Nat, NEW a \in Nat,
         WriterHas(W, a1, a2), a2 <= W, W <= a2 + DEPTH
  PROVE  LET W2 == W + One(do_write(wr_en))
             v == WriteRegs(wr_en, Code(a))
         IN  /\ W2 \in Nat /\ W2 <= a2 + DEPTH
             /\ v.bin = PtrTo(W2) /\ v.gray = Code(W2) /\ v.q1 = Code(a) /\ v.q2 = Code(a1)
             /\ v.full \in BOOLEAN /\ (v.full <=> W2 = a2 + DEPTH)
<1> DEFINE W2 == W + One(do_write(wr_en))
           v == WriteRegs(wr_en, Code(a))
<1>1. do_write(wr_en) \in BOOLEAN /\ w.full \in BOOLEAN /\ DEPTH \in Nat
  BY Depths DEF do_write, FifoTypes
<1>2. W2 \in Nat /\ W2 <= a2 + DEPTH /\ a2 <= W2
  <2>1. CASE do_write(wr_en)
    <3>1. W < a2 + DEPTH
      BY <2>1 DEF do_write, WriterHas, WriterIs
    <3> QED
      BY <1>1, <2>1, <3>1 DEF One
  <2>2. CASE ~do_write(wr_en)
    BY <2>2 DEF One
  <2> QED
    BY <2>1, <2>2
<1>3. Step(w.bin, do_write(wr_en)) = PtrTo(W2)
  BY <1>1, Pointers DEF WriterHas, WriterIs
<1>4. /\ v.bin = Step(w.bin, do_write(wr_en)) /\ v.gray = GrayOf(Step(w.bin, do_write(wr_en)))
      /\ v.q1 = Code(a) /\ v.q2 = w.q1
      /\ v.full = full_next(GrayOf(Step(w.bin, do_write(wr_en))), w.q2)
  BY DEF WriteRegs
<1>5. v.gray = Code(W2) /\ w.q2 = Code(a2) /\ w.q1 = Code(a1)
  BY <1>3, <1>4 DEF Code, WriterHas, WriterIs
<1>6. v.full = full_next(Code(W2), Code(a2))
  BY <1>3, <1>4, <1>5 DEF Code
<1>7. full_next(Code(W2), Code(a2)) <=> W2 = a2 + DEPTH
  BY <1>2, Pointers
<1>8. full_next(Code(W2), Code(a2)) \in BOOLEAN
  BY DEF full_next
<1> HIDE DEF W2, v
<1>9. /\ W2 \in Nat /\ W2 <= a2 + DEPTH
      /\ v.bin = PtrTo(W2) /\ v.gray = Code(W2) /\ v.q1 = Code(a) /\ v.q2 = Code(a1)
      /\ v.full \in BOOLEAN /\ (v.full <=> W2 = a2 + DEPTH)
  BY <1>2, <1>3, <1>4, <1>5, <1>6, <1>7, <1>8
<1> QED
  BY <1>9 DEF W2, v

(* The same of the reader.                                                 *)
LEMMA ReaderEdge ==
  ASSUME FifoTypes, ~rrst, NEW rd_en \in BOOLEAN,
         NEW R \in Nat, NEW b1 \in Nat, NEW b2 \in Nat, NEW b \in Nat,
         ReaderHas(R, b1, b2), R <= b2, b2 <= R + DEPTH
  PROVE  LET R2 == R + One(do_read(rd_en))
             v == ReadRegs(rd_en, Code(b))
         IN  /\ R2 \in Nat /\ R2 <= b2
             /\ v.bin = PtrTo(R2) /\ v.gray = Code(R2) /\ v.q1 = Code(b) /\ v.q2 = Code(b1)
             /\ v.empty \in BOOLEAN /\ (v.empty <=> R2 = b2)
             /\ v.data = IF do_read(rd_en) THEN mem[R % DEPTH] ELSE r.data
<1> DEFINE R2 == R + One(do_read(rd_en))
           v == ReadRegs(rd_en, Code(b))
<1>1. do_read(rd_en) \in BOOLEAN /\ r.empty \in BOOLEAN /\ DEPTH \in Nat
  BY Depths DEF do_read, FifoTypes
<1>2. R2 \in Nat /\ R2 <= b2 /\ b2 <= R2 + DEPTH
  <2>1. CASE do_read(rd_en)
    <3>1. R < b2
      BY <2>1 DEF do_read, ReaderHas, ReaderIs
    <3> QED
      BY <1>1, <2>1, <3>1 DEF One
  <2>2. CASE ~do_read(rd_en)
    BY <2>2 DEF One
  <2> QED
    BY <2>1, <2>2
<1>3. Step(r.bin, do_read(rd_en)) = PtrTo(R2) /\ r.bin % DEPTH = R % DEPTH
  BY <1>1, Pointers DEF ReaderHas, ReaderIs
<1>4. /\ v.bin = Step(r.bin, do_read(rd_en)) /\ v.gray = GrayOf(Step(r.bin, do_read(rd_en)))
      /\ v.q1 = Code(b) /\ v.q2 = r.q1
      /\ v.empty = empty_next(GrayOf(Step(r.bin, do_read(rd_en))), r.q2)
      /\ v.data = IF do_read(rd_en) THEN mem[r.bin % DEPTH] ELSE r.data
  BY DEF ReadRegs
<1>5. r.q2 = Code(b2) /\ r.q1 = Code(b1)
  BY DEF ReaderHas, ReaderIs
<1>6. v.gray = Code(R2) /\ v.empty = (Code(R2) = Code(b2))
  BY <1>3, <1>4, <1>5 DEF Code, empty_next
<1>7. Code(R2) = Code(b2) <=> R2 = b2
  BY <1>2, Pointers
<1> HIDE DEF R2, v
<1>8. /\ R2 \in Nat /\ R2 <= b2
      /\ v.bin = PtrTo(R2) /\ v.gray = Code(R2) /\ v.q1 = Code(b) /\ v.q2 = Code(b1)
      /\ v.empty \in BOOLEAN /\ (v.empty <=> R2 = b2)
  BY <1>2, <1>3, <1>4, <1>5, <1>6, <1>7
<1>9. v.data = IF do_read(rd_en) THEN mem[R % DEPTH] ELSE r.data
  BY <1>3, <1>4
<1> QED
  BY <1>8, <1>9 DEF R2, v
(* The words an edge writes and reads.                                     *)
Wrote(wr_en) == ~wrst /\ do_write(wr_en)
Took(rd_en) == ~rrst /\ do_read(rd_en)

LEMMA Releasing ==
  ASSUME FifoTypes, ~arst
  PROVE  /\ Released(w_sync) \in 0 .. STAGES /\ Released(r_sync) \in 0 .. STAGES
         /\ w_sync' = Released(w_sync) => (wrst' => wrst)
         /\ r_sync' = Released(r_sync) => (rrst' => rrst)
         /\ w_sync' = w_sync => (wrst' <=> wrst)
         /\ r_sync' = r_sync => (rrst' <=> rrst)
<1>1. STAGES \in Nat /\ w_sync \in 0 .. STAGES /\ r_sync \in 0 .. STAGES
  BY FifoAssumption DEF FifoTypes
<1>2. Released(w_sync) = IF w_sync < STAGES THEN w_sync + 1 ELSE w_sync
  BY DEF Released
<1>3. Released(r_sync) = IF r_sync < STAGES THEN r_sync + 1 ELSE r_sync
  BY DEF Released
<1>4. Released(w_sync) < STAGES => w_sync < STAGES
  BY <1>1, <1>2
<1>5. Released(r_sync) < STAGES => r_sync < STAGES
  BY <1>1, <1>3
<1>6. Released(w_sync) \in 0 .. STAGES /\ Released(r_sync) \in 0 .. STAGES
  BY <1>1, <1>2, <1>3
<1> QED
  BY <1>4, <1>5, <1>6 DEF wrst, rrst

(* What an edge that captures the count a, or b, leaves a side with.       *)
WriterGoes(W, a1, a2, a, wr_en) ==
  \E c1, c2 \in Nat :
    /\ W + One(Wrote(wr_en)) \in Nat /\ WriterIs(w', wrst', W + One(Wrote(wr_en)), c1, c2)
    /\ c2 <= c1 /\ c1 <= a /\ W + One(Wrote(wr_en)) <= c2 + DEPTH /\ w'.full \in BOOLEAN
    /\ ~wrst => c1 = a /\ c2 = a1 /\ (w'.full <=> W + One(Wrote(wr_en)) = a2 + DEPTH)

ReaderGoes(R, W, b1, b2, b, rd_en) ==
  \E d1, d2 \in Nat :
    /\ R + One(Took(rd_en)) \in Nat /\ ReaderIs(r', rrst', R + One(Took(rd_en)), d1, d2)
    /\ R + One(Took(rd_en)) <= d2 /\ d2 <= d1 /\ d1 <= b /\ r'.empty \in BOOLEAN
    /\ Took(rd_en) => R < W /\ r'.data = mem[R % DEPTH]
    /\ ~rrst /\ ~Took(rd_en) => r'.data = r.data
    /\ ~rrst => d1 = b /\ d2 = b1 /\ (r'.empty <=> R + One(Took(rd_en)) = b2)

LEMMA WriterMoves ==
  ASSUME FifoTypes, ~arst, NEW wr_en \in BOOLEAN,
         NEW W \in Nat, NEW R \in Nat, NEW a1 \in Nat, NEW a2 \in Nat, NEW b1 \in Nat, NEW b2 \in Nat,
         Lags(W, R, a1, a2, b1, b2), NEW a \in Nat, a1 <= a,
         w' = WriteRegs(wr_en, Code(a)), w_sync' = Released(w_sync)
  PROVE  WriterGoes(W, a1, a2, a, wr_en)
<1> DEFINE W2 == W + One(Wrote(wr_en))
<1>1. DEPTH \in Nat /\ WriterHas(W, a1, a2) /\ a2 <= W /\ W <= a2 + DEPTH
  BY Depths DEF Lags
<1>2. CASE ~wrst
  <2>0. Wrote(wr_en) = do_write(wr_en)
    BY <1>2 DEF Wrote, do_write
  <2>1. W2 = W + One(do_write(wr_en))
    BY <2>0
  <2>2. /\ W2 \in Nat /\ W2 <= a2 + DEPTH
        /\ w'.bin = PtrTo(W2) /\ w'.gray = Code(W2) /\ w'.q1 = Code(a) /\ w'.q2 = Code(a1)
        /\ w'.full \in BOOLEAN /\ (w'.full <=> W2 = a2 + DEPTH)
    BY <1>1, <1>2, <2>1, WriterEdge, SMTT(30)
  <2>3. ~wrst'
    BY <1>2, Releasing
  <2>4. ~w'.full => W2 < a1 + DEPTH
    <3>1. W2 # a2 + DEPTH => W2 < a1 + DEPTH
      <4>1. a2 <= a1
        BY DEF Lags
      <4> HIDE DEF W2
      <4> QED
        BY <1>1, <2>2, <4>1
    <3> QED
      BY <2>2, <3>1
  <2>5. W2 <= a1 + DEPTH
    <3>1. a2 <= a1
      BY DEF Lags
    <3> HIDE DEF W2
    <3> QED
      BY <1>1, <2>2, <3>1
  <2>6. WriterIs(w', wrst', W2, a, a1)
    <3> HIDE DEF W2
    <3> QED
      BY <2>2, <2>3, <2>4 DEF WriterHas, WriterIs
  <2> HIDE DEF W2
  <2>7. /\ W2 \in Nat /\ WriterIs(w', wrst', W2, a, a1) /\ a1 <= a /\ a <= a /\ W2 <= a1 + DEPTH
        /\ w'.full \in BOOLEAN /\ (w'.full <=> W2 = a2 + DEPTH)
    BY <2>2, <2>5, <2>6
  <2> QED
    BY <2>7 DEF W2, WriterGoes
<1>3. CASE wrst
  <2>1. W = 0 /\ W2 = 0 /\ w' = ResetW
    BY <1>1, <1>3 DEF WriterHas, WriterIs, WriteRegs, Wrote, One
  <2>2. /\ w'.bin = 0 /\ w'.gray = {} /\ w'.q1 = {} /\ w'.q2 = {} /\ w'.full = FALSE
    BY <2>1 DEF ResetW
  <2>3. 0 < 0 + DEPTH /\ 0 <= 0 + DEPTH
    BY Depths
  <2>4. WriterIs(w', wrst', 0, 0, 0)
    BY <2>1, <2>2, <2>3, Pointers DEF WriterHas, WriterIs
  <2>5. W2 \in Nat /\ WriterIs(w', wrst', W2, 0, 0) /\ 0 <= a /\ W2 <= 0 + DEPTH /\ 0 \in Nat /\ w'.full \in BOOLEAN
    <3> HIDE DEF W2
    <3>1. W2 \in Nat /\ 0 <= a /\ W2 <= 0 + DEPTH
      BY <2>1, <2>3
    <3>2. WriterIs(w', wrst', W2, 0, 0) /\ w'.full \in BOOLEAN
      BY <2>1, <2>2, <2>4
    <3> QED
      BY <3>1, <3>2
  <2> HIDE DEF W2
  <2>6. \E c1, c2 \in Nat : /\ W2 \in Nat /\ WriterIs(w', wrst', W2, c1, c2) /\ c2 <= c1 /\ c1 <= a
                           /\ W2 <= c2 + DEPTH /\ w'.full \in BOOLEAN
    BY <2>5
  <2> QED
    BY <1>3, <2>6 DEF W2, WriterGoes
<1> QED
  BY <1>2, <1>3

LEMMA ReaderMoves ==
  ASSUME FifoTypes, ~arst, NEW rd_en \in BOOLEAN,
         NEW W \in Nat, NEW R \in Nat, NEW a1 \in Nat, NEW a2 \in Nat, NEW b1 \in Nat, NEW b2 \in Nat,
         Lags(W, R, a1, a2, b1, b2), NEW b \in Nat, b1 <= b,
         r' = ReadRegs(rd_en, Code(b)), r_sync' = Released(r_sync)
  PROVE  ReaderGoes(R, W, b1, b2, b, rd_en)
<1> DEFINE R2 == R + One(Took(rd_en))
<1>1. DEPTH \in Nat /\ ReaderHas(R, b1, b2) /\ R <= b2 /\ b2 <= R + DEPTH /\ b2 <= W /\ b2 <= b1
  BY Depths DEF Lags
<1>2. CASE ~rrst
  <2>1. Took(rd_en) = do_read(rd_en)
    BY <1>2 DEF Took, do_read
  <2>2. /\ R2 \in Nat /\ R2 <= b2
        /\ r'.bin = PtrTo(R2) /\ r'.gray = Code(R2) /\ r'.q1 = Code(b) /\ r'.q2 = Code(b1)
        /\ r'.empty \in BOOLEAN /\ (r'.empty <=> R2 = b2)
        /\ r'.data = IF Took(rd_en) THEN mem[R % DEPTH] ELSE r.data
    <3>1. LET Q == R + One(do_read(rd_en))
          IN  /\ Q \in Nat /\ Q <= b2
              /\ r'.bin = PtrTo(Q) /\ r'.gray = Code(Q) /\ r'.q1 = Code(b) /\ r'.q2 = Code(b1)
              /\ r'.empty \in BOOLEAN /\ (r'.empty <=> Q = b2)
              /\ r'.data = IF do_read(rd_en) THEN mem[R % DEPTH] ELSE r.data
      BY <1>1, <1>2, ReaderEdge
    <3> QED
      BY <2>1, <3>1
  <2>3. ~rrst'
    BY <1>2, Releasing
  <2>4. Took(rd_en) => R < W
    <3>1. Took(rd_en) => R < b2
      BY <1>1 DEF Took, do_read, ReaderHas, ReaderIs
    <3>2. R < b2 => R < W
      BY <1>1
    <3> QED
      BY <3>1, <3>2
  <2>5. ~r'.empty => R2 < b1
    <3>1. R2 # b2 => R2 < b1
      <4> HIDE DEF R2
      <4> QED
        BY <1>1, <2>2
    <3> QED
      BY <2>2, <3>1
  <2>6. R2 <= b1
    <3> HIDE DEF R2
    <3> QED
      BY <1>1, <2>2
  <2>7. ReaderIs(r', rrst', R2, b, b1)
    <3> HIDE DEF R2
    <3> QED
      BY <2>2, <2>3, <2>5 DEF ReaderHas, ReaderIs
  <2> HIDE DEF R2
  <2>8. /\ R2 \in Nat /\ ReaderIs(r', rrst', R2, b, b1) /\ R2 <= b1 /\ b1 <= b /\ b <= b /\ r'.empty \in BOOLEAN
        /\ Took(rd_en) => R < W /\ r'.data = mem[R % DEPTH]
        /\ ~Took(rd_en) => r'.data = r.data
        /\ (r'.empty <=> R2 = b2)
    BY <2>2, <2>4, <2>6, <2>7
  <2> QED
    BY <2>8 DEF R2, ReaderGoes
<1>3. CASE rrst
  <2>1. R = 0 /\ R2 = 0 /\ r' = ResetR /\ ~Took(rd_en)
    BY <1>1, <1>3 DEF ReaderHas, ReaderIs, ReadRegs, Took, One
  <2>2. /\ r'.bin = 0 /\ r'.gray = {} /\ r'.q1 = {} /\ r'.q2 = {} /\ r'.empty = TRUE
    BY <2>1 DEF ResetR
  <2>3. ReaderIs(r', rrst', 0, 0, 0)
    BY <2>1, <2>2, Pointers DEF ReaderHas, ReaderIs
  <2>4. R2 \in Nat /\ ReaderIs(r', rrst', R2, 0, 0) /\ R2 <= 0 /\ 0 <= b /\ 0 \in Nat /\ r'.empty \in BOOLEAN
    <3> HIDE DEF R2
    <3>1. R2 \in Nat /\ R2 <= 0 /\ 0 <= b
      BY <2>1
    <3>2. ReaderIs(r', rrst', R2, 0, 0) /\ r'.empty \in BOOLEAN
      BY <2>1, <2>2, <2>3
    <3> QED
      BY <3>1, <3>2
  <2> HIDE DEF R2
  <2> QED
    BY <1>3, <2>1, <2>4 DEF R2, ReaderGoes
<1> QED
  BY <1>2, <1>3

(* The codes are those of one of two counts.                               *)
Among(codes, n, k) == \A g \in codes : g = Code(n) \/ g = Code(k)

(* While both clocks tick, each side captures the pointer the other had or *)
(* the one it gets.                                                        *)
LEMMA CaughtPointers ==
  ASSUME FifoTypes, ~arst, NEW wr_en \in BOOLEAN, NEW rd_en \in BOOLEAN, NEW x, NEW y,
         NEW W \in Nat, NEW R \in Nat, NEW a1 \in Nat, NEW a2 \in Nat, NEW b1 \in Nat, NEW b2 \in Nat,
         Lags(W, R, a1, a2, b1, b2)
  PROVE  /\ Among(Caught(w.gray, WriteRegs(wr_en, x).gray), W, W + One(Wrote(wr_en)))
         /\ Among(Caught(r.gray, ReadRegs(rd_en, y).gray), R, R + One(Took(rd_en)))
<1>1. WriterHas(W, a1, a2) /\ ReaderHas(R, b1, b2)
  BY DEF Lags
<1>2. Wrote(wr_en) \in BOOLEAN /\ Took(rd_en) \in BOOLEAN
  BY DEF Wrote, Took
<1>3. /\ Step(PtrTo(W), Wrote(wr_en)) = PtrTo(W + One(Wrote(wr_en)))
      /\ Step(PtrTo(R), Took(rd_en)) = PtrTo(R + One(Took(rd_en)))
      /\ PtrTo(W) \in Ptr /\ PtrTo(R) \in Ptr
  BY <1>2, Pointers
<1>4. w.gray = Code(W) /\ WriteRegs(wr_en, x).gray = Code(W + One(Wrote(wr_en)))
  <2>1. CASE ~wrst
    <3>1. WriteRegs(wr_en, x).gray = GrayOf(Step(w.bin, do_write(wr_en)))
      BY <2>1 DEF WriteRegs
    <3>2. do_write(wr_en) = Wrote(wr_en)
      BY <2>1 DEF Wrote, do_write
    <3> QED
      BY <1>1, <1>3, <3>1, <3>2 DEF WriterHas, WriterIs, Code
  <2>2. CASE wrst
    <3>1. WriteRegs(wr_en, x).gray = {} /\ W = 0 /\ One(Wrote(wr_en)) = 0
      BY <1>1, <2>2 DEF WriteRegs, ResetW, WriterHas, WriterIs, Wrote, One
    <3> QED
      BY <1>1, <3>1, Pointers DEF WriterHas, WriterIs
  <2> QED
    BY <2>1, <2>2
<1>5. r.gray = Code(R) /\ ReadRegs(rd_en, y).gray = Code(R + One(Took(rd_en)))
  <2>1. CASE ~rrst
    <3>1. ReadRegs(rd_en, y).gray = GrayOf(Step(r.bin, do_read(rd_en)))
      BY <2>1 DEF ReadRegs
    <3>2. do_read(rd_en) = Took(rd_en)
      BY <2>1 DEF Took, do_read
    <3> QED
      BY <1>1, <1>3, <3>1, <3>2 DEF ReaderHas, ReaderIs, Code
  <2>2. CASE rrst
    <3>1. ReadRegs(rd_en, y).gray = {} /\ R = 0 /\ One(Took(rd_en)) = 0
      BY <1>1, <2>2 DEF ReadRegs, ResetR, ReaderHas, ReaderIs, Took, One
    <3> QED
      BY <1>1, <3>1, Pointers DEF ReaderHas, ReaderIs
  <2> QED
    BY <2>1, <2>2
<1>6. ASSUME NEW g \in Caught(w.gray, WriteRegs(wr_en, x).gray)
      PROVE  g = Code(W) \/ g = Code(W + One(Wrote(wr_en)))
  BY <1>2, <1>3, <1>4, CaughtIsOldOrNew DEF Code
<1>7. ASSUME NEW g \in Caught(r.gray, ReadRegs(rd_en, y).gray)
      PROVE  g = Code(R) \/ g = Code(R + One(Took(rd_en)))
  BY <1>2, <1>3, <1>5, CaughtIsOldOrNew DEF Code
<1> QED
  BY <1>6, <1>7 DEF Among
-----------------------------------------------------------------------------
(* The queue is what the RAM holds from the count of reads to the count of *)
(* writes.                                                                 *)
RamWord == Word \cup {Unwritten}
Cells == [0 .. DEPTH - 1 -> RamWord]
Queued(m, R, W) == [i \in 1 .. W - R |-> m[(R + i - 1) % DEPTH]]

IsQueued(q, m, R, W) ==
  /\ q \in Seq(RamWord) /\ Len(q) = W - R
  /\ \A i \in 1 .. W - R : q[i] = m[(R + i - 1) % DEPTH]
  /\ q = << >> <=> R = W

LEMMA QueuedWords ==
  ASSUME NEW m \in Cells, NEW R \in Nat, NEW W \in Nat, R <= W
  PROVE  IsQueued(Queued(m, R, W), m, R, W)
<1>1. \A i \in 1 .. W - R : m[(R + i - 1) % DEPTH] \in RamWord
  <2> TAKE i \in 1 .. W - R
  <2> DEFINE k == R + i - 1
  <2>1. k \in Nat
    OBVIOUS
  <2> HIDE DEF k
  <2>2. k % DEPTH \in 0 .. DEPTH - 1
    BY <2>1, Depths, Division
  <2> QED
    BY <2>2 DEF k, Cells
<1> DEFINE q == Queued(m, R, W)
<1>2. W - R \in Nat
  OBVIOUS
<1>3. q \in [1 .. W - R -> RamWord]
  BY <1>1 DEF Queued
<1>4. \A i \in 1 .. W - R : q[i] = m[(R + i - 1) % DEPTH]
  BY DEF Queued
<1> HIDE DEF q
<1>5. q \in Seq(RamWord) /\ Len(q) = W - R
  BY <1>2, <1>3
<1>6. q = << >> <=> R = W
  <2>1. q = << >> <=> Len(q) = 0
    BY <1>5, EmptySeq
  <2> QED
    BY <1>5, <2>1
<1> QED
  BY <1>4, <1>5, <1>6 DEF q, IsQueued

LEMMA AheadCounts ==
  ASSUME NEW n \in Nat, NEW k \in Nat, n <= k, k <= n + DEPTH
  PROVE  Ahead(PtrTo(n), PtrTo(k)) = k - n
<1> DEFINE M == 2 * DEPTH
           p == n \div M
           q == k \div M
           s == n % M
           t == k % M
           d == k - n
<1>1. M \in Nat \ {0} /\ DEPTH \in Nat /\ DEPTH < M
  BY Depths
<1>2. PtrTo(n) = s /\ PtrTo(k) = t /\ Ahead(s, t) = (t + M - s) % M
  BY DEF PtrTo, Ahead
<1> HIDE DEF M
<1>3. /\ p \in Nat /\ s \in 0 .. M - 1 /\ n = M * p + s
      /\ q \in Nat /\ t \in 0 .. M - 1 /\ k = M * q + t
  BY <1>1, Division
<1>4. d \in 0 .. M - 1
  BY <1>1
<1> HIDE DEF p, q, s, t
<1>5. t + M - s = M * (1 + p - q) + d
  <2>1. M * (1 + p - q) = M + M * p - M * q
    BY <1>1, <1>3
  <2> QED
    BY <1>1, <1>3, <2>1
<1>6. t + M - s \in Int /\ 1 + p - q \in Int
  BY <1>1, <1>3
<1> HIDE DEF d
<1>7. (t + M - s) % M = d
  BY <1>1, <1>4, <1>5, <1>6, DivisionIsUnique
<1> QED
  BY <1>2, <1>7 DEF d

QueueCounts ==
  \A W, R, a1, a2, b1, b2 \in Nat :
    ~arst /\ Lags(W, R, a1, a2, b1, b2) => queue = Queued(mem, R, W)

LEMMA QueueIsQueued == QueueCounts
<1> SUFFICES ASSUME NEW W \in Nat, NEW R \in Nat, NEW a1 \in Nat, NEW a2 \in Nat,
                    NEW b1 \in Nat, NEW b2 \in Nat, ~arst, Lags(W, R, a1, a2, b1, b2)
             PROVE  queue = Queued(mem, R, W)
  BY DEF QueueCounts
<1>1. r.bin = PtrTo(R) /\ w.bin = PtrTo(W)
  BY DEF Lags, WriterHas, WriterIs, ReaderHas, ReaderIs
<1>2. R <= W /\ W <= R + DEPTH
  BY Depths DEF Lags
<1>3. Ahead(r.bin, w.bin) = W - R
  BY <1>1, <1>2, AheadCounts
<1>4. \A i \in 1 .. W - R : (r.bin + i - 1) % DEPTH = (R + i - 1) % DEPTH
  <2> TAKE i \in 1 .. W - R
  <2>1. i - 1 \in Nat /\ PtrTo(R) \in Nat /\ PtrTo(R) + i - 1 = PtrTo(R) + (i - 1)
        /\ R + i - 1 = R + (i - 1)
    <3>1. PtrTo(R) \in Nat
      BY Depths, Pointers DEF Ptr
    <3> HIDE DEF PtrTo
    <3> QED
      BY <1>2, <3>1
  <2>2. PtrTo(R) % DEPTH = R % DEPTH
    BY Pointers
  <2> DEFINE k == i - 1
  <2> HIDE DEF k
  <2>3. \A j \in Nat : (PtrTo(R) + j) % DEPTH = (R + j) % DEPTH
    <3>1. \A x, j \in Nat : (x + j) % DEPTH = ((x % DEPTH) + j) % DEPTH
      BY Depths, Remainders, ZenonT(60)
    <3> QED
      BY <2>1, <2>2, <3>1
  <2> QED
    BY <1>1, <2>1, <2>3
<1> QED
  BY <1>3, <1>4 DEF queue, Queued

Lagging(W, R) == \E a1, a2, b1, b2 \in Nat : Lags(W, R, a1, a2, b1, b2)

LEMMA QueueLength ==
  ASSUME FifoTypes, ~arst, NEW W \in Nat, NEW R \in Nat, Lagging(W, R)
  PROVE  queue \in Seq(RamWord) /\ Len(queue) = W - R /\ R <= W /\ (queue = << >> <=> R = W)
<1>1. PICK a1, a2, b1, b2 \in Nat : Lags(W, R, a1, a2, b1, b2)
  BY DEF Lagging
<1>2. queue = Queued(mem, R, W)
  BY <1>1, QueueIsQueued DEF QueueCounts
<1>3. R <= W /\ mem \in Cells
  BY <1>1, Depths DEF Lags, FifoTypes, Cells, RamWord
<1>4. IsQueued(queue, mem, R, W)
  BY <1>2, <1>3, QueuedWords
<1> QED
  BY <1>3, <1>4 DEF IsQueued

(* A write appends to the queue, since fewer than DEPTH words are queued;  *)
(* a read takes its head.                                                  *)
LEMMA WriteAppends ==
  ASSUME NEW m \in Cells, NEW word \in RamWord,
         NEW R \in Nat, NEW W \in Nat, R <= W, W < R + DEPTH
  PROVE  Queued([m EXCEPT ![W % DEPTH] = word], R, W + 1) = Append(Queued(m, R, W), word)
<1> DEFINE m2 == [m EXCEPT ![W % DEPTH] = word]
           q == Queued(m, R, W)
           q2 == Queued(m2, R, W + 1)
<1>1. W % DEPTH \in 0 .. DEPTH - 1 /\ DEPTH \in Nat \ {0}
  BY Depths, Division
<1>2. m2 \in Cells /\ m2[W % DEPTH] = word
  BY <1>1 DEF Cells
<1>3. \A j \in 0 .. DEPTH - 1 : j # W % DEPTH => m2[j] = m[j]
  BY DEF Cells
<1>4. /\ q \in Seq(RamWord) /\ Len(q) = W - R
      /\ \A i \in 1 .. W - R : q[i] = m[(R + i - 1) % DEPTH]
  <2>1. IsQueued(q, m, R, W)
    BY QueuedWords
  <2> HIDE DEF q
  <2> QED
    BY <2>1 DEF IsQueued
<1> HIDE DEF m2
<1>5. /\ q2 \in Seq(RamWord) /\ Len(q2) = W + 1 - R
      /\ \A i \in 1 .. W + 1 - R : q2[i] = m2[(R + i - 1) % DEPTH]
  <2> DEFINE V == W + 1
  <2>1. V \in Nat /\ R <= V
    OBVIOUS
  <2> HIDE DEF V
  <2>2. IsQueued(Queued(m2, R, V), m2, R, V)
    BY <1>2, <2>1, QueuedWords
  <2> HIDE DEF q2
  <2>3. IsQueued(q2, m2, R, W + 1)
    BY <2>2 DEF V, q2
  <2> QED
    BY <2>3 DEF IsQueued
<1> HIDE DEF q, q2
<1>6. ASSUME NEW i \in 1 .. W - R PROVE q2[i] = q[i]
  <2> DEFINE k == R + i - 1
             n == W - k
  <2>1. k \in Nat /\ n \in Nat /\ n < DEPTH /\ n # 0 /\ W = k + n
    BY <1>1
  <2>2. q2[i] = m2[k % DEPTH] /\ q[i] = m[k % DEPTH]
    BY <1>4, <1>5
  <2> HIDE DEF k, n
  <2>3. k % DEPTH # W % DEPTH /\ k % DEPTH \in 0 .. DEPTH - 1
    BY <1>1, <2>1, Remainders, Division
  <2> QED
    BY <1>3, <2>2, <2>3
<1>7. q2[W + 1 - R] = word
  <2>1. W + 1 - R \in 1 .. W + 1 - R /\ R + (W + 1 - R) - 1 = W
    OBVIOUS
  <2> QED
    BY <1>2, <1>5, <2>1
<1>8. /\ Append(q, word) \in Seq(RamWord) /\ Len(Append(q, word)) = Len(q2)
      /\ \A i \in 1 .. Len(q2) : q2[i] = Append(q, word)[i]
  <2>1. Append(q, word) \in Seq(RamWord) /\ Len(Append(q, word)) = Len(q) + 1
    BY <1>4
  <2>2. \A i \in 1 .. Len(q) : Append(q, word)[i] = q[i]
    BY <1>4
  <2>3. Append(q, word)[Len(q) + 1] = word
    BY <1>4
  <2>4. Len(q) + 1 = Len(q2) /\ Len(q) \in Nat /\ W + 1 - R = Len(q2) /\ Len(q) = W - R
    BY <1>4, <1>5
  <2>5. \A i \in 1 .. Len(q2) : i \in 1 .. Len(q) \/ i = Len(q) + 1
    BY <2>4
  <2> QED
    BY <1>6, <1>7, <2>1, <2>2, <2>3, <2>4, <2>5
<1>9. q2 = Append(q, word)
  BY <1>5, <1>8, SeqEqual
<1> QED
  BY <1>9 DEF q, q2, m2

LEMMA ReadTakesHead ==
  ASSUME NEW m \in Cells, NEW R \in Nat, NEW W \in Nat, R < W
  PROVE  /\ Queued(m, R, W) # << >> /\ Head(Queued(m, R, W)) = m[R % DEPTH]
         /\ Queued(m, R + 1, W) = Tail(Queued(m, R, W))
<1> DEFINE q == Queued(m, R, W)
           q2 == Queued(m, R + 1, W)
<1>1. /\ q \in Seq(RamWord) /\ Len(q) = W - R /\ q # << >>
      /\ \A i \in 1 .. W - R : q[i] = m[(R + i - 1) % DEPTH]
  <2>1. IsQueued(q, m, R, W)
    BY QueuedWords
  <2> HIDE DEF q
  <2> QED
    BY <2>1 DEF IsQueued
<1>2. /\ q2 \in Seq(RamWord) /\ Len(q2) = W - (R + 1)
      /\ \A i \in 1 .. W - (R + 1) : q2[i] = m[((R + 1) + i - 1) % DEPTH]
  <2>1. R + 1 \in Nat /\ R + 1 <= W
    OBVIOUS
  <2>2. IsQueued(q2, m, R + 1, W)
    BY <2>1, QueuedWords
  <2> HIDE DEF q2
  <2> QED
    BY <2>2 DEF IsQueued
<1> HIDE DEF q, q2
<1>3. Head(q) = m[R % DEPTH]
  <2>1. 1 \in 1 .. W - R /\ R + 1 - 1 = R
    OBVIOUS
  <2>2. Head(q) = q[1]
    BY <1>1
  <2> QED
    BY <1>1, <2>1, <2>2
<1>4. /\ Tail(q) \in Seq(RamWord) /\ Len(Tail(q)) = Len(q2)
      /\ \A i \in 1 .. Len(Tail(q)) : Tail(q)[i] = q[i + 1]
  BY <1>1, <1>2, HeadTailProperties
<1>5. ASSUME NEW i \in 1 .. Len(q2) PROVE q2[i] = Tail(q)[i]
  <2>1. /\ i \in 1 .. W - (R + 1) /\ i + 1 \in 1 .. W - R
        /\ (R + 1) + i - 1 = R + (i + 1) - 1
    BY <1>2
  <2> QED
    BY <1>1, <1>2, <1>4, <2>1
<1>6. q2 = Tail(q)
  BY <1>2, <1>4, <1>5, SeqEqual
<1> QED
  BY <1>1, <1>3, <1>6 DEF q, q2
-----------------------------------------------------------------------------
(* Out of reset, a step writes and takes what the counts say, and that is  *)
(* a step of the queue.                                                    *)
Moved(q, wrote, word, took) ==
  LET rest == IF took THEN Tail(q) ELSE q
  IN  IF wrote THEN Append(rest, word) ELSE rest

QueueMoves(wrote, word, took) ==
  /\ queue' = Moved(queue, wrote, word, took)
  /\ queue \in Seq(RamWord) /\ word \in Word /\ reading' = took
  /\ took => queue # << >> /\ r'.data = Head(queue)
  /\ wrote => Len(queue) < DEPTH

LEMMA CountsMoveQueue ==
  ASSUME mem \in Cells, mem' \in Cells, NEW wrote \in BOOLEAN, NEW took \in BOOLEAN, NEW word \in Word,
         NEW W \in Nat, NEW R \in Nat, R <= W,
         queue = Queued(mem, R, W), queue' = Queued(mem', R + One(took), W + One(wrote)),
         wrote => W < R + DEPTH /\ mem' = [mem EXCEPT ![W % DEPTH] = word],
         ~wrote => mem' = mem \/ W = 0,
         took => R < W /\ r'.data = mem[R % DEPTH],
         reading' = took
  PROVE  QueueMoves(wrote, word, took)
<1>1. word \in RamWord /\ DEPTH \in Nat
  BY Depths DEF RamWord
<1>2. Len(queue) = W - R /\ queue \in Seq(RamWord)
  <2>1. IsQueued(queue, mem, R, W)
    BY QueuedWords
  <2> QED
    BY <2>1 DEF IsQueued
<1>3. wrote => Len(queue) < DEPTH
  BY <1>1, <1>2
<1>4. took => queue # << >> /\ r'.data = Head(queue)
  BY ReadTakesHead
<1>5. queue' = Moved(queue, wrote, word, took)
  <2>1. CASE wrote
    <3>1. W < R + DEPTH /\ mem' = [mem EXCEPT ![W % DEPTH] = word] /\ W + 1 \in Nat
      BY <2>1
    <3>2. Queued(mem', R, W + 1) = Append(queue, word)
      BY <1>1, <3>1, WriteAppends
    <3>3. CASE took
      <4>1. queue' = Queued(mem', R + 1, W + 1) /\ R < W + 1
        BY <2>1, <3>3 DEF One
      <4>2. queue' = Tail(Append(queue, word))
        BY <3>1, <3>2, <4>1, ReadTakesHead, ZenonT(60)
      <4>3. Tail(Append(queue, word)) = Append(Tail(queue), word)
        BY <1>1, <1>2, <1>4, <3>3
      <4> QED
        BY <2>1, <3>3, <4>2, <4>3 DEF Moved
    <3>4. CASE ~took
      <4>1. queue' = Queued(mem', R, W + 1)
        BY <2>1, <3>4 DEF One
      <4> QED
        BY <2>1, <3>2, <3>4, <4>1 DEF Moved
    <3> QED
      BY <3>3, <3>4
  <2>2. CASE ~wrote /\ took
    <3>1. mem' = mem
      BY <2>2
    <3>2. queue' = Queued(mem, R + 1, W)
      BY <2>2, <3>1 DEF One
    <3> QED
      BY <2>2, <3>2, ReadTakesHead DEF Moved
  <2>3. CASE ~wrote /\ ~took
    <3>1. queue' = Queued(mem', R, W)
      BY <2>3 DEF One
    <3>2. CASE mem' = mem
      BY <2>3, <3>1, <3>2 DEF Moved
    <3>3. CASE W = 0
      <4>1. R = W
        BY <3>3
      <4>2. IsQueued(queue, mem, R, W) /\ IsQueued(queue', mem', R, W)
        BY <3>1, QueuedWords
      <4>3. queue = << >> /\ queue' = << >>
        BY <4>1, <4>2 DEF IsQueued
      <4> QED
        BY <2>3, <4>3 DEF Moved
    <3> QED
      BY <2>3, <3>2, <3>3
  <2> QED
    BY <2>1, <2>2, <2>3
<1> QED
  BY <1>2, <1>3, <1>4, <1>5 DEF QueueMoves

LEMMA MovesAreQueueSteps ==
  ASSUME NEW wrote \in BOOLEAN, NEW took \in BOOLEAN, NEW word, QueueMoves(wrote, word, took)
  PROVE  Fifo!Next
<1>1. CASE wrote /\ took
  <2>1. Fifo!PushPop(word)
    BY <1>1 DEF QueueMoves, Moved, Fifo!PushPop
  <2> QED
    BY <2>1 DEF Fifo!Next, QueueMoves
<1>2. CASE wrote /\ ~took
  <2>1. Fifo!Push(word)
    BY <1>2 DEF QueueMoves, Moved, Fifo!Push
  <2> QED
    BY <2>1 DEF Fifo!Next, QueueMoves
<1>3. CASE ~wrote /\ took
  <2>1. Fifo!Pop
    BY <1>3 DEF QueueMoves, Moved, Fifo!Pop
  <2> QED
    BY <2>1 DEF Fifo!Next
<1>4. CASE ~wrote /\ ~took
  <2>1. Fifo!Quiet
    BY <1>4 DEF QueueMoves, Moved, Fifo!Quiet
  <2> QED
    BY <2>1 DEF Fifo!Next
<1> QED
  BY <1>1, <1>2, <1>3, <1>4

(* What an edge leaves the counts and the queue with: each clock ticks or  *)
(* does not.                                                               *)
WriterSees(ticks, R, W2, a1, a2, c1, c2) ==
  IF ticks THEN IF wrst THEN w' = ResetW
                ELSE R <= c1 /\ c2 = a1 /\ (w'.full <=> W2 = a2 + DEPTH)
  ELSE c1 = a1 /\ c2 = a2 /\ w' = w

ReaderSees(ticks, W, R2, b1, b2, d1, d2) ==
  IF ticks THEN IF rrst THEN r' = ResetR
                ELSE W <= d1 /\ d2 = b1 /\ (r'.empty <=> R2 = b2)
  ELSE d1 = b1 /\ d2 = b2 /\ r' = r

Advances(wticks, wrote, word, rticks, took, W, R, a1, a2, b1, b2) ==
  \E W2, R2, c1, c2, d1, d2 \in Nat :
    /\ W2 = W + One(wrote) /\ R2 = R + One(took) /\ Lags(W2, R2, c1, c2, d1, d2)'
    /\ WriterSees(wticks, R, W2, a1, a2, c1, c2)
    /\ ReaderSees(rticks, W, R2, b1, b2, d1, d2)
    /\ FifoTypes' /\ ~arst' /\ QueueMoves(wrote, word, took)

(* What an edge that writes word, or writes nothing, does to the RAM.      *)
Stored(wrote, word) ==
  /\ wrote => ~w.full /\ mem' = [mem EXCEPT ![w.bin % DEPTH] = word]
  /\ ~wrote => mem' = mem \/ wrst

(* The word it reads, and the counts it leaves.                            *)
Taken(took, R, W) ==
  reading' = took /\ (took => R < W /\ r'.data = mem[R % DEPTH])

Counted(wrote, took, W, R, W2, R2) == W2 = W + One(wrote) /\ R2 = R + One(took)

(* An edge out of reset that keeps the lags.                               *)
LEMMA EdgeKeepsQueue ==
  ASSUME FifoTypes, ~arst, FifoTypes', ~arst',
         NEW W \in Nat, NEW R \in Nat, Lagging(W, R),
         NEW wrote \in BOOLEAN, NEW took \in BOOLEAN, NEW W2 \in Nat, NEW R2 \in Nat,
         Counted(wrote, took, W, R, W2, R2),
         Lagging(W2, R2)',
         NEW word \in Word, Stored(wrote, word),
         Taken(took, R, W)
  PROVE  QueueMoves(wrote, word, took)
<1>1. PICK a1, a2, b1, b2 \in Nat : Lags(W, R, a1, a2, b1, b2)
  BY DEF Lagging
<1>2. mem \in Cells /\ mem' \in Cells
  BY DEF FifoTypes, Cells, RamWord
<1>3. queue = Queued(mem, R, W)
  BY <1>1, QueueIsQueued DEF QueueCounts
<1>4. queue' = Queued(mem', R2, W2)
  <2>1. QueueCounts'
    BY QueueIsQueued, PTL
  <2> QED
    BY <2>1 DEF QueueCounts, Lagging
<1>5. R <= W /\ a2 <= R /\ WriterIs(w, wrst, W, a1, a2)
  BY <1>1, Depths DEF Lags, WriterHas
<1>6. ~wrote => mem' = mem \/ W = 0
  BY <1>5 DEF WriterIs, Stored
<1>7. wrote => W < R + DEPTH /\ mem' = [mem EXCEPT ![W % DEPTH] = word]
  <2> SUFFICES ASSUME wrote PROVE W < R + DEPTH /\ mem' = [mem EXCEPT ![W % DEPTH] = word]
    OBVIOUS
  <2>1. W < a2 + DEPTH
    BY <1>5 DEF WriterIs, Stored
  <2>2. w.bin % DEPTH = W % DEPTH
    BY <1>5, Pointers DEF WriterIs
  <2>3. mem' = [mem EXCEPT ![W % DEPTH] = word]
    BY <2>2 DEF Stored
  <2>4. W < R + DEPTH
    BY <1>5, <2>1, Depths
  <2> QED
    BY <2>3, <2>4
<1> QED
  BY <1>2, <1>3, <1>4, <1>5, <1>6, <1>7, CountsMoveQueue DEF Counted, Taken

(* What a write does to the RAM.                                           *)
LEMMA StoreTypes ==
  ASSUME FifoTypes, NEW wr_en \in BOOLEAN, NEW word \in Word, Store(wr_en, word)
  PROVE  /\ mem' \in [0 .. DEPTH - 1 -> Word \cup {Unwritten}]
         /\ Wrote(wr_en) => ~w.full /\ mem' = [mem EXCEPT ![w.bin % DEPTH] = word]
         /\ ~Wrote(wr_en) => mem' = mem \/ wrst
  BY DEF FifoTypes, Store, Wrote, do_write

LEMMA WriteAdvances ==
  ASSUME FifoTypes, ~arst,
         NEW W \in Nat, NEW R \in Nat, NEW a1 \in Nat, NEW a2 \in Nat, NEW b1 \in Nat, NEW b2 \in Nat,
         Lags(W, R, a1, a2, b1, b2),
         NEW wr_en \in BOOLEAN, NEW word \in Word, WriteClock(wr_en, word)
  PROVE  Advances(TRUE, Wrote(wr_en), word, FALSE, FALSE, W, R, a1, a2, b1, b2)
<1>4. /\ w' = WriteRegs(wr_en, Code(R)) /\ Store(wr_en, word) /\ w_sync' = Released(w_sync)
      /\ r' = r /\ arst' = arst /\ r_sync' = r_sync /\ reading' = FALSE
  BY DEF WriteClock, Lags, ReaderHas, ReaderIs
<1>5. PICK wrote \in BOOLEAN : wrote = Wrote(wr_en)
  BY DEF Wrote
<1>6. PICK W2 \in Nat : W2 = W + One(wrote)
  BY DEF One
<1>7. PICK c1, c2 \in Nat : /\ WriterIs(w', wrst', W2, c1, c2) /\ c2 <= c1 /\ c1 <= R
                            /\ W2 <= c2 + DEPTH /\ w'.full \in BOOLEAN
                            /\ ~wrst => c1 = R /\ c2 = a1 /\ (w'.full <=> W2 = a2 + DEPTH)
  <2>1. a1 <= R
    BY DEF Lags
  <2>2. LET V == W + One(Wrote(wr_en))
        IN  \E c1, c2 \in Nat : /\ WriterIs(w', wrst', V, c1, c2) /\ c2 <= c1 /\ c1 <= R
                                /\ V <= c2 + DEPTH /\ w'.full \in BOOLEAN
                                /\ ~wrst => c1 = R /\ c2 = a1 /\ (w'.full <=> V = a2 + DEPTH)
    <3>1. WriterGoes(W, a1, a2, R, wr_en)
      BY <1>4, <2>1, WriterMoves
    <3> QED
      BY <3>1 DEF WriterGoes
  <2> QED
    BY <1>5, <1>6, <2>2
<1>8. ReaderIs(r', rrst', R, b1, b2)
  <2>1. rrst' <=> rrst
    BY <1>4, Releasing
  <2> QED
    BY <1>4, <2>1 DEF Lags, ReaderHas, ReaderIs
<1>9. FifoTypes'
  <2>1. Released(w_sync) \in 0 .. STAGES
    BY Releasing
  <2>2. mem' \in [0 .. DEPTH - 1 -> Word \cup {Unwritten}]
    BY <1>4, StoreTypes
  <2>3. DEPTH' = DEPTH
    BY DEF DEPTH
  <2> QED
    BY <1>4, <1>7, <2>1, <2>2, <2>3 DEF FifoTypes
<1>10. R = R + One(FALSE) /\ FALSE \in BOOLEAN
  BY DEF One
<1>11. R <= b2 /\ b2 <= b1 /\ b1 <= W2
  <2>1. R <= b2 /\ b2 <= b1 /\ b1 <= W
    BY DEF Lags
  <2> QED
    BY <1>6, <2>1 DEF One
<1>12. Stored(wrote, word)
  BY <1>4, <1>5, StoreTypes DEF Stored
<1>13. Lags(W2, R, c1, c2, b1, b2)'
  BY <1>7, <1>8, <1>11 DEF Lags, WriterHas, ReaderHas
<1>14. WriterSees(TRUE, R, W2, a1, a2, c1, c2) /\ ReaderSees(FALSE, W, R, b1, b2, b1, b2)
  <2>1. wrst => w' = ResetW
    BY <1>4 DEF WriteRegs
  <2> QED
    BY <1>4, <1>7, <2>1 DEF WriterSees, ReaderSees
<1>15. Taken(FALSE, R, W) /\ Counted(wrote, FALSE, W, R, W2, R) /\ FALSE \in BOOLEAN /\ ~arst'
  BY <1>4, <1>6, <1>10 DEF Taken, Counted
<1>16. QueueMoves(wrote, word, FALSE)
  <2>1. Lagging(W, R) /\ Lagging(W2, R)'
    BY <1>13 DEF Lagging
  <2> QED
    BY <1>9, <1>12, <1>15, <2>1, EdgeKeepsQueue
<1> QED
  BY <1>5, <1>6, <1>9, <1>10, <1>13, <1>14, <1>15, <1>16 DEF Advances

LEMMA ReadAdvances ==
  ASSUME FifoTypes, ~arst,
         NEW W \in Nat, NEW R \in Nat, NEW a1 \in Nat, NEW a2 \in Nat, NEW b1 \in Nat, NEW b2 \in Nat,
         Lags(W, R, a1, a2, b1, b2),
         NEW rd_en \in BOOLEAN, NEW word \in Word, ReadClock(rd_en)
  PROVE  Advances(FALSE, FALSE, word, TRUE, Took(rd_en), W, R, a1, a2, b1, b2)
<1>4. /\ r' = ReadRegs(rd_en, Code(W)) /\ r_sync' = Released(r_sync)
      /\ w' = w /\ mem' = mem /\ arst' = arst /\ w_sync' = w_sync /\ reading' = Took(rd_en)
  BY DEF ReadClock, Lags, WriterHas, WriterIs, Took
<1>5. PICK took \in BOOLEAN : took = Took(rd_en)
  BY DEF Took
<1>6. PICK R2 \in Nat : R2 = R + One(took)
  BY DEF One
<1>7. PICK d1, d2 \in Nat :
        /\ ReaderIs(r', rrst', R2, d1, d2) /\ R2 <= d2 /\ d2 <= d1 /\ d1 <= W
        /\ r'.empty \in BOOLEAN /\ (took => R < W /\ r'.data = mem[R % DEPTH])
        /\ ~rrst => d1 = W /\ d2 = b1 /\ (r'.empty <=> R2 = b2)
  <2>1. b1 <= W
    BY DEF Lags
  <2>2. LET V == R + One(Took(rd_en))
        IN  \E d1, d2 \in Nat :
              /\ ReaderIs(r', rrst', V, d1, d2) /\ V <= d2 /\ d2 <= d1 /\ d1 <= W
              /\ r'.empty \in BOOLEAN /\ (Took(rd_en) => R < W /\ r'.data = mem[R % DEPTH])
              /\ ~rrst => d1 = W /\ d2 = b1 /\ (r'.empty <=> V = b2)
    <3>1. ReaderGoes(R, W, b1, b2, W, rd_en)
      BY <1>4, <2>1, ReaderMoves
    <3> QED
      BY <3>1 DEF ReaderGoes
  <2> QED
    BY <1>5, <1>6, <2>2
<1>8. WriterIs(w', wrst', W, a1, a2)
  <2>1. wrst' <=> wrst
    BY <1>4, Releasing
  <2> QED
    BY <1>4, <2>1 DEF Lags, WriterHas, WriterIs
<1>9. FifoTypes'
  <2>1. Released(r_sync) \in 0 .. STAGES
    BY Releasing
  <2>2. Took(rd_en) \in BOOLEAN
    BY DEF Took
  <2>3. DEPTH' = DEPTH
    BY DEF DEPTH
  <2> QED
    BY <1>4, <1>7, <2>1, <2>2, <2>3 DEF FifoTypes
<1>10. W = W + One(FALSE) /\ FALSE \in BOOLEAN
  BY DEF One
<1>11. a2 <= a1 /\ a1 <= R2 /\ W <= a2 + DEPTH
  <2>1. a2 <= a1 /\ a1 <= R /\ W <= a2 + DEPTH
    BY DEF Lags
  <2> QED
    BY <1>6, <2>1 DEF One
<1>12. Lags(W, R2, a1, a2, d1, d2)'
  BY <1>7, <1>8, <1>11 DEF Lags, WriterHas, ReaderHas
<1>13. WriterSees(FALSE, R, W, a1, a2, a1, a2) /\ ReaderSees(TRUE, W, R2, b1, b2, d1, d2)
  <2>1. rrst => r' = ResetR
    BY <1>4 DEF ReadRegs
  <2> QED
    BY <1>4, <1>7, <2>1 DEF WriterSees, ReaderSees
<1>14. Stored(FALSE, word) /\ Taken(took, R, W) /\ ~arst'
  BY <1>4, <1>5, <1>7 DEF Stored, Taken
<1>15. Counted(FALSE, took, W, R, W, R2) /\ FALSE \in BOOLEAN
  BY <1>6, <1>10 DEF Counted
<1>16. QueueMoves(FALSE, word, took)
  <2>1. Lagging(W, R) /\ Lagging(W, R2)'
    BY <1>12 DEF Lagging
  <2> QED
    BY <1>9, <1>14, <1>15, <2>1, EdgeKeepsQueue
<1> QED
  BY <1>5, <1>6, <1>9, <1>10, <1>12, <1>13, <1>14, <1>16 DEF Advances

LEMMA BothAdvance ==
  ASSUME FifoTypes, ~arst,
         NEW W \in Nat, NEW R \in Nat, NEW a1 \in Nat, NEW a2 \in Nat, NEW b1 \in Nat, NEW b2 \in Nat,
         Lags(W, R, a1, a2, b1, b2),
         NEW wr_en \in BOOLEAN, NEW rd_en \in BOOLEAN, NEW word \in Word, BothClocks(wr_en, word, rd_en)
  PROVE  Advances(TRUE, Wrote(wr_en), word, TRUE, Took(rd_en), W, R, a1, a2, b1, b2)
<1>4. /\ Store(wr_en, word) /\ w_sync' = Released(w_sync) /\ r_sync' = Released(r_sync)
      /\ arst' = arst /\ reading' = Took(rd_en)
  BY DEF BothClocks, Took
<1>5. PICK took \in BOOLEAN : took = Took(rd_en)
  BY DEF Took
<1>6. PICK wrote \in BOOLEAN : wrote = Wrote(wr_en)
  BY DEF Wrote
<1>7. PICK W2 \in Nat : W2 = W + One(wrote)
  BY DEF One
<1>8. PICK R2 \in Nat : R2 = R + One(took)
  BY DEF One
<1>9. R <= R2 /\ W <= W2
  BY <1>7, <1>8 DEF One
<1>10. /\ Among(Caught(w.gray, WriteRegs(wr_en, r.gray).gray), W, W + One(Wrote(wr_en)))
       /\ Among(Caught(r.gray, ReadRegs(rd_en, w.gray).gray), R, R + One(Took(rd_en)))
  BY CaughtPointers
<1>11. PICK a \in Nat : (a = R \/ a = R2) /\ w' = WriteRegs(wr_en, Code(a))
  <2>1. PICK g \in Caught(r.gray, ReadRegs(rd_en, w.gray).gray) : w' = WriteRegs(wr_en, g)
    BY DEF BothClocks
  <2>2. g = Code(R) \/ g = Code(R + One(Took(rd_en)))
    BY <1>10, <2>1 DEF Among
  <2>3. g = Code(R) \/ g = Code(R2)
    BY <1>5, <1>8, <2>2
  <2> QED
    BY <2>1, <2>3
<1>12. PICK b \in Nat : (b = W \/ b = W2) /\ r' = ReadRegs(rd_en, Code(b))
  <2>1. PICK g \in Caught(w.gray, WriteRegs(wr_en, r.gray).gray) : r' = ReadRegs(rd_en, g)
    BY DEF BothClocks
  <2>2. g = Code(W) \/ g = Code(W + One(Wrote(wr_en)))
    BY <1>10, <2>1 DEF Among
  <2>3. g = Code(W) \/ g = Code(W2)
    BY <1>6, <1>7, <2>2
  <2> QED
    BY <2>1, <2>3
<1>13. a \in Nat /\ b \in Nat /\ a1 <= a /\ a <= R2 /\ b1 <= b /\ b <= W2
  <2>1. a1 <= R /\ b1 <= W
    BY DEF Lags
  <2> QED
    BY <1>9, <1>11, <1>12, <2>1
<1>14. PICK c1, c2 \in Nat : /\ WriterIs(w', wrst', W2, c1, c2) /\ c2 <= c1 /\ c1 <= a
                             /\ W2 <= c2 + DEPTH /\ w'.full \in BOOLEAN
                             /\ ~wrst => c1 = a /\ c2 = a1 /\ (w'.full <=> W2 = a2 + DEPTH)
  <2>1. WriterGoes(W, a1, a2, a, wr_en)
    BY <1>4, <1>11, <1>13, WriterMoves
  <2> QED
    BY <1>6, <1>7, <2>1 DEF WriterGoes
<1>15. PICK d1, d2 \in Nat :
         /\ ReaderIs(r', rrst', R2, d1, d2) /\ R2 <= d2 /\ d2 <= d1 /\ d1 <= b
         /\ r'.empty \in BOOLEAN /\ (took => R < W /\ r'.data = mem[R % DEPTH])
         /\ ~rrst => d1 = b /\ d2 = b1 /\ (r'.empty <=> R2 = b2)
  <2>1. ReaderGoes(R, W, b1, b2, b, rd_en)
    BY <1>4, <1>12, <1>13, ReaderMoves
  <2> QED
    BY <1>5, <1>8, <2>1 DEF ReaderGoes
<1>16. Lags(W2, R2, c1, c2, d1, d2)'
  <2>1. c1 <= R2 /\ d1 <= W2
    BY <1>13, <1>14, <1>15
  <2> QED
    BY <1>14, <1>15, <2>1 DEF Lags, WriterHas, ReaderHas
<1>17. FifoTypes'
  <2>1. Released(w_sync) \in 0 .. STAGES /\ Released(r_sync) \in 0 .. STAGES
    BY Releasing
  <2>2. mem' \in [0 .. DEPTH - 1 -> Word \cup {Unwritten}]
    BY <1>4, StoreTypes
  <2>3. Took(rd_en) \in BOOLEAN
    BY DEF Took
  <2>4. DEPTH' = DEPTH
    BY DEF DEPTH
  <2> QED
    BY <1>4, <1>14, <1>15, <2>1, <2>2, <2>3, <2>4 DEF FifoTypes
<1>18. Stored(wrote, word)
  BY <1>4, <1>6, StoreTypes DEF Stored
<1>19. ~arst'
  BY <1>4
<1>20. WriterSees(TRUE, R, W2, a1, a2, c1, c2) /\ ReaderSees(TRUE, W, R2, b1, b2, d1, d2)
  <2>1. (wrst => w' = ResetW) /\ (rrst => r' = ResetR)
    BY <1>11, <1>12 DEF WriteRegs, ReadRegs
  <2>2. R <= a /\ W <= b
    BY <1>9, <1>11, <1>12
  <2> QED
    BY <1>14, <1>15, <2>1, <2>2 DEF WriterSees, ReaderSees
<1>21. Taken(took, R, W) /\ Counted(wrote, took, W, R, W2, R2)
  BY <1>4, <1>5, <1>7, <1>8, <1>15 DEF Taken, Counted
<1>22. QueueMoves(wrote, word, took)
  <2>1. Lagging(W, R) /\ Lagging(W2, R2)'
    BY <1>16 DEF Lagging
  <2> QED
    BY <1>17, <1>18, <1>19, <1>21, <2>1, EdgeKeepsQueue
<1> QED
  BY <1>5, <1>6, <1>7, <1>8, <1>16, <1>17, <1>19, <1>20, <1>22 DEF Advances

(* An edge of a domain in reset leaves its registers as they are: the edge *)
(* is one of the domains out of reset alone.                               *)
LEMMA AwakeEdges ==
  ASSUME FifoTypes, ~arst,
         NEW W \in Nat, NEW R \in Nat, NEW a1 \in Nat, NEW a2 \in Nat, NEW b1 \in Nat, NEW b2 \in Nat,
         Lags(W, R, a1, a2, b1, b2),
         NEW wticks, NEW rticks, NEW wrote, NEW took,
         NEW word \in Word, wrst => ~wrote, rrst => ~took,
         Advances(wticks, wrote, word, rticks, took, W, R, a1, a2, b1, b2)
  PROVE  Advances(wticks /\ ~wrst, wrote, word, rticks /\ ~rrst, took, W, R, a1, a2, b1, b2)
<1>1. PICK W2, R2, c1, c2, d1, d2 \in Nat :
        /\ W2 = W + One(wrote) /\ R2 = R + One(took) /\ Lags(W2, R2, c1, c2, d1, d2)'
        /\ WriterSees(wticks, R, W2, a1, a2, c1, c2)
        /\ ReaderSees(rticks, W, R2, b1, b2, d1, d2)
        /\ FifoTypes' /\ ~arst' /\ QueueMoves(wrote, word, took)
  BY DEF Advances
<1>2. /\ a2 <= a1 /\ a1 <= R /\ R <= b2 /\ b2 <= b1 /\ b1 <= W
      /\ c2 <= c1 /\ c1 <= R2 /\ R2 <= d2 /\ d2 <= d1 /\ d1 <= W2 /\ W2 <= c2 + DEPTH
      /\ (wrst => W = 0 /\ w = ResetW) /\ (rrst => R = 0 /\ b1 = 0 /\ r = ResetR)
      /\ r'.q1 = Code(d1)
  <2>1. DEPTH' = DEPTH /\ \A n : Code(n)' = Code(n)
    BY DEF DEPTH, Code, GrayOf, PtrTo, bit, Bits
  <2> QED
    BY <1>1, <2>1 DEF Lags, WriterHas, WriterIs, ReaderHas, ReaderIs
<1>3. WriterSees(wticks /\ ~wrst, R, W2, a1, a2, c1, c2)
  <2>1. CASE wticks /\ wrst
    <3>1. W2 = 0
      BY <1>1, <1>2, <2>1 DEF One
    <3>2. c1 = a1 /\ c2 = a2
      BY <1>2, <2>1, <3>1
    <3> QED
      BY <1>1, <1>2, <2>1, <3>1, <3>2 DEF WriterSees
  <2>2. CASE ~(wticks /\ wrst)
    BY <1>1, <2>2 DEF WriterSees
  <2> QED
    BY <2>1, <2>2
<1>4. ReaderSees(rticks /\ ~rrst, W, R2, b1, b2, d1, d2)
  <2>1. CASE rticks /\ rrst
    <3>1. R2 = 0 /\ r' = ResetR /\ r = ResetR
      BY <1>1, <1>2, <2>1 DEF One, ReaderSees
    <3>2. Code(d1) = Code(0)
      BY <1>2, <3>1, Pointers DEF ResetR
    <3>3. 0 <= d1 /\ d1 <= 0 + DEPTH
      BY <1>2, <3>1, Depths
    <3>4. d1 = 0
      BY <3>2, <3>3, Pointers
    <3>5. b1 = 0 /\ b2 = 0 /\ d2 = 0
      BY <1>2, <2>1, <3>1, <3>4
    <3> QED
      BY <2>1, <3>1, <3>4, <3>5 DEF ReaderSees
  <2>2. CASE ~(rticks /\ rrst)
    BY <1>1, <2>2 DEF ReaderSees
  <2> QED
    BY <2>1, <2>2
<1> QED
  BY <1>1, <1>3, <1>4 DEF Advances

(* An edge out of reset keeps the lags and is a step of the queue.         *)
LEMMA EdgeKeeps ==
  ASSUME FifoInv, ~arst, Writing \/ Reading \/ Both
  PROVE  FifoInv' /\ Fifo!Next
<1>1. FifoTypes
  BY DEF FifoInv
<1>2. PICK W, R, a1, a2, b1, b2 \in Nat : Lags(W, R, a1, a2, b1, b2)
  BY DEF FifoInv
<1>3. \A e \in BOOLEAN : Wrote(e) \in BOOLEAN /\ Took(e) \in BOOLEAN
  BY DEF Wrote, Took
<1>4. CASE Writing
  <2>1. PICK wr_en \in BOOLEAN, word \in Word : WriteClock(wr_en, word)
    BY <1>4, FifoAssumption DEF Writing, Presented
  <2>2. Advances(TRUE, Wrote(wr_en), word, FALSE, FALSE, W, R, a1, a2, b1, b2)
    BY <1>1, <1>2, <2>1, WriteAdvances
  <2> QED
    <3>1. PICK wrote \in BOOLEAN : wrote = Wrote(wr_en)
      BY <1>3
    <3>2. FifoInv' /\ QueueMoves(wrote, word, FALSE) /\ FALSE \in BOOLEAN
      BY <2>2, <3>1 DEF Advances, FifoInv
    <3> QED
      BY <3>2, MovesAreQueueSteps
<1>5. CASE Reading
  <2>1. PICK rd_en \in BOOLEAN : ReadClock(rd_en)
    BY <1>5 DEF Reading
  <2>2. PICK word \in Word : TRUE
    BY FifoAssumption
  <2>3. Advances(FALSE, FALSE, word, TRUE, Took(rd_en), W, R, a1, a2, b1, b2)
    BY <1>1, <1>2, <2>1, ReadAdvances
  <2> QED
    <3>1. PICK took \in BOOLEAN : took = Took(rd_en)
      BY <1>3
    <3>2. FifoInv' /\ QueueMoves(FALSE, word, took) /\ FALSE \in BOOLEAN
      BY <2>3, <3>1 DEF Advances, FifoInv
    <3> QED
      BY <3>2, MovesAreQueueSteps
<1>6. CASE Both
  <2>1. PICK wr_en \in BOOLEAN, rd_en \in BOOLEAN, word \in Word : BothClocks(wr_en, word, rd_en)
    BY <1>6, FifoAssumption DEF Both, Presented
  <2>2. Advances(TRUE, Wrote(wr_en), word, TRUE, Took(rd_en), W, R, a1, a2, b1, b2)
    BY <1>1, <1>2, <2>1, BothAdvance
  <2> QED
    <3>1. PICK wrote \in BOOLEAN, took \in BOOLEAN : wrote = Wrote(wr_en) /\ took = Took(rd_en)
      BY <1>3
    <3>2. FifoInv' /\ QueueMoves(wrote, word, took)
      BY <2>2, <3>1 DEF Advances, FifoInv
    <3> QED
      BY <3>2, MovesAreQueueSteps
<1> QED
  BY <1>4, <1>5, <1>6

(* A reset request drops what is queued.                                   *)
LEMMA RequestKeeps ==
  ASSUME FifoTypes, AssertReset
  PROVE  FifoInv' /\ Fifo!Next
<1>1. /\ arst' = TRUE /\ w_sync' = 0 /\ r_sync' = 0 /\ reading' = FALSE
      /\ w' = w /\ r' = r /\ mem' = mem
  BY DEF AssertReset
<1>2. STAGES \in Nat \ {0} /\ DEPTH' = DEPTH
  BY FifoAssumption DEF DEPTH
<1>3. wrst' /\ rrst' /\ w_sync' \in 0 .. STAGES /\ r_sync' \in 0 .. STAGES
  BY <1>1, <1>2 DEF wrst, rrst
<1>4. FifoTypes'
  BY <1>1, <1>2, <1>3 DEF FifoTypes
<1>5. FifoInv'
  BY <1>1, <1>4 DEF FifoInv
<1> QED
  BY <1>1, <1>5 DEF Fifo!Next, Fifo!Clear, queue

(* Released, every count starts from zero.                                 *)
LEMMA ReleaseStarts ==
  ASSUME FifoTypes, arst, ReleaseReset
  PROVE  FifoTypes' /\ ~arst' /\ Lags(0, 0, 0, 0, 0, 0)' /\ queue' = << >>
<1>1. wrst /\ rrst /\ DEPTH' = DEPTH
  BY DEF FifoTypes, DEPTH
<1>2. /\ w = ResetW /\ r = ResetR /\ arst' = FALSE /\ reading' = FALSE
      /\ w' = w /\ r' = r /\ mem' = mem /\ w_sync' = w_sync /\ r_sync' = r_sync
  BY DEF ReleaseReset
<1>3. wrst' /\ rrst'
  BY <1>1, <1>2 DEF wrst, rrst
<1>4. WriterIs(ResetW, TRUE, 0, 0, 0) /\ ReaderIs(ResetR, TRUE, 0, 0, 0)
  <2>1. 0 < 0 + DEPTH
    BY Depths
  <2> QED
    BY <2>1, Pointers DEF WriterIs, ReaderIs, ResetW, ResetR
<1>5. WriterIs(w', wrst', 0, 0, 0) /\ ReaderIs(r', rrst', 0, 0, 0)
  BY <1>2, <1>3, <1>4 DEF WriterIs, ReaderIs
<1>6. Lags(0, 0, 0, 0, 0, 0)'
  BY <1>5, Depths DEF Lags, WriterHas, ReaderHas
<1>7. FifoTypes'
  BY <1>1, <1>2 DEF FifoTypes, wrst, rrst
<1>8. queue' = << >>
  <2>1. QueueCounts'
    BY QueueIsQueued, PTL
  <2>2. queue' = Queued(mem', 0, 0) /\ mem' \in Cells
    BY <1>2, <1>6, <1>7, <2>1 DEF QueueCounts, FifoTypes, Cells, RamWord
  <2>3. IsQueued(queue', mem', 0, 0)
    BY <2>2, QueuedWords
  <2> QED
    BY <2>3 DEF IsQueued
<1> QED
  BY <1>2, <1>6, <1>7, <1>8

(* In reset nothing is queued.                                             *)
LEMMA ResetKeeps ==
  ASSUME FifoInv, arst, Next
  PROVE  FifoInv' /\ Fifo!Next
<1>1. FifoTypes /\ wrst /\ rrst /\ queue = << >> /\ STAGES \in Nat \ {0}
  BY FifoAssumption DEF FifoInv, FifoTypes, queue
<1>2. DEPTH' = DEPTH
  BY DEF DEPTH
<1>3. CASE Writing
  <2>1. PICK wr_en \in BOOLEAN, word \in Word : WriteClock(wr_en, word)
    BY <1>3, FifoAssumption DEF Writing, Presented
  <2>2. /\ w' = ResetW /\ w_sync' = 0 /\ reading' = FALSE /\ Store(wr_en, word)
        /\ r' = r /\ arst' = arst /\ r_sync' = r_sync
    BY <1>1, <2>1 DEF WriteClock, WriteRegs, Released
  <2>3. mem' \in [0 .. DEPTH - 1 -> Word \cup {Unwritten}] /\ w'.full = FALSE
    BY <1>1, <2>2, StoreTypes DEF ResetW
  <2>4. wrst' /\ rrst' /\ w_sync' \in 0 .. STAGES /\ r_sync' \in 0 .. STAGES
    BY <1>1, <1>2, <2>2 DEF FifoTypes, wrst, rrst
  <2>5. w'.full \in BOOLEAN /\ r'.empty \in BOOLEAN
    BY <1>1, <2>2, <2>3 DEF FifoTypes
  <2>6. FifoTypes' /\ arst'
    BY <1>1, <1>2, <2>2, <2>3, <2>4, <2>5 DEF FifoTypes
  <2>7. FifoInv'
    BY <2>6 DEF FifoInv
  <2> QED
    BY <1>1, <2>2, <2>7 DEF Fifo!Next, Fifo!Quiet, queue
<1>4. CASE Reading
  <2>1. PICK rd_en \in BOOLEAN : ReadClock(rd_en)
    BY <1>4 DEF Reading
  <2>2. /\ r' = ResetR /\ r_sync' = 0 /\ reading' = FALSE
        /\ w' = w /\ mem' = mem /\ arst' = arst /\ w_sync' = w_sync
    BY <1>1, <2>1 DEF ReadClock, ReadRegs, Released
  <2>3. r'.empty = TRUE
    BY <2>2 DEF ResetR
  <2>4. wrst' /\ rrst' /\ w_sync' \in 0 .. STAGES /\ r_sync' \in 0 .. STAGES
    BY <1>1, <1>2, <2>2 DEF FifoTypes, wrst, rrst
  <2>5. w'.full \in BOOLEAN /\ r'.empty \in BOOLEAN
    BY <1>1, <2>2, <2>3 DEF FifoTypes
  <2>6. FifoTypes' /\ arst'
    BY <1>1, <1>2, <2>2, <2>3, <2>4, <2>5 DEF FifoTypes
  <2>7. FifoInv'
    BY <2>6 DEF FifoInv
  <2> QED
    BY <1>1, <2>2, <2>7 DEF Fifo!Next, Fifo!Quiet, queue
<1>5. CASE Both
  <2>1. PICK wr_en \in BOOLEAN, rd_en \in BOOLEAN, word \in Word : BothClocks(wr_en, word, rd_en)
    BY <1>5, FifoAssumption DEF Both, Presented
  <2>2. /\ w' = ResetW /\ r' = ResetR /\ w_sync' = 0 /\ r_sync' = 0 /\ reading' = FALSE
        /\ Store(wr_en, word) /\ arst' = arst
    BY <1>1, <2>1 DEF BothClocks, WriteRegs, ReadRegs, Released
  <2>3. /\ mem' \in [0 .. DEPTH - 1 -> Word \cup {Unwritten}]
        /\ w'.full = FALSE /\ r'.empty = TRUE
    BY <1>1, <2>2, StoreTypes DEF ResetW, ResetR
  <2>4. wrst' /\ rrst' /\ w_sync' \in 0 .. STAGES /\ r_sync' \in 0 .. STAGES
    BY <1>1, <1>2, <2>2 DEF FifoTypes, wrst, rrst
  <2>5. w'.full \in BOOLEAN /\ r'.empty \in BOOLEAN
    BY <1>1, <2>2, <2>3 DEF FifoTypes
  <2>6. FifoTypes' /\ arst'
    BY <1>1, <1>2, <2>2, <2>3, <2>4, <2>5 DEF FifoTypes
  <2>7. FifoInv'
    BY <2>6 DEF FifoInv
  <2> QED
    BY <1>1, <2>2, <2>7 DEF Fifo!Next, Fifo!Quiet, queue
<1>6. CASE AssertReset
  BY <1>1, <1>6, RequestKeeps
<1>7. CASE ReleaseReset
  <2>1. FifoTypes' /\ ~arst' /\ Lags(0, 0, 0, 0, 0, 0)' /\ queue' = << >> /\ reading' = FALSE
    BY <1>1, <1>7, ReleaseStarts DEF ReleaseReset
  <2>2. FifoInv'
    BY <2>1 DEF FifoInv
  <2> QED
    BY <1>1, <2>1, <2>2 DEF Fifo!Next, Fifo!Clear
<1> QED
  BY <1>3, <1>4, <1>5, <1>6, <1>7 DEF Next

LEMMA FifoStep == FifoInv /\ [Next]_vars => FifoInv' /\ [Fifo!Next]_(Fifo!vars)
<1> SUFFICES ASSUME FifoInv, [Next]_vars PROVE FifoInv' /\ [Fifo!Next]_(Fifo!vars)
  OBVIOUS
<1>1. arst \in BOOLEAN
  BY DEF FifoInv, FifoTypes
<1>2. CASE Next /\ arst
  BY <1>2, ResetKeeps
<1>3. CASE Next /\ ~arst
  <2>1. CASE Writing \/ Reading \/ Both
    BY <1>3, <2>1, EdgeKeeps
  <2>2. CASE AssertReset
    BY <2>2, RequestKeeps DEF FifoInv
  <2> QED
    BY <1>3, <2>1, <2>2 DEF Next, ReleaseReset
<1>4. CASE UNCHANGED vars
  <2>1. /\ w' = w /\ r' = r /\ mem' = mem /\ arst' = arst /\ w_sync' = w_sync
        /\ r_sync' = r_sync /\ reading' = reading
    BY <1>4 DEF vars
  <2>2. DEPTH' = DEPTH
    BY DEF DEPTH
  <2>3. \A W, R, a1, a2, b1, b2 \in Nat :
          Lags(W, R, a1, a2, b1, b2) => Lags(W, R, a1, a2, b1, b2)'
    BY <2>1 DEF Lags, WriterHas, ReaderHas, WriterIs, ReaderIs, wrst, rrst
  <2>4. FifoTypes'
    BY <2>1, <2>2 DEF FifoInv, FifoTypes, wrst, rrst
  <2>5. FifoInv'
    BY <2>1, <2>3, <2>4 DEF FifoInv
  <2>6. queue' = queue
    BY <2>1, <2>2 DEF queue, Ahead
  <2> QED
    BY <2>1, <2>5, <2>6 DEF Fifo!vars
<1> QED
  BY <1>1, <1>2, <1>3, <1>4

LEMMA FifoStarts == Init => FifoInv /\ Fifo!Init
<1> SUFFICES ASSUME Init PROVE FifoInv /\ Fifo!Init
  OBVIOUS
<1>1. STAGES \in Nat \ {0} /\ ZeroWord \in Word
  BY FifoAssumption
<1>2. FifoTypes
  <2>1. wrst /\ rrst /\ w_sync \in 0 .. STAGES /\ r_sync \in 0 .. STAGES
    BY <1>1 DEF Init, wrst, rrst
  <2>2. w.full = FALSE /\ r.empty = TRUE
    BY DEF Init, ResetW, ResetR
  <2> QED
    BY <2>1, <2>2 DEF Init, FifoTypes
<1> QED
  BY <1>2 DEF Init, FifoInv, Fifo!Init, queue

(* src/cdc_async_fifo.v: between any two clocks, whatever a flop that      *)
(* samples the other domain resolves to, the words read are the words      *)
(* written, in order and once, and none is written over one still queued.  *)
THEOREM FifoIsQueue == Spec => ImplementsFifo
<1> QED
  BY FifoStarts, FifoStep, PTL DEF Spec, ImplementsFifo, Fifo!Spec

LEMMA PointerOfCode == \A n \in Nat : PtrOf(Code(n)) = PtrTo(n)
<1> TAKE n \in Nat
<1>1. PtrTo(n) \in Ptr /\ GrayOf(PtrTo(n)) = Code(n)
  BY Pointers DEF Code
<1>2. PtrOf(Code(n)) \in Ptr /\ GrayOf(PtrOf(Code(n))) = Code(n)
  BY <1>1 DEF PtrOf
<1> QED
  BY <1>1, <1>2, GrayIsInjective

(* src/cdc_async_fifo.v: what each domain knows of the other's pointer is  *)
(* one it has had, in order and less than a lap old, so the flags are late *)
(* and never wrong.                                                        *)
THEOREM FlagsAreLate == Spec => []CapturedLags
<1>1. FifoInv => CapturedLags
  <2> SUFFICES ASSUME FifoInv, ~arst
               PROVE  /\ \A g \in {w.q1, w.q2, r.q1, r.q2} : \E n \in Ptr : GrayOf(n) = g
                      /\ Ahead(PtrOf(w.q2), PtrOf(w.q1)) + Ahead(PtrOf(w.q1), r.bin)
                           + Ahead(r.bin, w.bin) <= DEPTH
                      /\ Ahead(PtrOf(r.q2), PtrOf(r.q1)) + Ahead(PtrOf(r.q1), w.bin)
                           + Ahead(r.bin, PtrOf(r.q2)) = Ahead(r.bin, w.bin)
    BY DEF CapturedLags
  <2>1. PICK W, R, a1, a2, b1, b2 \in Nat : Lags(W, R, a1, a2, b1, b2)
    BY DEF FifoInv
  <2>2. /\ w.bin = PtrTo(W) /\ w.q1 = Code(a1) /\ w.q2 = Code(a2)
        /\ r.bin = PtrTo(R) /\ r.q1 = Code(b1) /\ r.q2 = Code(b2)
        /\ a2 <= a1 /\ a1 <= R /\ R <= b2 /\ b2 <= b1 /\ b1 <= W /\ W <= a2 + DEPTH
    BY <2>1 DEF Lags, WriterHas, WriterIs, ReaderHas, ReaderIs
  <2>3. \A n \in Nat : PtrTo(n) \in Ptr /\ GrayOf(PtrTo(n)) = Code(n)
    BY Pointers DEF Code
  <2>4. \A g \in {w.q1, w.q2, r.q1, r.q2} : \E n \in Ptr : GrayOf(n) = g
    BY <2>2, <2>3
  <2>5. /\ PtrOf(w.q1) = PtrTo(a1) /\ PtrOf(w.q2) = PtrTo(a2)
        /\ PtrOf(r.q1) = PtrTo(b1) /\ PtrOf(r.q2) = PtrTo(b2)
    BY <2>2, PointerOfCode
  <2>6. /\ a1 <= a2 + DEPTH /\ R <= a1 + DEPTH /\ W <= R + DEPTH
        /\ b1 <= b2 + DEPTH /\ W <= b1 + DEPTH /\ b2 <= R + DEPTH /\ R <= W
    BY <2>2, Depths
  <2>7. /\ Ahead(PtrTo(a2), PtrTo(a1)) = a1 - a2 /\ Ahead(PtrTo(a1), PtrTo(R)) = R - a1
        /\ Ahead(PtrTo(R), PtrTo(W)) = W - R /\ Ahead(PtrTo(b2), PtrTo(b1)) = b1 - b2
        /\ Ahead(PtrTo(b1), PtrTo(W)) = W - b1 /\ Ahead(PtrTo(R), PtrTo(b2)) = b2 - R
    BY <2>2, <2>6, AheadCounts
  <2>8. (a1 - a2) + (R - a1) + (W - R) <= DEPTH /\ (b1 - b2) + (W - b1) + (b2 - R) = W - R
    BY <2>2, Depths
  <2> QED
    BY <2>2, <2>4, <2>5, <2>7, <2>8
<1> QED
  BY <1>1, FifoStarts, FifoStep, PTL DEF Spec
=============================================================================
