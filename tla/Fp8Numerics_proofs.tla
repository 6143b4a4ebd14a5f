-------------------------- MODULE Fp8Numerics_proofs --------------------------
(***************************************************************************)
(* Proofs about the FP8 arithmetic and the matrix product, for every width *)
(* of the floats and every size of a block, and the lemmas about numbers,  *)
(* sums and recursive functions they need.                                 *)
(***************************************************************************)
EXTENDS MCFp8Numerics, FiniteSetTheorems, SequenceTheorems, WellFoundedInduction, TLAPS

-----------------------------------------------------------------------------
(* A set of naturals that is closed under taking the successor and holds   *)
(* the numbers before its least missing one holds them all.                *)
LEMMA NatSets ==
  ASSUME NEW S \in SUBSET Nat, \A n \in Nat : (\A m \in Nat : m < n => m \in S) => n \in S
  PROVE  S = Nat
<1> DEFINE R == {ss \in Nat \X Nat : ss[1] < ss[2]}
           T == Nat \ S
<1>1. IsWellFoundedOn(R, Nat)
  BY NatLessThanWellFounded DEF OpToRel
<1>2. \A x, y \in Nat : <<y, x>> \in R <=> y < x
  OBVIOUS
<1>3. T \subseteq Nat
  OBVIOUS
<1> SUFFICES ASSUME T # {} PROVE FALSE
  OBVIOUS
<1>4. PICK n \in T : \A m \in T : ~(<<m, n>> \in R)
  <2> HIDE DEF R, T
  <2> QED
    BY <1>1, <1>3, WFMin
<1> HIDE DEF R
<1>5. \A m \in Nat : m < n => m \in S
  BY <1>2, <1>4
<1> QED
  BY <1>4, <1>5

(* Powers of two.                                                          *)
LEMMA Powers ==
  /\ \A n \in Nat : 2^n \in Nat \ {0} /\ 2^(n + 1) = 2 * 2^n
  /\ 2^0 = 1
<1>1. ASSUME NEW n \in Nat
      PROVE  2^n \in Nat \ {0} /\ IsFiniteSet(SUBSET (1 .. n)) /\ Cardinality(SUBSET (1 .. n)) = 2^n
  <2>1. IsFiniteSet(1 .. n) /\ Cardinality(1 .. n) = n
    BY FS_Interval
  <2>2. IsFiniteSet(SUBSET (1 .. n)) /\ Cardinality(SUBSET (1 .. n)) = 2^n
    BY <2>1, FS_SUBSET
  <2>3. SUBSET (1 .. n) # {}
    OBVIOUS
  <2>4. Cardinality(SUBSET (1 .. n)) \in Nat /\ Cardinality(SUBSET (1 .. n)) # 0
    BY <2>2, <2>3, FS_CardinalityType, FS_EmptySet
  <2> QED
    BY <2>2, <2>4
<1>2. ASSUME NEW n \in Nat
      PROVE  2^(n + 1) = 2 * 2^n
  <2> DEFINE A == SUBSET (1 .. n)
             B == {x \cup {n + 1} : x \in A}
             g == [x \in A |-> x \cup {n + 1}]
  <2>1. \A x \in A : n + 1 \notin x
    OBVIOUS
  <2>2. g \in Bijection(A, B)
    <3>1. g \in [A -> B] /\ \A y \in B : \E x \in A : g[x] = y
      OBVIOUS
    <3>2. ASSUME NEW x \in A, NEW y \in A, g[x] = g[y] PROVE x = y
      <4>1. x \cup {n + 1} = y \cup {n + 1}
        BY <3>2
      <4> QED
        BY <2>1, <4>1
    <3> QED
      BY <3>1, <3>2 DEF Bijection, Injection, Surjection, IsInjective
  <2>3. IsFiniteSet(A) /\ Cardinality(A) = 2^n /\ 2^n \in Nat
    BY <1>1
  <2>4. IsFiniteSet(B) /\ Cardinality(B) = 2^n
    <3> HIDE DEF A, B, g
    <3>1. ExistsBijection(A, B)
      BY <2>2 DEF ExistsBijection
    <3> QED
      BY <2>3, <3>1, FS_Bijection
  <2>5. A \cap B = {}
    BY <2>1
  <2>6. A \cup B = SUBSET (1 .. n + 1)
    <3>1. A \cup B \subseteq SUBSET (1 .. n + 1)
      <4>1. 1 .. n \subseteq 1 .. n + 1 /\ n + 1 \in 1 .. n + 1
        OBVIOUS
      <4>2. \A x \in A : x \subseteq 1 .. n + 1 /\ x \cup {n + 1} \subseteq 1 .. n + 1
        BY <4>1
      <4> QED
        BY <4>2
    <3>2. ASSUME NEW x \in SUBSET (1 .. n + 1) PROVE x \in A \cup B
      <4>1. 1 .. n + 1 = (1 .. n) \cup {n + 1}
        OBVIOUS
      <4>2. CASE n + 1 \in x
        <5>1. x \ {n + 1} \in A /\ x = (x \ {n + 1}) \cup {n + 1}
          BY <4>1, <4>2
        <5> QED
          BY <5>1
      <4>3. CASE n + 1 \notin x
        BY <4>1, <4>3
      <4> QED
        BY <4>2, <4>3
    <3> QED
      BY <3>1, <3>2
  <2>7. Cardinality(A \cup B) = 2^n + 2^n
    <3> HIDE DEF A, B
    <3>1. Cardinality(A \cap B) = 0
      BY <2>5, FS_EmptySet
    <3> QED
      BY <2>3, <2>4, <3>1, FS_Union
  <2>8. Cardinality(A \cup B) = 2^(n + 1)
    <3>1. n + 1 \in Nat
      OBVIOUS
    <3> QED
      BY <1>1, <2>6, <3>1
  <2> HIDE DEF A, B
  <2> QED
    BY <2>3, <2>7, <2>8
<1>3. 2^0 = 1
  OBVIOUS
<1> QED
  BY <1>1, <1>2, <1>3
-----------------------------------------------------------------------------
(* Quotient and remainder are unique.                                      *)
LEMMA Times ==
  ASSUME NEW m \in Nat \ {0}, NEW d \in Int
  PROVE  (d >= 1 => m * d >= m) /\ (d <= -1 => m * d <= -m)
  OBVIOUS

LEMMA DivisionIsUnique ==
  ASSUME NEW m \in Nat \ {0}, NEW x \in Int, NEW q \in Int, NEW e \in 0 .. m - 1, x = m * q + e
  PROVE  x % m = e /\ x \div m = q
<1> DEFINE p == x \div m
           s == x % m
<1>1. p \in Int /\ s \in 0 .. m - 1 /\ x = m * p + s
  OBVIOUS
<1> HIDE DEF p, s
<1>2. m * (p - q) = e - s
  <2>1. m * (p - q) = m * p - m * q
    BY <1>1
  <2> QED
    BY <1>1, <2>1
<1>3. p - q \in Int /\ ~(p - q >= 1) /\ ~(p - q <= -1)
  BY <1>1, <1>2, Times
<1>4. p = q
  BY <1>1, <1>3
<1>5. e = s
  BY <1>1, <1>4
<1> QED
  BY <1>4, <1>5 DEF p, s

LEMMA Division ==
  ASSUME NEW m \in Nat \ {0}, NEW x \in Nat
  PROVE  /\ x \div m \in Nat /\ x % m \in 0 .. m - 1
         /\ x = m * (x \div m) + (x % m)
         /\ x < m => x \div m = 0 /\ x % m = x
<1>1. x \div m \in Int /\ x % m \in 0 .. m - 1 /\ x = m * (x \div m) + (x % m)
  OBVIOUS
<1>2. x \div m \in Nat
  <2> DEFINE q == x \div m
             s == x % m
  <2>1. q \in Int /\ s \in 0 .. m - 1 /\ x = m * q + s
    BY <1>1
  <2> HIDE DEF q, s
  <2>2. ~(q <= -1)
    BY <2>1, Times
  <2>3. q \in Nat
    BY <2>1, <2>2
  <2> QED
    BY <2>3 DEF q
<1>3. ASSUME x < m PROVE x \div m = 0 /\ x % m = x
  <2>1. x \in Int /\ 0 \in Int /\ x \in 0 .. m - 1 /\ x = m * 0 + x
    BY <1>3
  <2> QED
    BY <2>1, DivisionIsUnique
<1> QED
  BY <1>1, <1>2, <1>3
-----------------------------------------------------------------------------
(* The widths and the words.                                               *)
LEMMA Widths ==
  /\ EMAX \in Nat /\ EMAX >= 3 /\ BIAS \in Nat /\ Hidden \in Nat /\ Hidden >= 2
  /\ EMAX = 2 * BIAS + 1
  /\ \A n \in Nat : 2^n \in Nat \ {0}
<1>1. EB - 1 \in Nat /\ EB - 2 \in Nat /\ MB - 1 \in Nat
  BY WidthAssumption
<1>2. 2^EB = 2 * 2^(EB - 1) /\ 2^(EB - 1) = 2 * 2^(EB - 2) /\ 2^MB = 2 * 2^(MB - 1)
  <2>1. (EB - 1) + 1 = EB /\ (EB - 2) + 1 = EB - 1 /\ (MB - 1) + 1 = MB
    BY WidthAssumption
  <2> QED
    BY <1>1, <2>1, Powers
<1>3. 2^(EB - 2) \in Nat \ {0} /\ 2^(MB - 1) \in Nat \ {0}
  BY <1>1, Powers
<1> QED
  BY <1>2, <1>3, Powers DEF EMAX, BIAS, Hidden

LEMMA Bits ==
  ASSUME NEW n \in Nat, NEW i \in Nat
  PROVE  /\ Bit(n, i) \in {0, 1} /\ Low(n, i) \in Nat /\ Low(n, i) < 2^i
         /\ n \div 2^i \in Nat /\ n = 2^i * (n \div 2^i) + Low(n, i)
<1>1. 2^i \in Nat \ {0}
  BY Powers
<1>2. n \div 2^i \in Nat /\ n % 2^i \in 0 .. 2^i - 1 /\ n = 2^i * (n \div 2^i) + (n % 2^i)
  BY <1>1, Division
<1>3. (n \div 2^i) % 2 \in {0, 1}
  <2> DEFINE q == n \div 2^i
  <2>1. q \in Nat
    BY <1>2
  <2> HIDE DEF q
  <2>2. q % 2 \in {0, 1}
    BY <2>1
  <2> QED
    BY <2>2 DEF q
<1> QED
  BY <1>1, <1>2, <1>3 DEF Bit, Low

(* Both packings are one.                                                  *)
LEMMA Packings ==
  ASSUME NEW s, NEW e \in Int, NEW m \in Nat, NEW u \in {0, 1}
  PROVE  xp_pack(s, e, m, u) = Pack(s, e, m, u)
<1> DEFINE cr == Bit(m + u, MB + 1)
<1>1. cr \in {0, 1}
  <2>1. m + u \in Nat /\ MB + 1 \in Nat
    BY WidthAssumption
  <2> QED
    BY <2>1, Bits
<1>2. 2^0 = 1 /\ 2^1 = 2
  OBVIOUS
<1>3. (m + u) \div 2^0 = m + u /\ e + 0 = e
  <2>1. (m + u) \div 1 = m + u /\ e + 0 = e
    OBVIOUS
  <2> QED
    BY <1>2, <2>1
<1>4. \A n \in Int : 0 < n /\ n < EMAX => n % (EMAX + 1) = n
  BY Widths
<1>5. CASE cr = 0
  <2>1. Pack(s, e, m, u) = IF e >= EMAX THEN Inf(s) ELSE IF e <= 0 THEN Zero(s)
                           ELSE [s |-> s, e |-> e, m |-> (m + u) % Hidden]
    BY <1>3, <1>5 DEF Pack
  <2>2. xp_pack(s, e, m, u) = IF e >= EMAX THEN Inf(s) ELSE IF e <= 0 THEN Zero(s)
                              ELSE [s |-> s, e |-> e % (EMAX + 1), m |-> (m + u) % Hidden]
    BY <1>5 DEF xp_pack, Where
  <2> QED
    BY <1>4, <2>1, <2>2, Widths
<1>6. CASE cr = 1
  <2>1. Pack(s, e, m, u) = IF e + 1 >= EMAX THEN Inf(s) ELSE IF e + 1 <= 0 THEN Zero(s)
                           ELSE [s |-> s, e |-> e + 1, m |-> ((m + u) \div 2) % Hidden]
    BY <1>2, <1>6 DEF Pack
  <2>2. xp_pack(s, e, m, u) = IF e + 1 >= EMAX THEN Inf(s) ELSE IF e + 1 <= 0 THEN Zero(s)
                              ELSE [s |-> s, e |-> (e + 1) % (EMAX + 1), m |-> ((m + u) \div 2) % Hidden]
    BY <1>6 DEF xp_pack, Where
  <2>3. e + 1 \in Int
    OBVIOUS
  <2> QED
    BY <1>4, <2>1, <2>2, <2>3, Widths
<1> QED
  BY <1>1, <1>5, <1>6

(* The last true override stays.                                           *)
LEMMA LastStays ==
  ASSUME NEW base, NEW o, DOMAIN o \subseteq Int
  PROVE  /\ \A i \in DOMAIN o :
              o[i].when /\ (\A l \in DOMAIN o : l > i => ~o[l].when) => LastWins(base, o) = o[i].val
         /\ (\A i \in DOMAIN o : ~o[i].when) => LastWins(base, o) = base
<1>1. ASSUME NEW i \in DOMAIN o, o[i].when, \A l \in DOMAIN o : l > i => ~o[l].when
      PROVE  LastWins(base, o) = o[i].val
  <2> DEFINE hits == {l \in DOMAIN o : o[l].when}
  <2>1. i \in hits /\ hits # {}
    BY <1>1
  <2>2. \A l \in hits : l <= i
    BY <1>1
  <2>3. (CHOOSE l \in hits : \A r \in hits : r <= l) = i
    <3>1. \A l \in hits : (\A r \in hits : r <= l) <=> l = i
      BY <2>1, <2>2
    <3> HIDE DEF hits
    <3> QED
      BY <2>1, <3>1
  <2>4. LastWins(base, o) = o[CHOOSE l \in hits : \A r \in hits : r <= l].val
    BY <2>1 DEF LastWins
  <2> QED
    BY <2>3, <2>4
<1>2. ASSUME \A i \in DOMAIN o : ~o[i].when PROVE LastWins(base, o) = base
  BY <1>2 DEF LastWins
<1> QED
  BY <1>1, <1>2

LEMMA ThreeOverrides ==
  ASSUME NEW base, NEW o, DOMAIN o = 1 .. 3
  PROVE  LastWins(base, o) = IF o[3].when THEN o[3].val ELSE IF o[2].when THEN o[2].val
                             ELSE IF o[1].when THEN o[1].val ELSE base
  BY LastStays

LEMMA FourOverrides ==
  ASSUME NEW base, NEW o, DOMAIN o = 1 .. 4
  PROVE  LastWins(base, o) = IF o[4].when THEN o[4].val ELSE IF o[3].when THEN o[3].val
                             ELSE IF o[2].when THEN o[2].val ELSE IF o[1].when THEN o[1].val ELSE base
  BY LastStays

LEMMA SevenOverrides ==
  ASSUME NEW base, NEW o, DOMAIN o = 1 .. 7
  PROVE  LastWins(base, o) = IF o[7].when THEN o[7].val ELSE IF o[6].when THEN o[6].val
                             ELSE IF o[5].when THEN o[5].val ELSE IF o[4].when THEN o[4].val
                             ELSE IF o[3].when THEN o[3].val ELSE IF o[2].when THEN o[2].val
                             ELSE IF o[1].when THEN o[1].val ELSE base
  BY LastStays

LEMMA Fields ==
  ASSUME NEW x \in Float
  PROVE  /\ x.s \in {0, 1} /\ x.e \in 0 .. EMAX /\ x.m \in 0 .. Hidden - 1
         /\ x = [s |-> x.s, e |-> x.e, m |-> x.m]
         /\ Sig(x) \in Nat /\ Sig(x) >= Hidden /\ Sig(x) < 2 * Hidden
         /\ x.e \in Int /\ x.m \in Nat
  BY Widths DEF Float, Sig

LEMMA MultiplyIsGolden ==
  ASSUME NEW x \in Float, NEW y \in Float
  PROVE  xp_fp32_mul(x, y) = fp32_mul(x, y)
<1> DEFINE s    == SignOf(x, y)
           zero == is_zero(x) \/ is_zero(y)
           prod == Sig(x) * Sig(y)
           top  == Bit(prod, 2 * MB + 1)
           cut  == MB + top
           mant == prod \div 2^cut
           up   == RoundUp(Bit(prod, cut - 1), Low(prod, cut - 1) # 0, mant)
           xm   == Where(top = 1, prod \div 2^(MB + 1), prod \div 2^MB)
           xg   == Where(top = 1, Bit(prod, MB), Bit(prod, MB - 1))
           xs   == Where(top = 1, Low(prod, MB) # 0, Low(prod, MB - 1) # 0)
           exp0 == x.e + y.e - BIAS
           xe   == Where(top = 1, exp0 + 1, exp0)
           base == xp_pack(s, xe, xm, RoundUp(xg, xs, xm))
           o == << Choice(zero, Zero(s)),
                   Choice(is_inf(x) \/ is_inf(y), Where(zero, QNaN, Inf(s))),
                   Choice(is_nan(x) \/ is_nan(y), QNaN) >>
<1>1. prod \in Nat /\ MB \in Nat /\ 2 * MB + 1 \in Nat /\ MB - 1 \in Nat /\ exp0 \in Int
  BY Fields, Widths, WidthAssumption
<1>2. top \in {0, 1}
  BY <1>1, Bits
<1> HIDE DEF prod, top, exp0
<1>3. base = Pack(s, exp0 + top, mant, up)
  <2>1. CASE top = 1
    <3>1. MB + top = MB + 1 /\ (MB + top) - 1 = MB
      BY <1>1, <2>1
    <3>2. xm = mant /\ xg = Bit(prod, cut - 1) /\ (xs <=> Low(prod, cut - 1) # 0) /\ xe = exp0 + top
      BY <2>1, <3>1 DEF Where
    <3>3. mant \in Nat
      <4>1. cut \in Nat
        BY <1>1, <2>1
      <4> QED
        BY <1>1, <4>1, Bits
    <3>4. RoundUp(xg, xs, xm) = up /\ up \in {0, 1}
      BY <3>2 DEF RoundUp, Flag
    <3>5. xe \in Int
      BY <1>1, <3>2, <2>1
    <3> HIDE DEF xm, xg, xs, xe, mant, up, cut
    <3> QED
      BY <3>2, <3>3, <3>4, <3>5, Packings
  <2>2. CASE top = 0
    <3>1. MB + top = MB /\ (MB + top) - 1 = MB - 1
      BY <1>1, <2>2
    <3>2. xm = mant /\ xg = Bit(prod, cut - 1) /\ (xs <=> Low(prod, cut - 1) # 0) /\ xe = exp0 + top
      BY <1>1, <2>2, <3>1 DEF Where
    <3>3. mant \in Nat
      <4>1. cut \in Nat
        BY <1>1, <2>2
      <4> QED
        BY <1>1, <4>1, Bits
    <3>4. RoundUp(xg, xs, xm) = up /\ up \in {0, 1}
      BY <3>2 DEF RoundUp, Flag
    <3>5. xe \in Int
      BY <1>1, <3>2, <2>2
    <3> HIDE DEF xm, xg, xs, xe, mant, up, cut
    <3> QED
      BY <3>2, <3>3, <3>4, <3>5, Packings
  <2> QED
    BY <1>2, <2>1, <2>2
<1>4. xp_fp32_mul(x, y) = LastWins(base, o)
  BY DEF xp_fp32_mul, prod, top, exp0
<1>5. fp32_mul(x, y) =
        IF is_nan(x) \/ is_nan(y) THEN QNaN
        ELSE IF is_inf(x) \/ is_inf(y) THEN IF zero THEN QNaN ELSE Inf(s)
        ELSE IF zero THEN Zero(s) ELSE Pack(s, exp0 + top, mant, up)
  BY DEF fp32_mul, prod, top, exp0
<1>6. DOMAIN o = 1 .. 3
  OBVIOUS
<1>7. /\ (o[1].when <=> zero) /\ o[1].val = Zero(s)
      /\ (o[2].when <=> (is_inf(x) \/ is_inf(y))) /\ o[2].val = IF zero THEN QNaN ELSE Inf(s)
      /\ (o[3].when <=> (is_nan(x) \/ is_nan(y))) /\ o[3].val = QNaN
  BY DEF Choice, Where
<1> HIDE DEF o, zero, s, mant, up, base
<1>8. LastWins(base, o) = IF o[3].when THEN o[3].val ELSE IF o[2].when THEN o[2].val
                          ELSE IF o[1].when THEN o[1].val ELSE base
  BY <1>6, ThreeOverrides
<1> QED
  BY <1>3, <1>4, <1>5, <1>7, <1>8

LEMMA ScaleIsGolden ==
  ASSUME NEW x \in Float, NEW n \in Int
  PROVE  xp_fp32_scale_pow2(x, n) = fp32_scale_pow2(x, n)
<1> DEFINE base == [x EXCEPT !.e = (x.e + n) % (EMAX + 1)]
           o == << Choice(x.e + n >= EMAX, Inf(x.s)), Choice(x.e + n <= 0, Zero(x.s)),
                   Choice(x.e = 0, Zero(x.s)), Choice(x.e = EMAX, x) >>
<1>1. xp_fp32_scale_pow2(x, n) = LastWins(base, o)
  BY DEF xp_fp32_scale_pow2
<1>2. DOMAIN o = 1 .. 4
  OBVIOUS
<1>3. /\ (o[1].when <=> x.e + n >= EMAX) /\ o[1].val = Inf(x.s)
      /\ (o[2].when <=> x.e + n <= 0) /\ o[2].val = Zero(x.s)
      /\ (o[3].when <=> x.e = 0) /\ o[3].val = Zero(x.s)
      /\ (o[4].when <=> x.e = EMAX) /\ o[4].val = x
  BY DEF Choice
<1>4. x.e + n \in Int /\ (0 < x.e + n /\ x.e + n < EMAX => (x.e + n) % (EMAX + 1) = x.e + n)
  BY Fields, Widths
<1>5. (0 < x.e + n /\ x.e + n < EMAX) => base = [x EXCEPT !.e = x.e + n]
  BY <1>4
<1> HIDE DEF o, base
<1>6. LastWins(base, o) = IF o[4].when THEN o[4].val ELSE IF o[3].when THEN o[3].val
                          ELSE IF o[2].when THEN o[2].val ELSE IF o[1].when THEN o[1].val ELSE base
  BY <1>2, FourOverrides
<1>7. EMAX \in Int
  BY Widths
<1> QED
  BY <1>1, <1>3, <1>4, <1>5, <1>6, <1>7 DEF fp32_scale_pow2
-----------------------------------------------------------------------------
LEMMA PowerSum ==
  \A m, n \in Nat : 2^(m + n) = 2^m * 2^n
<1> DEFINE S == {n \in Nat : \A m \in Nat : 2^(m + n) = 2^m * 2^n}
<1>1. ASSUME NEW n \in Nat, \A i \in Nat : i < n => i \in S PROVE n \in S
  <2>1. CASE n = 0
    <3>1. \A m \in Nat : m + 0 = m /\ 2^m * 1 = 2^m
      BY Powers
    <3> QED
      BY <2>1, <3>1, Powers
  <2>2. CASE n # 0
    <3> SUFFICES ASSUME NEW m \in Nat PROVE 2^(m + n) = 2^m * 2^n
      OBVIOUS
    <3>1. n - 1 \in S /\ n - 1 \in Nat
      BY <1>1, <2>2
    <3>2. 2^(m + (n - 1)) = 2^m * 2^(n - 1)
      BY <3>1
    <3>3. m + (n - 1) \in Nat /\ (m + (n - 1)) + 1 = m + n /\ (n - 1) + 1 = n
      BY <3>1
    <3>4. 2^(m + n) = 2 * 2^(m + (n - 1)) /\ 2^n = 2 * 2^(n - 1)
      BY <3>1, <3>3, Powers
    <3>5. 2^m \in Nat /\ 2^(n - 1) \in Nat
      BY <3>1, Powers
    <3> HIDE DEF S
    <3>6. ASSUME NEW p \in Nat, NEW q \in Nat PROVE 2 * (p * q) = p * (2 * q)
      OBVIOUS
    <3> QED
      BY <3>2, <3>4, <3>5, <3>6
  <2> QED
    BY <2>1, <2>2
<1> HIDE DEF S
<1>2. S = Nat
  <2>1. S \subseteq Nat
    BY DEF S
  <2> QED
    BY <1>1, <2>1, NatSets
<1> QED
  BY <1>2 DEF S

LEMMA PowerOrder ==
  \A m, n \in Nat : /\ m <= n => 2^m <= 2^n
                    /\ m < n => 2 * 2^m <= 2^n /\ 2^m < 2^n
<1> SUFFICES ASSUME NEW m \in Nat, NEW n \in Nat, m <= n
             PROVE  2^m <= 2^n /\ (m < n => 2 * 2^m <= 2^n /\ 2^m < 2^n)
  OBVIOUS
<1>1. ASSUME NEW p \in Nat, NEW q \in Nat \ {0} PROVE p <= p * q
  OBVIOUS
<1>2. 2^m <= 2^n
  <2>1. n - m \in Nat /\ m + (n - m) = n
    OBVIOUS
  <2>2. 2^n = 2^m * 2^(n - m) /\ 2^m \in Nat /\ 2^(n - m) \in Nat \ {0}
    BY <2>1, PowerSum, Powers
  <2> QED
    BY <1>1, <2>2
<1>3. ASSUME m < n PROVE 2 * 2^m <= 2^n
  <2>1. n - (m + 1) \in Nat /\ (m + 1) + (n - (m + 1)) = n
    BY <1>3
  <2>2. 2^n = 2^(m + 1) * 2^(n - (m + 1)) /\ 2^(m + 1) \in Nat /\ 2^(n - (m + 1)) \in Nat \ {0}
    BY <2>1, PowerSum, Powers
  <2>3. 2^(m + 1) = 2 * 2^m
    BY Powers
  <2> QED
    BY <1>1, <2>2, <2>3
<1> QED
  BY <1>2, <1>3, Powers

LEMMA PowerLeast ==
  ASSUME NEW m \in Nat, NEW n \in Nat
  PROVE  (2^m < 2^n => m < n) /\ (2^m = 2^n => m = n)
  BY PowerOrder, Powers

(* Division by a positive number and order.                                *)
LEMMA Quotients ==
  ASSUME NEW d \in Nat \ {0}, NEW n \in Nat, NEW q \in Nat
  PROVE  /\ n < d * q => n \div d < q
         /\ d * q <= n => q <= n \div d
         /\ n \div d < q => n < d * q
         /\ q <= n \div d => d * q <= n
<1> DEFINE p == n \div d
           s == n % d
<1>1. p \in Nat /\ s \in 0 .. d - 1 /\ n = d * p + s
  BY Division
<1> HIDE DEF p, s
<1>2. ASSUME NEW t \in Nat, NEW r \in Nat, t <= r PROVE d * t <= d * r
  <2>1. r - t \in Nat /\ d * (r - t) >= 0 /\ d * (r - t) = d * r - d * t
    BY <1>2
  <2> QED
    BY <2>1
<1>3. p < q => d * p + d <= d * q
  <2>1. p < q => d * (p + 1) <= d * q
    BY <1>1, <1>2
  <2>2. d * (p + 1) = d * p + d
    BY <1>1
  <2> QED
    BY <2>1, <2>2
<1>4. q <= p => d * q <= d * p
  BY <1>1, <1>2
<1>5. d * p \in Nat /\ d * q \in Nat
  BY <1>1
<1>6. (p < q => n < d * q) /\ (q <= p => d * q <= n)
  BY <1>1, <1>3, <1>4, <1>5
<1>7. p < q \/ q <= p
  BY <1>1
<1> QED
  BY <1>1, <1>5, <1>6, <1>7 DEF p

LEMMA BelowPower ==
  ASSUME NEW n \in Nat, NEW i \in Nat, NEW l \in Nat
  PROVE  n < 2^(i + l) <=> n \div 2^i < 2^l
<1>1. 2^(i + l) = 2^i * 2^l /\ 2^i \in Nat \ {0} /\ 2^l \in Nat
  BY PowerSum, Powers
<1> QED
  BY <1>1, Quotients

LEMMA NestedDivision ==
  ASSUME NEW n \in Nat, NEW d \in Nat \ {0}, NEW e \in Nat \ {0}
  PROVE  /\ (n \div d) \div e = n \div (d * e)
         /\ n % (d * e) = d * ((n \div d) % e) + (n % d)
<1> DEFINE q == n \div d
           s == n % d
           p == q \div e
           t == q % e
<1>1. q \in Nat /\ s \in 0 .. d - 1 /\ n = d * q + s
  BY Division
<1> HIDE DEF q, s
<1>2. p \in Nat /\ t \in 0 .. e - 1 /\ q = e * p + t
  BY <1>1, Division
<1> HIDE DEF p, t
<1>3. n = (d * e) * p + (d * t + s)
  <2>1. d * (e * p + t) = (d * e) * p + d * t
    BY <1>2
  <2> QED
    BY <1>1, <1>2, <2>1
<1>4. d * t + s \in 0 .. (d * e) - 1
  <2>1. d * (t + 1) <= d * e /\ d * (t + 1) = d * t + d
    <3>1. e - (t + 1) \in Nat
      BY <1>2
    <3>2. d * (e - (t + 1)) \in Nat /\ d * (e - (t + 1)) = d * e - d * (t + 1)
      BY <1>2, <3>1
    <3>3. d * (t + 1) = d * t + d /\ d * (t + 1) \in Nat /\ d * e \in Nat
      BY <1>2
    <3> QED
      BY <3>2, <3>3
  <2>2. d * t \in Nat /\ d * e \in Nat
    BY <1>2
  <2> QED
    BY <1>1, <2>1, <2>2
<1>5. d * e \in Nat \ {0}
  OBVIOUS
<1>6. n % (d * e) = d * t + s /\ n \div (d * e) = p
  <2> DEFINE de == d * e
             r == d * t + s
  <2>1. de \in Nat \ {0} /\ r \in 0 .. de - 1 /\ n = de * p + r
    BY <1>3, <1>4, <1>5
  <2> HIDE DEF de, r
  <2>2. n % de = r /\ n \div de = p
    BY <1>2, <2>1, DivisionIsUnique
  <2> QED
    BY <2>2 DEF de, r
<1> QED
  BY <1>6 DEF p, q, s, t

LEMMA LowestBit ==
  ASSUME NEW n \in Nat, NEW i \in Nat
  PROVE  Bit(n \div 2^i, 0) = Bit(n, i)
<1>1. n \div 2^i \in Nat /\ 2^0 = 1
  BY Bits, Powers
<1>2. \A q \in Nat : q \div 1 = q
  OBVIOUS
<1> QED
  BY <1>1, <1>2 DEF Bit

LEMMA NarrowIsGolden ==
  ASSUME NEW x \in Float
  PROVE  xp_fp32_to_bf16(x) = fp32_to_bf16(x)
<1> DEFINE D  == MB - BM
           q  == x.m \div 2^D
           g  == Bit(x.m, D - 1)
           lo == Low(x.m, D - 1) # 0
           up == RoundUp(g, lo, q)
           xu == Where(g = 1 /\ (lo \/ Bit(x.m, D) # 0), 1, 0)
           sum == x.e * 2^BM + q + up
           top == (x.e * 2^BM + q + xu) % 2^(EB + BM)
<1>1. D \in Nat /\ D - 1 \in Nat /\ D + BM = MB /\ BM \in Nat /\ EB \in Nat /\ BM # 0
  BY WidthAssumption
<1>2. x.m \in Nat /\ x.e \in Nat /\ x.e <= EMAX /\ x.m < 2^MB
  BY Fields, Widths DEF Hidden
<1> HIDE DEF D
<1>3. Bit(x.m, D) \in {0, 1} /\ Bit(q, 0) = Bit(x.m, D) /\ q \in Nat /\ g \in {0, 1}
  BY <1>1, <1>2, Bits, LowestBit
<1>4. xu = up /\ up \in {0, 1}
  BY <1>3 DEF Where, RoundUp, Flag
<1>5. q < 2^BM
  BY <1>1, <1>2, BelowPower
<1>6. x.e # EMAX => sum \in Nat /\ sum < 2^(EB + BM)
  <2> SUFFICES ASSUME x.e # EMAX PROVE sum \in Nat /\ sum < 2^(EB + BM)
    OBVIOUS
  <2> DEFINE p == 2^BM
  <2>1. p \in Nat \ {0} /\ 2^(EB + BM) = 2^EB * p /\ 2^EB = EMAX + 1
    <3>1. 2^EB \in Nat
      BY <1>1, Powers
    <3>2. 2^EB = EMAX + 1
      BY <3>1 DEF EMAX
    <3> QED
      BY <1>1, <3>2, PowerSum, Powers
  <2>2. q < p
    BY <1>5
  <2> HIDE DEF p, q, up
  <2>3. x.e <= EMAX - 1 /\ EMAX \in Nat
    BY <1>2, Widths
  <2>4. x.e * p <= (EMAX - 1) * p
    <3>1. ASSUME NEW n \in Nat, NEW m \in Nat, n <= m PROVE n * p <= m * p
      <4>1. m - n \in Nat /\ (m - n) * p \in Nat /\ (m - n) * p = m * p - n * p
        BY <2>1, <3>1
      <4> QED
        BY <2>1, <4>1
    <3>2. EMAX - 1 \in Nat
      BY Widths
    <3> QED
      BY <1>2, <2>3, <3>1, <3>2
  <2>5. (EMAX - 1) * p + 2 * p = (EMAX + 1) * p
    BY <2>1, <2>3
  <2>6. x.e * p \in Nat /\ (EMAX - 1) * p \in Int
    BY <1>2, <2>1, <2>3
  <2>7. sum = x.e * p + q + up
    BY DEF p, up
  <2> HIDE DEF sum
  <2> QED
    BY <1>3, <1>4, <2>1, <2>2, <2>4, <2>5, <2>6, <2>7
<1>7. x.e # EMAX => top = sum
  <2>1. 2^(EB + BM) \in Nat \ {0}
    BY <1>1, Powers
  <2> HIDE DEF q, up, xu
  <2> QED
    BY <1>4, <1>6, <2>1, Division
<1> HIDE DEF sum, top
<1>8. fp32_to_bf16(x) =
        IF x.e = EMAX THEN [s |-> x.s, e |-> EMAX, m |-> IF x.m = 0 THEN 0 ELSE 2^(BM - 1)]
        ELSE IF sum \div 2^BM = EMAX THEN [s |-> x.s, e |-> EMAX, m |-> 0]
        ELSE [s |-> x.s, e |-> sum \div 2^BM, m |-> Low(sum, BM)]
  BY DEF fp32_to_bf16, D, sum
<1>9. xp_fp32_to_bf16(x) =
        IF x.e = EMAX THEN IF x.m = 0 THEN [s |-> x.s, e |-> EMAX, m |-> 0]
                           ELSE [[s |-> x.s, e |-> EMAX, m |-> 0] EXCEPT !.m = 2^(BM - 1)]
        ELSE IF top \div 2^BM = EMAX THEN [s |-> x.s, e |-> EMAX, m |-> 0]
        ELSE [s |-> x.s, e |-> top \div 2^BM, m |-> Low(top, BM)]
  BY DEF xp_fp32_to_bf16, D, top, Where
<1> QED
  BY <1>7, <1>8, <1>9
-----------------------------------------------------------------------------
LEMMA LeastNumber ==
  ASSUME NEW T \in SUBSET Nat, T # {}
  PROVE  \E t \in T : \A u \in T : t <= u
<1> SUFFICES ASSUME \A t \in T : \E u \in T : u < t PROVE FALSE
  OBVIOUS
<1>1. ASSUME NEW n \in Nat, \A m \in Nat : m < n => m \in Nat \ T PROVE n \in Nat \ T
  BY <1>1
<1>2. Nat \ T = Nat
  BY <1>1, NatSets
<1> QED
  BY <1>2

LEMMA HighestPower ==
  ASSUME NEW n \in Nat \ {0}
  PROVE  \E p \in Nat : 2^p <= n /\ n < 2^(p + 1) /\ \A q \in Nat : 2^q <= n /\ n < 2^(q + 1) => q = p
<1> DEFINE T == {p \in Nat : n < 2^(p + 1)}
<1>1. n \in T
  <2> DEFINE S == {m \in Nat : m < 2^m}
  <2>1. ASSUME NEW m \in Nat, \A i \in Nat : i < m => i \in S PROVE m \in S
    <3>1. CASE m = 0
      BY <3>1, Powers
    <3>2. CASE m # 0
      <4>1. m - 1 \in Nat /\ m - 1 \in S /\ (m - 1) + 1 = m
        BY <2>1, <3>2
      <4>2. m - 1 < 2^(m - 1) /\ 2^m = 2 * 2^(m - 1) /\ 2^(m - 1) \in Nat
        BY <4>1, Powers
      <4>3. m < 2^m
        BY <4>1, <4>2
      <4> QED
        BY <4>3
    <3> QED
      BY <3>1, <3>2
  <2>2. S = Nat
    <3>1. S \in SUBSET Nat
      OBVIOUS
    <3> HIDE DEF S
    <3> QED
      BY <2>1, <3>1, NatSets
  <2>3. n < 2^n /\ 2^n < 2^(n + 1)
    <3>1. n + 1 \in Nat /\ n < n + 1 /\ n \in S
      BY <2>2
    <3> QED
      BY <3>1, PowerOrder
  <2>4. 2^n \in Nat /\ 2^(n + 1) \in Nat
    BY Powers
  <2> QED
    BY <2>3, <2>4
<1>2. PICK p \in T : \A u \in T : p <= u
  <2> HIDE DEF T
  <2> QED
    BY <1>1, LeastNumber DEF T
<1>3. p \in Nat /\ n < 2^(p + 1)
  OBVIOUS
<1>4. 2^p <= n
  <2>1. CASE p = 0
    BY <2>1, Powers
  <2>2. CASE p # 0
    <3>1. p - 1 \in Nat /\ ~(p - 1 \in T) /\ (p - 1) + 1 = p
      BY <1>2, <2>2
    <3>2. ~(n < 2^p) /\ 2^p \in Nat
      BY <3>1, Powers
    <3> QED
      BY <3>2
  <2> QED
    BY <2>1, <2>2
<1>5. ASSUME NEW q \in Nat, 2^q <= n, n < 2^(q + 1) PROVE q = p
  <2>1. p <= q
    BY <1>2, <1>5
  <2>2. ~(p < q)
    <3> SUFFICES ASSUME p < q PROVE FALSE
      OBVIOUS
    <3>1. 2^(p + 1) <= 2^q /\ 2^(p + 1) \in Nat /\ 2^q \in Nat
      BY PowerOrder, Powers
    <3> QED
      BY <1>3, <1>5, <3>1
  <2> QED
    BY <2>1, <2>2
<1> QED
  BY <1>3, <1>4, <1>5

(* A recursion over an interval: each value is a function of the one       *)
(* before.                                                                 *)
Iterates(n, D, x, F) ==
  \E f \in [0 .. n -> D] : f[0] = x /\ \A i \in 1 .. n : f[i] = F[i][f[i - 1]]

LEMMA Iteration ==
  ASSUME NEW n \in Nat, NEW D, NEW x \in D, NEW F \in [1 .. n -> [D -> D]]
  PROVE  Iterates(n, D, x, F)
<1> DEFINE Upto(m) == \E f \in [0 .. m -> D] : f[0] = x /\ \A i \in 1 .. m : f[i] = F[i][f[i - 1]]
           S == {m \in Nat : m <= n => Upto(m)}
<1>1. ASSUME NEW m \in Nat, \A l \in Nat : l < m => l \in S PROVE m \in S
  <2> SUFFICES ASSUME m <= n PROVE Upto(m)
    OBVIOUS
  <2>1. CASE m = 0
    <3> DEFINE g == [i \in 0 .. m |-> x]
    <3>1. g \in [0 .. m -> D] /\ g[0] = x /\ 1 .. m = {}
      BY <2>1
    <3> HIDE DEF g
    <3> QED
      BY <3>1
  <2>2. CASE m # 0
    <3>1. m - 1 \in Nat /\ Upto(m - 1)
      <4>1. m - 1 \in Nat /\ m - 1 < m /\ m - 1 <= n
        BY <2>2
      <4> HIDE DEF Upto
      <4> QED
        BY <1>1, <4>1
    <3>2. PICK f \in [0 .. m - 1 -> D] : f[0] = x /\ \A i \in 1 .. m - 1 : f[i] = F[i][f[i - 1]]
      BY <3>1
    <3> DEFINE y == F[m][f[m - 1]]
               g == [i \in 0 .. m |-> IF i = m THEN y ELSE f[i]]
    <3>3. y \in D
      <4>1. m \in 1 .. n /\ m - 1 \in 0 .. m - 1
        BY <2>2, <3>1
      <4>2. F[m] \in [D -> D] /\ f[m - 1] \in D
        BY <4>1
      <4> QED
        BY <4>2
    <3> HIDE DEF y
    <3>4. g \in [0 .. m -> D]
      BY <3>1, <3>3
    <3>5. g[0] = x /\ \A i \in 0 .. m - 1 : g[i] = f[i]
      BY <2>2, <3>1, <3>2
    <3>6. ASSUME NEW i \in 1 .. m PROVE g[i] = F[i][g[i - 1]]
      <4>1. i - 1 \in 0 .. m - 1 /\ g[i - 1] = f[i - 1]
        BY <3>5
      <4>2. CASE i = m
        BY <4>1, <4>2 DEF y
      <4>3. CASE i # m
        <5>1. i \in 1 .. m - 1
          BY <4>3
        <5> QED
          BY <3>2, <4>1, <4>3, <5>1
      <4> QED
        BY <4>2, <4>3
    <3> HIDE DEF g
    <3> QED
      BY <3>4, <3>5, <3>6
  <2> QED
    BY <2>1, <2>2
<1>2. S = Nat
  <2>1. S \in SUBSET Nat
    OBVIOUS
  <2> HIDE DEF S
  <2> QED
    BY <1>1, <2>1, NatSets
<1>3. Upto(n)
  <2> HIDE DEF Upto
  <2> QED
    BY <1>2
<1> QED
  BY <1>3 DEF Iterates

(* What is left to shift once a magnitude has been moved to the top.       *)
LEMMA LeadingZerosAre ==
  ASSUME NEW mag \in Nat \ {0}, mag < 2^(MB + 4)
  PROVE  /\ LeadingZeros(mag) \in 0 .. MB + 3
         /\ mag * 2^LeadingZeros(mag) \in 2^(MB + 3) .. 2^(MB + 4) - 1
         /\ \A t \in Nat : t < LeadingZeros(mag) => mag * 2^t < 2^(MB + 3)
<1> DEFINE P(t) == mag * 2^t \in 2^(MB + 3) .. 2^(MB + 4) - 1
<1>1. MB \in Nat /\ MB + 3 \in Nat /\ MB + 4 \in Nat /\ 2^(MB + 3) \in Nat /\ 2^(MB + 4) = 2 * 2^(MB + 3)
  <2>1. MB \in Nat /\ MB + 3 \in Nat /\ (MB + 3) + 1 = MB + 4
    BY WidthAssumption
  <2> QED
    BY <2>1, Powers
<1>2. PICK p \in Nat : 2^p <= mag /\ mag < 2^(p + 1)
  BY HighestPower
<1>3. p <= MB + 3
  <2> SUFFICES ASSUME MB + 4 <= p PROVE FALSE
    BY <1>1
  <2>1. 2^(MB + 4) <= 2^p /\ 2^p \in Nat
    BY <1>1, PowerOrder, Powers
  <2> QED
    BY <1>1, <1>2, <2>1
<1> DEFINE z == MB + 3 - p
<1>4. z \in 0 .. MB + 3 /\ z \in Nat
  BY <1>1, <1>3
<1>5. 2^(MB + 3) = 2^p * 2^z /\ 2^(MB + 4) = 2^(p + 1) * 2^z /\ 2^p \in Nat /\ 2^(p + 1) \in Nat /\ 2^z \in Nat \ {0}
  <2>1. p + z = MB + 3 /\ (p + 1) + z = MB + 4 /\ p + 1 \in Nat
    BY <1>1
  <2> HIDE DEF z
  <2> QED
    BY <1>4, <2>1, PowerSum, Powers
<1> HIDE DEF z
<1>6. ASSUME NEW q \in Nat, NEW r \in Nat, NEW t \in Nat \ {0}
      PROVE  (q <= r => q * t <= r * t) /\ (q < r => q * t < r * t)
  <2>1. ASSUME q <= r PROVE q * t <= r * t
    <3>1. r - q \in Nat /\ (r - q) * t \in Nat /\ (r - q) * t = r * t - q * t
      BY <2>1
    <3> QED
      BY <3>1
  <2>2. ASSUME q < r PROVE q * t < r * t
    <3>1. r - q \in Nat \ {0} /\ (r - q) * t \in Nat \ {0} /\ (r - q) * t = r * t - q * t
      BY <2>2
    <3> QED
      BY <3>1
  <2> QED
    BY <2>1, <2>2
<1>7. P(z)
  <2>1. 2^p * 2^z <= mag * 2^z /\ mag * 2^z < 2^(p + 1) * 2^z
    BY <1>2, <1>5, <1>6
  <2>2. mag * 2^z \in Nat
    BY <1>5
  <2> QED
    BY <1>1, <1>5, <2>1, <2>2
<1>8. ASSUME NEW t \in Nat, t < z PROVE mag * 2^t < 2^(MB + 3)
  <2>1. 2 * 2^t <= 2^z /\ 2^t \in Nat
    BY <1>4, <1>8, PowerOrder, Powers
  <2>2. (2 * 2^t) * mag <= 2^z * mag
    BY <1>5, <1>6, <2>1
  <2>3. (2 * 2^t) * mag = 2 * (mag * 2^t) /\ 2^z * mag = mag * 2^z /\ mag * 2^t \in Nat /\ mag * 2^z \in Nat
    <3>1. ASSUME NEW q \in Nat PROVE (2 * q) * mag = 2 * (mag * q) /\ q * mag = mag * q /\ mag * q \in Nat
      OBVIOUS
    <3> QED
      BY <1>5, <2>1, <3>1
  <2> QED
    BY <1>1, <1>7, <2>2, <2>3
<1>9. ASSUME NEW t \in 0 .. MB + 4, P(t) PROVE t = z
  <2>1. ~(t < z)
    BY <1>1, <1>8, <1>9
  <2>2. ~(z < t)
    <3> SUFFICES ASSUME z < t PROVE FALSE
      OBVIOUS
    <3>1. t \in Nat /\ 2 * 2^z <= 2^t /\ 2^t \in Nat
      BY <1>1, <1>4, PowerOrder, Powers
    <3>2. (2 * 2^z) * mag <= 2^t * mag
      BY <1>5, <1>6, <3>1
    <3>3. (2 * 2^z) * mag = 2 * (mag * 2^z) /\ 2^t * mag = mag * 2^t
      <4>1. ASSUME NEW q \in Nat PROVE (2 * q) * mag = 2 * (mag * q) /\ q * mag = mag * q
        OBVIOUS
      <4> QED
        BY <1>5, <3>1, <4>1
    <3> QED
      BY <1>1, <1>7, <1>9, <3>2, <3>3
  <2> QED
    BY <1>4, <2>1, <2>2
<1>10. LeadingZeros(mag) = z
  <2>1. LeadingZeros(mag) = CHOOSE t \in 0 .. MB + 4 : P(t)
    BY DEF LeadingZeros
  <2>2. z \in 0 .. MB + 4
    BY <1>1, <1>4
  <2> HIDE DEF P
  <2> QED
    BY <1>7, <1>9, <2>1, <2>2
<1> QED
  BY <1>4, <1>7, <1>8, <1>10

(* The loop of conditional shifts normalises as the golden does.           *)
LEMMA NormStepsAre ==
  ASSUME NEW n \in Nat \ {0}, n < 2^(MB + 5)
  PROVE  LET carry == Bit(n, MB + 4) = 1
             r == NormSteps(Where(carry, n \div 2, n), carry)
         IN  /\ r.mag = Normalised(n).mag
             /\ Where(carry, 1, 0) + r.up = Normalised(n).up
             /\ r.mag \in 2^(MB + 3) .. 2^(MB + 4) - 1
             /\ r.up \in Int
<1> DEFINE carry == Bit(n, MB + 4) = 1
           mag == Where(carry, n \div 2, n)
           z == LeadingZeros(n)
           D == [mag : Nat, up : Int]
           x0 == [mag |-> mag, up |-> 0]
           next(r) == Where(~carry /\ Bit(r.mag, MB + 3) = 0, [mag |-> r.mag * 2, up |-> r.up - 1], r)
           Body(f) == [i \in 0 .. MB + 4 |-> IF i = 0 THEN x0 ELSE next(f[i - 1])]
           F == [i \in 1 .. MB + 4 |-> [r \in D |-> next(r)]]
           h == CHOOSE f : f = Body(f)
<1>1. MB \in Nat /\ MB + 3 \in Nat /\ MB + 4 \in Nat /\ MB + 5 \in Nat /\ (MB + 3) + 1 = MB + 4 /\ (MB + 4) + 1 = MB + 5
  BY WidthAssumption
<1>2. /\ 2^(MB + 3) \in Nat \ {0} /\ 2^(MB + 4) \in Nat \ {0}
      /\ 2^(MB + 4) = 2 * 2^(MB + 3) /\ 2^(MB + 5) = 2 * 2^(MB + 4)
  BY <1>1, Powers
<1>3. Bit(n, MB + 4) \in {0, 1} /\ n \div 2 \in Nat
  <2>1. n \div 2 \in Nat
    OBVIOUS
  <2> QED
    BY <1>1, <2>1, Bits
<1>4. mag \in Nat
  BY <1>3 DEF Where
<1>5. NormSteps(mag, carry) = h[MB + 4]
  BY DEF NormSteps
<1>6. x0 \in D
  BY <1>4
<1>7. F \in [1 .. MB + 4 -> [D -> D]]
  <2>1. ASSUME NEW r \in D PROVE next(r) \in D
    <3>1. r.mag * 2 \in Nat /\ r.up - 1 \in Int
      OBVIOUS
    <3> QED
      BY <3>1 DEF Where
  <2> HIDE DEF D, next
  <2> QED
    BY <2>1
<1> HIDE DEF x0
<1>8. h = Body(h)
  <2>1. PICK f \in [0 .. MB + 4 -> D] : f[0] = x0 /\ \A i \in 1 .. MB + 4 : f[i] = F[i][f[i - 1]]
    <3> DEFINE last == MB + 4
    <3>1. last \in Nat /\ F \in [1 .. last -> [D -> D]]
      BY <1>1, <1>7
    <3> HIDE DEF D, F, last
    <3>2. Iterates(last, D, x0, F)
      BY <1>6, <3>1, Iteration
    <3> QED
      BY <3>2 DEF last, Iterates
  <2>2. \A i \in 1 .. MB + 4 : f[i - 1] \in D /\ F[i][f[i - 1]] = next(f[i - 1])
    <3> SUFFICES ASSUME NEW i \in 1 .. MB + 4 PROVE f[i - 1] \in D /\ F[i][f[i - 1]] = next(f[i - 1])
      OBVIOUS
    <3>1. i - 1 \in 0 .. MB + 4
      BY <1>1
    <3>2. f[i - 1] \in D
      BY <3>1
    <3> HIDE DEF next, D
    <3> QED
      BY <3>2
  <2>3. f = Body(f)
    <3> HIDE DEF next, D, F
    <3>1. \A i \in 0 .. MB + 4 : f[i] = IF i = 0 THEN x0 ELSE next(f[i - 1])
      BY <1>1, <2>1, <2>2
    <3> QED
      BY <3>1
  <2> HIDE DEF Body
  <2> QED
    BY <2>3
<1>9. h[0] = x0 /\ \A i \in 1 .. MB + 4 : h[i] = next(h[i - 1])
  <2> HIDE DEF h, next
  <2> QED
    BY <1>1, <1>8
<1> HIDE DEF h
<1>10. CASE carry
  <2>1. mag = n \div 2 /\ Normalised(n) = [mag |-> n \div 2, up |-> 1]
    BY <1>10 DEF Where, Normalised
  <2>2. n \div 2 \in 2^(MB + 3) .. 2^(MB + 4) - 1
    <3> DEFINE p == 2^(MB + 3)
    <3>1. n >= 2^(MB + 4)
      <4> SUFFICES ASSUME n < 2^(MB + 4) PROVE FALSE
        BY <1>2
      <4>1. n \div 2^(MB + 4) = 0 /\ 0 % 2 = 0
        <5> DEFINE w == 2^(MB + 4)
        <5>1. w \in Nat \ {0} /\ n < w /\ n \in Nat
          BY <1>2
        <5> HIDE DEF w
        <5>2. n \div w = 0
          BY <5>1, Division
        <5> QED
          BY <5>2 DEF w
      <4> QED
        BY <1>10, <4>1 DEF Bit
    <3>2. n >= 2 * p /\ n < 2 * (2 * p) /\ p \in Nat
      BY <1>2, <3>1
    <3> HIDE DEF p
    <3>3. n \div 2 \in p .. 2 * p - 1
      BY <3>2
    <3> QED
      BY <1>2, <3>3 DEF p
  <2>3. \A i \in 0 .. MB + 4 : h[i] = x0
    <3> DEFINE S == {i \in Nat : i <= MB + 4 => h[i] = x0}
    <3>1. ASSUME NEW i \in Nat, \A l \in Nat : l < i => l \in S PROVE i \in S
      <4>1. CASE i = 0
        BY <1>9, <4>1
      <4>2. CASE i # 0 /\ i <= MB + 4
        <5>1. i - 1 \in Nat /\ h[i - 1] = x0 /\ i \in 1 .. MB + 4
          BY <1>1, <3>1, <4>2
        <5> QED
          BY <1>9, <1>10, <5>1 DEF Where
      <4> QED
        BY <4>1, <4>2
    <3>2. S = Nat
      <4>1. S \in SUBSET Nat
        OBVIOUS
      <4> HIDE DEF S
      <4> QED
        BY <3>1, <4>1, NatSets
    <3> QED
      BY <1>1, <3>2
  <2>4. NormSteps(mag, carry) = x0
    BY <1>1, <1>5, <2>3
  <2>5. x0.mag = n \div 2 /\ x0.up = 0
    BY <2>1 DEF x0
  <2> HIDE DEF mag
  <2> QED
    BY <1>10, <2>1, <2>2, <2>4, <2>5 DEF Where, mag
<1>11. CASE ~carry
  <2>1. mag = n /\ Normalised(n) = [mag |-> n * 2^z, up |-> 0 - z]
    BY <1>11 DEF Where, Normalised
  <2>2. n < 2^(MB + 4)
    <3> SUFFICES ASSUME n >= 2^(MB + 4) PROVE FALSE
      BY <1>2
    <3>1. n \div 2^(MB + 4) >= 1 /\ n \div 2^(MB + 4) < 2 /\ n \div 2^(MB + 4) \in Nat
      <4> DEFINE q == 2^(MB + 4)
      <4>1. q * 1 = q /\ q * 2 = 2 * q /\ q \in Nat \ {0}
        BY <1>2
      <4>2. q * 1 <= n /\ n < q * 2
        BY <1>2, <4>1
      <4> HIDE DEF q
      <4> QED
        BY <4>1, <4>2, Quotients, Division DEF q
    <3>2. n \div 2^(MB + 4) = 1 /\ 1 % 2 = 1
      BY <3>1
    <3> QED
      BY <1>11, <3>2 DEF Bit
  <2>3. /\ z \in 0 .. MB + 3
        /\ n * 2^z \in 2^(MB + 3) .. 2^(MB + 4) - 1
        /\ \A t \in Nat : t < z => n * 2^t < 2^(MB + 3)
    BY <2>2, LeadingZerosAre
  <2> HIDE DEF z
  <2>4. ASSUME NEW t \in Nat
        PROVE  /\ n * 2^t \in Nat
               /\ t < z => Bit(n * 2^t, MB + 3) = 0
               /\ t = z => Bit(n * 2^t, MB + 3) = 1
    <3>1. n * 2^t \in Nat
      BY Powers
    <3>2. ASSUME t < z PROVE Bit(n * 2^t, MB + 3) = 0
      <4>1. (n * 2^t) \div 2^(MB + 3) = 0 /\ 0 % 2 = 0
        <5> DEFINE q == n * 2^t
                   p == 2^(MB + 3)
        <5>1. q \in Nat /\ q < p /\ p \in Nat \ {0}
          BY <1>2, <2>3, <3>1, <3>2
        <5> HIDE DEF p, q
        <5>2. q \div p = 0
          BY <5>1, Division
        <5> QED
          BY <5>2 DEF p, q
      <4> QED
        BY <4>1 DEF Bit
    <3>3. ASSUME t = z PROVE Bit(n * 2^t, MB + 3) = 1
      <4> DEFINE q == n * 2^t
                 p == 2^(MB + 3)
      <4>1. q \in Nat /\ p \in Nat \ {0} /\ p * 1 = p /\ p * 2 = 2 * p
        BY <1>2, <3>1
      <4>2. p * 1 <= q /\ q < p * 2
        BY <1>2, <2>3, <3>3, <4>1
      <4> HIDE DEF p, q
      <4>3. q \div p >= 1 /\ q \div p < 2 /\ q \div p \in Nat
        BY <4>1, <4>2, Quotients, Division
      <4>4. q \div p = 1 /\ 1 % 2 = 1
        BY <4>3
      <4> QED
        BY <4>4 DEF Bit, p, q
    <3> QED
      BY <3>1, <3>2, <3>3
  <2> DEFINE w(i) == IF i < z THEN i ELSE z
  <2>5. \A i \in 0 .. MB + 4 : h[i] = [mag |-> n * 2^w(i), up |-> 0 - w(i)]
    <3> DEFINE S == {i \in Nat : i <= MB + 4 => h[i] = [mag |-> n * 2^w(i), up |-> 0 - w(i)]}
    <3>1. ASSUME NEW i \in Nat, \A l \in Nat : l < i => l \in S PROVE i \in S
      <4>1. CASE i = 0
        <5>1. w(0) = 0 /\ 2^0 = 1 /\ n * 1 = n /\ 0 - 0 = 0
          BY <2>3, Powers
        <5>2. x0 = [mag |-> n * 2^w(0), up |-> 0 - w(0)]
          BY <2>1, <5>1 DEF x0
        <5> HIDE DEF w
        <5> QED
          BY <1>9, <4>1, <5>2
      <4>2. CASE i # 0 /\ i <= MB + 4
        <5> DEFINE v == w(i - 1)
        <5>1. i - 1 \in Nat /\ i - 1 < i /\ i - 1 <= MB + 4 /\ i \in 1 .. MB + 4
          BY <1>1, <4>2
        <5>2. h[i - 1] = [mag |-> n * 2^v, up |-> 0 - v]
          <6> HIDE DEF w
          <6> QED
            BY <3>1, <5>1
        <5>3. h[i] = next(h[i - 1])
          BY <1>9, <5>1
        <5>4. v \in Nat /\ v <= z /\ w(i) = IF v < z THEN v + 1 ELSE v
          BY <2>3, <5>1
        <5>5. n * 2^(v + 1) = (n * 2^v) * 2 /\ 0 - (v + 1) = (0 - v) - 1
          <6> HIDE DEF v
          <6>1. 2^(v + 1) = 2 * 2^v /\ 2^v \in Nat
            BY <5>4, Powers
          <6>2. ASSUME NEW p \in Nat PROVE n * (2 * p) = (n * p) * 2
            OBVIOUS
          <6> QED
            BY <5>4, <6>1, <6>2
        <5> HIDE DEF v, w
        <5>6. CASE v < z
          <6>1. h[i] = [mag |-> (n * 2^v) * 2, up |-> (0 - v) - 1]
            BY <1>11, <2>4, <5>2, <5>3, <5>4, <5>6 DEF Where
          <6> QED
            BY <5>4, <5>5, <5>6, <6>1
        <5>7. CASE ~(v < z)
          <6>1. v = z
            BY <2>3, <5>4, <5>7
          <6>2. h[i] = h[i - 1]
            <7> DEFINE e == h[i - 1]
                       y == n * 2^v
            <7>1. e.mag = y
              BY <5>2
            <7>2. Bit(y, MB + 3) = 1
              BY <2>4, <5>4, <6>1
            <7> HIDE DEF y, e
            <7>3. ~(Bit(e.mag, MB + 3) = 0)
              BY <7>1, <7>2
            <7>4. next(e) = e
              BY <7>3 DEF Where
            <7> QED
              BY <5>3, <7>4 DEF e
          <6> QED
            BY <5>2, <5>4, <5>7, <6>2
        <5> QED
          BY <5>6, <5>7
      <4> QED
        BY <4>1, <4>2
    <3>2. S = Nat
      <4>1. S \in SUBSET Nat
        OBVIOUS
      <4> HIDE DEF S
      <4> QED
        BY <3>1, <4>1, NatSets
    <3> HIDE DEF w
    <3> QED
      BY <1>1, <3>2
  <2>6. w(MB + 4) = z
    BY <1>1, <2>3
  <2>7. NormSteps(mag, carry) = [mag |-> n * 2^z, up |-> 0 - z]
    <3> HIDE DEF w
    <3> QED
      BY <1>1, <1>5, <2>5, <2>6
  <2>8. Where(carry, 1, 0) = 0 /\ 0 + (0 - z) = 0 - z /\ 0 - z \in Int
    BY <1>11, <2>3 DEF Where
  <2> HIDE DEF mag
  <2> QED
    BY <1>1, <2>1, <2>3, <2>7, <2>8 DEF mag
<1> QED
  BY <1>10, <1>11

LEMMA AlignedIs ==
  ASSUME NEW sig \in Nat, sig < 2^(MB + 1), NEW n \in Nat
  PROVE  LET full == sig * 8
             shc == Where(n > ShiftClamp, ShiftClamp, n)
             ms == full \div 2^shc
             stk == n > 3 /\ Low(full, shc) # 0
         IN  /\ Where(n >= MB + 4, 1, Where(stk, 2 * (ms \div 2) + 1, ms)) = Aligned(sig, n)
             /\ Aligned(sig, n) \in Nat /\ Aligned(sig, n) < 2^(MB + 4)
<1> DEFINE full == sig * 8
           kept == full \div 2^n
<1>1. /\ MB \in Nat /\ full \in Nat /\ 2^n \in Nat \ {0}
      /\ 2^(MB + 4) \in Nat /\ full < 2^(MB + 4) /\ 1 < 2^(MB + 4)
  <2>1. MB \in Nat /\ MB + 1 \in Nat /\ MB + 2 \in Nat /\ MB + 3 \in Nat /\ MB + 4 \in Nat
        /\ (MB + 1) + 1 = MB + 2 /\ (MB + 2) + 1 = MB + 3 /\ (MB + 3) + 1 = MB + 4
    BY WidthAssumption
  <2>2. 2^(MB + 2) = 2 * 2^(MB + 1) /\ 2^(MB + 3) = 2 * 2^(MB + 2) /\ 2^(MB + 4) = 2 * 2^(MB + 3)
        /\ 2^(MB + 1) \in Nat \ {0} /\ 2^(MB + 2) \in Nat /\ 2^(MB + 3) \in Nat /\ 2^(MB + 4) \in Nat
    BY <2>1, Powers
  <2> QED
    BY <2>1, <2>2, Powers
<1>2. kept \in Nat /\ Low(full, n) \in Nat /\ full = 2^n * kept + Low(full, n)
  BY <1>1, Bits
<1>3. kept <= full
  <2>1. ASSUME NEW p \in Nat \ {0}, NEW q \in Nat PROVE q <= p * q
    OBVIOUS
  <2> HIDE DEF kept, full
  <2>2. kept <= 2^n * kept /\ 2^n * kept \in Nat
    BY <1>1, <1>2, <2>1
  <2> QED
    BY <1>2, <2>2
<1>4. Bit(kept, 0) = kept % 2
  <2>1. 2^0 = 1 /\ kept \div 1 = kept
    BY <1>2, Powers
  <2> QED
    BY <2>1 DEF Bit
<1> HIDE DEF kept
<1>5. kept + Flag(Bit(kept, 0) = 0) = 2 * (kept \div 2) + 1
  <2>1. ASSUME NEW q \in Nat PROVE (q % 2 = 0 => q + 1 = 2 * (q \div 2) + 1) /\ (q % 2 # 0 => q = 2 * (q \div 2) + 1)
    OBVIOUS
  <2>2. Flag(Bit(kept, 0) = 0) = IF kept % 2 = 0 THEN 1 ELSE 0
    BY <1>4 DEF Flag
  <2> QED
    BY <1>2, <2>1, <2>2
<1>6. CASE n >= MB + 4
  BY <1>1, <1>6 DEF Where, Aligned
<1>7. CASE ~(n >= MB + 4)
  <2>1. Where(n > ShiftClamp, ShiftClamp, n) = n
    BY <1>1, <1>7 DEF Where, ShiftClamp
  <2>2. CASE n > 3 /\ Low(full, n) # 0
    <3>1. Aligned(sig, n) = kept + Flag(Bit(kept, 0) = 0)
      BY <1>7, <2>2 DEF Aligned, kept
    <3>2. kept < full
      <4>1. n - 1 \in Nat /\ (n - 1) + 1 = n
        BY <2>2
      <4>2. 2^n = 2 * 2^(n - 1) /\ 2^(n - 1) \in Nat \ {0}
        BY <4>1, Powers
      <4>3. ASSUME NEW p \in Nat \ {0}, NEW q \in Nat PROVE q <= (2 * p) * q
        <5>1. (2 * p) * q = p * (2 * q) /\ p * q >= q /\ p * (2 * q) = 2 * (p * q)
          OBVIOUS
        <5> QED
          BY <5>1
      <4>4. kept <= 2^n * kept /\ 2^n * kept \in Nat
        BY <1>1, <1>2, <4>2, <4>3
      <4> HIDE DEF full
      <4> QED
        BY <1>1, <1>2, <2>2, <4>4
    <3> HIDE DEF full
    <3>3. Flag(Bit(kept, 0) = 0) \in {0, 1}
      BY DEF Flag
    <3>4. Aligned(sig, n) \in Nat /\ Aligned(sig, n) < 2^(MB + 4)
      BY <1>1, <1>2, <3>1, <3>2, <3>3
    <3> QED
      BY <1>5, <1>7, <2>1, <2>2, <3>1, <3>4 DEF Where, kept, full
  <2>3. CASE ~(n > 3 /\ Low(full, n) # 0)
    <3>1. Aligned(sig, n) = kept
      BY <1>7, <2>3 DEF Aligned, kept
    <3>2. Aligned(sig, n) \in Nat /\ Aligned(sig, n) < 2^(MB + 4)
      <4> HIDE DEF full
      <4> QED
        BY <1>1, <1>2, <1>3, <3>1
    <3> QED
      BY <1>7, <2>1, <2>3, <3>1, <3>2 DEF Where, kept
  <2> QED
    BY <2>2, <2>3
<1> QED
  BY <1>6, <1>7

(* The rounding bits of a normalised magnitude.                            *)
LEMMA RoundingOf ==
  ASSUME NEW n \in 2^(MB + 3) .. 2^(MB + 4) - 1
  PROVE  /\ (n \div 8) % (2 * Hidden) = n \div 8 /\ n \div 8 \in Nat
         /\ (Bit(n, 1) = 1 \/ Bit(n, 0) = 1) <=> Low(n, 2) # 0
<1>1. /\ MB \in Nat /\ 2^(MB + 3) \in Nat /\ 2^(MB + 4) = 8 * (2 * Hidden) /\ 2 * Hidden \in Nat \ {0}
      /\ 2^0 = 1 /\ 2^1 = 2 /\ 2^2 = 4
  <2>1. MB \in Nat /\ MB + 1 \in Nat /\ MB + 2 \in Nat /\ MB + 3 \in Nat
        /\ (MB + 1) + 1 = MB + 2 /\ (MB + 2) + 1 = MB + 3 /\ (MB + 3) + 1 = MB + 4
    BY WidthAssumption
  <2>2. 2^(MB + 1) = 2 * 2^MB /\ 2^(MB + 2) = 2 * 2^(MB + 1) /\ 2^(MB + 3) = 2 * 2^(MB + 2)
        /\ 2^(MB + 4) = 2 * 2^(MB + 3)
        /\ 2^MB \in Nat \ {0} /\ 2^(MB + 1) \in Nat /\ 2^(MB + 2) \in Nat /\ 2^(MB + 3) \in Nat
    BY <2>1, Powers
  <2>3. 2^0 = 1 /\ 2^1 = 2 /\ 2^2 = 4
    OBVIOUS
  <2> QED
    BY <2>1, <2>2, <2>3 DEF Hidden
<1>2. n \in Nat /\ n < 8 * (2 * Hidden)
  BY <1>1
<1> DEFINE h == 2 * Hidden
           q == n \div 8
<1>3. q \in Nat /\ q < h /\ h \in Nat \ {0}
  BY <1>1, <1>2
<1>4. q % h = q
  <2> HIDE DEF q, h
  <2> QED
    BY <1>3, Division
<1>5. Bit(n, 1) = (n \div 2) % 2 /\ Bit(n, 0) = (n \div 1) % 2 /\ Low(n, 2) = n % 4
  BY <1>1 DEF Bit, Low
<1>6. ((n \div 2) % 2 = 1 \/ (n \div 1) % 2 = 1) <=> n % 4 # 0
  BY <1>2
<1> QED
  BY <1>3, <1>4, <1>5, <1>6

LEMMA AddFiniteIsGolden ==
  ASSUME NEW x \in Float, NEW y \in Float
  PROVE  xp_add_finite(x, y) = AddFinite(x, y)
<1> DEFINE big   == IF x.e >= y.e THEN x ELSE y
           small == IF x.e >= y.e THEN y ELSE x
           shamt == big.e - small.e
           shc   == Where(shamt > ShiftClamp, ShiftClamp, shamt)
           full  == Sig(small) * 8
           lane  == Where(shamt >= MB + 4, 1,
                          Where(shamt > 3 /\ Low(full, shc) # 0,
                                2 * ((full \div 2^shc) \div 2) + 1, full \div 2^shc))
           mse   == Aligned(Sig(small), shamt)
           mbe   == Sig(big) * 8
           sum   == IF big.s = small.s THEN mbe + mse ELSE IF mbe >= mse THEN mbe - mse ELSE mse - mbe
           sign  == IF big.s = small.s \/ mbe >= mse THEN big.s ELSE small.s
           carry == Bit(sum, MB + 4) = 1
           n     == NormSteps(Where(carry, sum \div 2, sum), carry)
           g     == Normalised(sum)
           mant  == (n.mag \div 8) % (2 * Hidden)
           up    == RoundUp(Bit(n.mag, 2), Bit(n.mag, 1) = 1 \/ Bit(n.mag, 0) = 1, mant)
<1>1. big \in Float /\ small \in Float /\ shamt \in Nat
  BY Fields, Widths
<1>2. MB \in Nat /\ 2^(MB + 1) = 2 * Hidden /\ 2^(MB + 4) = 8 * (2 * Hidden) /\ 2^(MB + 5) = 2 * 2^(MB + 4) /\ Hidden \in Nat
  <2>1. MB \in Nat /\ MB + 1 \in Nat /\ MB + 2 \in Nat /\ MB + 3 \in Nat /\ MB + 4 \in Nat
        /\ (MB + 1) + 1 = MB + 2 /\ (MB + 2) + 1 = MB + 3 /\ (MB + 3) + 1 = MB + 4 /\ (MB + 4) + 1 = MB + 5
    BY WidthAssumption
  <2>2. 2^(MB + 1) = 2 * 2^MB /\ 2^(MB + 2) = 2 * 2^(MB + 1) /\ 2^(MB + 3) = 2 * 2^(MB + 2)
        /\ 2^(MB + 4) = 2 * 2^(MB + 3) /\ 2^(MB + 5) = 2 * 2^(MB + 4)
        /\ 2^MB \in Nat \ {0} /\ 2^(MB + 1) \in Nat /\ 2^(MB + 2) \in Nat /\ 2^(MB + 3) \in Nat
    BY <2>1, Powers
  <2> QED
    BY <2>1, <2>2 DEF Hidden
<1> HIDE DEF big, small
<1>3. Sig(small) \in Nat /\ Sig(small) < 2^(MB + 1)
  BY <1>1, <1>2, Fields
<1>4. lane = mse /\ mse \in Nat /\ mse < 2^(MB + 4)
  <2> HIDE DEF shamt
  <2> QED
    BY <1>1, <1>3, AlignedIs
<1>5. mbe \in Nat /\ mbe < 2^(MB + 4)
  BY <1>1, <1>2, Fields
<1> HIDE DEF mse, mbe, lane, shamt, full
<1>6. sum \in Nat /\ sum < 2^(MB + 5)
  BY <1>2, <1>4, <1>5
<1>7. AddFinite(x, y) = IF sum = 0 THEN Zero(0)
                        ELSE Pack(sign, big.e + g.up, g.mag \div 8,
                                  RoundUp(Bit(g.mag, 2), Low(g.mag, 2) # 0, g.mag \div 8))
  BY DEF AddFinite, big, small, mse, mbe, shamt
<1> DEFINE lsum == Where(big.s = small.s, mbe + lane, Where(mbe >= lane, mbe - lane, lane - mbe))
           lsign == Where(big.s = small.s, big.s, Where(mbe >= lane, big.s, small.s))
           lcarry == Bit(lsum, MB + 4) = 1
           ln == NormSteps(Where(lcarry, lsum \div 2, lsum), lcarry)
           lmant == (ln.mag \div 8) % (2 * Hidden)
           lup == RoundUp(Bit(ln.mag, 2), Bit(ln.mag, 1) = 1 \/ Bit(ln.mag, 0) = 1, lmant)
<1>8. lsum = sum /\ lsign = sign
  <2>1. CASE big.s = small.s
    BY <1>4, <2>1, Zenon DEF Where
  <2>2. CASE big.s # small.s /\ mbe >= mse
    BY <1>4, <2>2, Zenon DEF Where
  <2>3. CASE big.s # small.s /\ ~(mbe >= mse)
    BY <1>4, <2>3, Zenon DEF Where
  <2> QED
    BY <2>1, <2>2, <2>3, Zenon
<1>9. CASE sum = 0
  <2>1. AddFinite(x, y) = Zero(0)
    BY <1>7, <1>9
  <2>2. Where(lsum = 0, Zero(0), xp_pack(lsign, big.e + Where(lcarry, 1, 0) + ln.up, lmant, lup)) = AddFinite(x, y)
    <3> HIDE DEF lsum, sum, lsign, ln, lmant, lup, sign
    <3> QED
      BY <1>9, <1>8, <2>1 DEF Where
  <2> QED
    BY <2>2, Zenon DEF xp_add_finite, Where, big, small, mbe, shamt, full, lane
<1>10. CASE sum # 0
  <2>1. /\ n.mag = g.mag /\ Where(carry, 1, 0) + n.up = g.up
        /\ n.mag \in 2^(MB + 3) .. 2^(MB + 4) - 1 /\ n.up \in Int
    <3> HIDE DEF sum
    <3>1. sum \in Nat \ {0} /\ sum < 2^(MB + 5)
      BY <1>6, <1>10
    <3> QED
      BY <3>1, NormStepsAre
  <2>2. mant = g.mag \div 8 /\ mant \in Nat
        /\ up = RoundUp(Bit(g.mag, 2), Low(g.mag, 2) # 0, g.mag \div 8) /\ up \in {0, 1}
    <3> HIDE DEF n, g
    <3>1. mant = n.mag \div 8 /\ mant \in Nat /\ ((Bit(n.mag, 1) = 1 \/ Bit(n.mag, 0) = 1) <=> Low(n.mag, 2) # 0)
      BY <2>1, RoundingOf
    <3> HIDE DEF mant
    <3> QED
      BY <2>1, <3>1 DEF RoundUp, Flag
  <2> DEFINE exp == big.e + Where(carry, 1, 0) + n.up
  <2>3. exp = big.e + g.up /\ exp \in Int
    <3>1. Where(carry, 1, 0) \in Int /\ big.e \in Int
      BY <1>1, Fields DEF Where
    <3> HIDE DEF n, g, sum
    <3> QED
      BY <2>1, <3>1
  <2>4. xp_pack(sign, exp, mant, up) = Pack(sign, exp, mant, up)
    <3> HIDE DEF sign, exp, mant, up
    <3> QED
      BY <2>2, <2>3, Packings
  <2>5. AddFinite(x, y) = xp_pack(sign, exp, mant, up)
    <3> HIDE DEF sign, exp, mant, up, n, g, sum
    <3> QED
      BY <1>7, <1>10, <2>2, <2>3, <2>4
  <2>7. xp_pack(sign, exp, mant, up) = xp_pack(lsign, big.e + Where(lcarry, 1, 0) + ln.up, lmant, lup)
    <3> HIDE DEF sum, sign, lsum, lsign
    <3> QED
      BY <1>8
  <2>8. Where(lsum = 0, Zero(0), xp_pack(lsign, big.e + Where(lcarry, 1, 0) + ln.up, lmant, lup)) = AddFinite(x, y)
    <3> HIDE DEF lsum, sum, lsign, ln, lmant, lup, exp, mant, up, sign
    <3> QED
      BY <1>10, <1>8, <2>5, <2>7 DEF Where
  <2> QED
    BY <2>8 DEF xp_add_finite, Where, big, small, mbe, shamt, full, lane
<1> QED
  BY <1>9, <1>10

LEMMA AddIsGolden ==
  ASSUME NEW x \in Float, NEW y \in Float
  PROVE  xp_fp32_add(x, y) = fp32_add(x, y)
<1> DEFINE base == xp_add_finite(x, y)
           o     == << Choice(is_zero(x) /\ is_zero(y), Zero(Flag(x.s = 1 /\ y.s = 1))),
                       Choice(is_zero(x) /\ ~is_zero(y), y),
                       Choice(is_zero(y) /\ ~is_zero(x), x),
                       Choice(is_inf(x) /\ is_inf(y), Where(x.s = y.s, Inf(x.s), QNaN)),
                       Choice(is_inf(x) /\ ~is_inf(y), Inf(x.s)),
                       Choice(is_inf(y) /\ ~is_inf(x), Inf(y.s)),
                       Choice(is_nan(x) \/ is_nan(y), QNaN) >>
<1>1. base = AddFinite(x, y)
  BY AddFiniteIsGolden
<1>2. xp_fp32_add(x, y) = LastWins(base, o)
  BY DEF xp_fp32_add
<1>3. DOMAIN o = 1 .. 7
  OBVIOUS
<1>4. /\ (o[1].when <=> is_zero(x) /\ is_zero(y)) /\ o[1].val = Zero(Flag(x.s = 1 /\ y.s = 1))
      /\ (o[2].when <=> is_zero(x) /\ ~is_zero(y)) /\ o[2].val = y
      /\ (o[3].when <=> is_zero(y) /\ ~is_zero(x)) /\ o[3].val = x
      /\ (o[4].when <=> is_inf(x) /\ is_inf(y)) /\ o[4].val = IF x.s = y.s THEN Inf(x.s) ELSE QNaN
      /\ (o[5].when <=> is_inf(x) /\ ~is_inf(y)) /\ o[5].val = Inf(x.s)
      /\ (o[6].when <=> is_inf(y) /\ ~is_inf(x)) /\ o[6].val = Inf(y.s)
      /\ (o[7].when <=> is_nan(x) \/ is_nan(y)) /\ o[7].val = QNaN
  BY DEF Choice, Where
<1> HIDE DEF base, o
<1>5. LastWins(base, o) = IF o[7].when THEN o[7].val ELSE IF o[6].when THEN o[6].val
                          ELSE IF o[5].when THEN o[5].val ELSE IF o[4].when THEN o[4].val
                          ELSE IF o[3].when THEN o[3].val ELSE IF o[2].when THEN o[2].val
                          ELSE IF o[1].when THEN o[1].val ELSE base
  BY <1>3, SevenOverrides
<1>6. ~(is_zero(x) /\ is_inf(x)) /\ ~(is_zero(y) /\ is_inf(y))
  BY Widths DEF is_zero, is_inf
<1> QED
  BY <1>1, <1>2, <1>4, <1>5, <1>6 DEF fp32_add
-----------------------------------------------------------------------------
(* E4M3 codes.                                                             *)
LEMMA SmallPowers ==
  2^0 = 1 /\ 2^1 = 2 /\ 2^2 = 4 /\ 2^3 = 8 /\ 2^4 = 16 /\ 2^5 = 32
  OBVIOUS

LEMMA EncodeIsGolden ==
  ASSUME NEW x \in Float
  PROVE  /\ xp_fp32_to_fp8e4m3(x) = fp32_to_fp8e4m3(x)
         /\ gen_fp32_to_fp8e4m3(x) = fp32_to_fp8e4m3(x)
<1> DEFINE E   == x.e - BIAS
           q3  == x.m \div 2^(MB - 3)
           up3 == RoundUp(Bit(x.m, MB - 4), Low(x.m, MB - 4) # 0, q3)
           r   == q3 + up3
           ce(i) == MB - 9 - i
           qs(i) == Sig(x) \div 2^ce(i)
           us(i) == RoundUp(Bit(Sig(x), ce(i) - 1), Low(Sig(x), ce(i) - 1) # 0, qs(i))
<1>1. MB \in Nat /\ MB >= 7 /\ MB - 3 \in Nat /\ MB - 4 \in Nat /\ MB - 3 - 1 = MB - 4 /\ E \in Int
  BY CodecAssumption, WidthAssumption, Fields, Widths
<1>2. x.m \in Nat /\ x.m < 2^MB /\ x.e \in Nat /\ x.e <= EMAX
  BY Fields, Widths DEF Hidden
<1>3. q3 \in Nat /\ q3 < 8
  <2>1. (MB - 3) + 3 = MB /\ 3 \in Nat
    BY <1>1
  <2>2. q3 < 2^3
    BY <1>1, <1>2, <2>1, BelowPower
  <2> QED
    BY <1>1, <1>2, <2>2, Bits, SmallPowers
<1>4. up3 \in {0, 1} /\ Bit(q3, 0) = q3 % 2 /\ q3 % 8 = q3
  <2>1. Bit(q3, 0) = (q3 \div 1) % 2
    BY SmallPowers DEF Bit
  <2> QED
    BY <1>3, <2>1 DEF RoundUp, Flag
<1>5. r \in 0 .. 8 /\ r \div 8 = (IF r >= 8 THEN 1 ELSE 0) /\ r % 8 = IF r >= 8 THEN 0 ELSE r
  <2>1. r \in 0 .. 8
    BY <1>3, <1>4
  <2> HIDE DEF r
  <2> QED
    BY <2>1
<1>6. ASSUME NEW i \in -10 .. -7
      PROVE  /\ ce(i) \in Nat /\ ce(i) - 1 \in Nat
             /\ qs(i) \in Nat /\ qs(i) < 8 /\ qs(i) % 8 = qs(i) /\ Bit(qs(i), 0) = qs(i) % 2
             /\ us(i) \in {0, 1} /\ qs(i) + us(i) \in 0 .. 8
  <2>1. ce(i) \in Nat /\ ce(i) - 1 \in Nat
    BY <1>1
  <2>2. Sig(x) \in Nat /\ Sig(x) < 2^(MB + 1) /\ 2^(MB + 1) <= 2^(ce(i) + 3)
    <3>1. 2^(MB + 1) = 2 * 2^MB
      BY <1>1, Powers
    <3>2. MB + 1 \in Nat /\ ce(i) + 3 \in Nat /\ MB + 1 <= ce(i) + 3
      BY <1>1
    <3>3. 2^(MB + 1) <= 2^(ce(i) + 3)
      BY <3>2, PowerOrder
    <3> QED
      BY <3>1, <3>3, Fields DEF Hidden
  <2>3. 2^(MB + 1) \in Nat /\ 2^(ce(i) + 3) \in Nat
    BY <1>1, <2>1, Powers
  <2>4. Sig(x) < 2^(ce(i) + 3)
    BY <2>2, <2>3
  <2> HIDE DEF ce
  <2>5. qs(i) < 2^3 /\ qs(i) \in Nat
    BY <2>1, <2>2, <2>4, BelowPower, Bits
  <2>6. qs(i) < 8
    BY <2>5, SmallPowers
  <2>7. Bit(qs(i), 0) = (qs(i) \div 1) % 2
    BY SmallPowers DEF Bit
  <2>8. us(i) \in {0, 1}
    BY DEF RoundUp, Flag
  <2> HIDE DEF qs, us
  <2> QED
    BY <2>1, <2>5, <2>6, <2>7, <2>8
<1> DEFINE e8  == IF r >= 8 THEN E + 8 ELSE E + 7
           m8  == IF r >= 8 THEN 0 ELSE r
           nor == IF e8 > 15 \/ (e8 = 15 /\ m8 = 7) THEN CodeMax(x.s) ELSE [s |-> x.s, e |-> e8, m |-> m8]
           q   == qs(E) + us(E)
           sub == IF q = 0 THEN CodeZero(x.s) ELSE IF q = 8 THEN [s |-> x.s, e |-> 1, m |-> 0]
                  ELSE [s |-> x.s, e |-> 0, m |-> q]
           code == IF is_nan(x) THEN CodeNaN(x.s) ELSE IF is_inf(x) THEN CodeMax(x.s)
                   ELSE IF is_zero(x) THEN CodeZero(x.s)
                   ELSE IF E >= -6 THEN nor ELSE IF E <= -11 THEN CodeZero(x.s) ELSE sub
<1>7. EncodeNormal(x.s, E, x.m) = nor
  <2>1. E + 7 + r \div 8 = e8 /\ r % 8 = m8
    BY <1>1, <1>5
  <2>2. EncodeNormal(x.s, E, x.m) =
          IF E + 7 + r \div 8 > 15 \/ (E + 7 + r \div 8 = 15 /\ r % 8 = 7) THEN CodeMax(x.s)
          ELSE [s |-> x.s, e |-> E + 7 + r \div 8, m |-> r % 8]
    BY <1>1 DEF EncodeNormal
  <2> HIDE DEF e8, m8, r
  <2> QED
    BY <2>1, <2>2
<1>8. ASSUME E \in -10 .. -7 PROVE EncodeSubnormal(x.s, E, Sig(x)) = sub
  <2>1. EncodeSubnormal(x.s, E, Sig(x)) = [s |-> x.s, e |-> q \div 8, m |-> q % 8]
    BY DEF EncodeSubnormal
  <2>2. q \in 0 .. 8
    BY <1>6, <1>8
  <2> HIDE DEF q
  <2>3. q \div 8 = (IF q = 8 THEN 1 ELSE 0) /\ q % 8 = IF q = 8 THEN 0 ELSE q
    BY <2>2
  <2> QED
    BY <2>1, <2>3 DEF CodeZero
<1>9. fp32_to_fp8e4m3(x) = code
  <2> HIDE DEF nor, sub
  <2> QED
    BY <1>1, <1>7, <1>8 DEF fp32_to_fp8e4m3, is_nan, is_inf, is_zero
<1>10. xp_fp32_to_fp8e4m3(x) = code
  <2> DEFINE xn == Where(Where(r >= 8, E + 8, E + 7) > 15 \/ (Where(r >= 8, E + 8, E + 7) = 15 /\ Where(r >= 8, 0, r) = 7),
                         CodeMax(x.s), [s |-> x.s, e |-> Where(r >= 8, E + 8, E + 7) % 16, m |-> Where(r >= 8, 0, r)])
             cut == Where(E = -7, MB - 2, Where(E = -8, MB - 1, Where(E = -9, MB, MB + 1)))
             qint == (Sig(x) \div 2 ^ cut) % 8
             xq == qint + RoundUp(Bit(Sig(x), cut - 1), Low(Sig(x), cut - 1) # 0, qint)
             xs == Where(xq = 0, CodeZero(x.s), Where(xq = 8, [s |-> x.s, e |-> 1, m |-> 0],
                                                      [s |-> x.s, e |-> 0, m |-> xq % 8]))
             base == Where(E >= -6, xn, Where(E <= -11, CodeZero(x.s), xs))
             o == << Choice(is_zero(x), CodeZero(x.s)), Choice(is_inf(x), CodeMax(x.s)),
                     Choice(is_nan(x), CodeNaN(x.s)) >>
  <2>1. xp_fp32_to_fp8e4m3(x) = LastWins(base, o)
    BY DEF xp_fp32_to_fp8e4m3
  <2>2. E >= -6 => xn = nor
    <3>1. Where(r >= 8, E + 8, E + 7) = e8 /\ Where(r >= 8, 0, r) = m8
      BY DEF Where
    <3>2. xn = IF e8 > 15 \/ (e8 = 15 /\ m8 = 7) THEN CodeMax(x.s) ELSE [s |-> x.s, e |-> e8 % 16, m |-> m8]
      <4> HIDE DEF e8, m8, r
      <4> QED
        BY <3>1 DEF Where
    <3>3. E >= -6 => e8 \in Nat
      BY <1>1
    <3> HIDE DEF e8, m8, xn
    <3>4. E >= -6 /\ ~(e8 > 15) => e8 % 16 = e8
      BY <3>3
    <3> QED
      BY <3>2, <3>4
  <2>3. ASSUME E \in -10 .. -7 PROVE xs = sub
    <3>1. cut = ce(E)
      BY <1>1, <2>3 DEF Where
    <3>2. qint = qs(E)
      <4> HIDE DEF cut
      <4> QED
        BY <1>6, <2>3, <3>1
    <3>3. xq = q
      <4> HIDE DEF cut, ce, qint
      <4> QED
        BY <3>1, <3>2
    <3>4. q \in 0 .. 8
      BY <1>6, <2>3
    <3>5. xs = IF xq = 0 THEN CodeZero(x.s) ELSE IF xq = 8 THEN [s |-> x.s, e |-> 1, m |-> 0]
               ELSE [s |-> x.s, e |-> 0, m |-> xq % 8]
      BY DEF Where
    <3> HIDE DEF xq, q, xs
    <3>6. q % 8 = q \/ q = 8
      BY <3>4
    <3> QED
      BY <3>3, <3>5, <3>6
  <2>4. DOMAIN o = 1 .. 3
    OBVIOUS
  <2>5. /\ (o[1].when <=> is_zero(x)) /\ o[1].val = CodeZero(x.s)
        /\ (o[2].when <=> is_inf(x)) /\ o[2].val = CodeMax(x.s)
        /\ (o[3].when <=> is_nan(x)) /\ o[3].val = CodeNaN(x.s)
    BY DEF Choice
  <2>6. base = IF E >= -6 THEN xn ELSE IF E <= -11 THEN CodeZero(x.s) ELSE xs
    BY DEF Where
  <2> HIDE DEF o, base, xn, xs, nor, sub
  <2>7. LastWins(base, o) = IF o[3].when THEN o[3].val ELSE IF o[2].when THEN o[2].val
                            ELSE IF o[1].when THEN o[1].val ELSE base
    BY <2>4, ThreeOverrides
  <2>8. base = IF E >= -6 THEN nor ELSE IF E <= -11 THEN CodeZero(x.s) ELSE sub
    BY <1>1, <2>2, <2>3, <2>6
  <2> QED
    BY <2>1, <2>5, <2>7, <2>8
<1>11. gen_fp32_to_fp8e4m3(x) = code
  <2> DEFINE mant == (x.m \div 2 ^ (MB - 3)) % 8
             up == Flag(Bit(x.m, MB - 4) = 1 /\ (Low(x.m, MB - 4) # 0 \/ mant % 2 = 1))
             over == mant + up >= 8
             ef == IF over THEN E + 8 ELSE E + 7
             m3 == IF over THEN 0 ELSE mant + up
             cut == SubnormalShift[E]
             qint == (Sig(x) \div 2 ^ cut) % 8
             gq == qint + Flag(Bit(Sig(x), cut - 1) = 1 /\ (Low(Sig(x), cut - 1) # 0 \/ qint % 2 = 1))
  <2>1. gen_fp32_to_fp8e4m3(x) =
          IF is_nan(x) THEN CodeNaN(x.s) ELSE IF is_inf(x) THEN CodeMax(x.s)
          ELSE IF is_zero(x) THEN CodeZero(x.s)
          ELSE IF E >= -6 THEN IF ef > 15 \/ (ef = 15 /\ m3 = 7) THEN CodeMax(x.s)
                               ELSE [s |-> x.s, e |-> ef, m |-> m3]
          ELSE IF E <= -11 \/ gq = 0 THEN CodeZero(x.s)
          ELSE IF gq = 8 THEN [s |-> x.s, e |-> 1, m |-> 0]
          ELSE [s |-> x.s, e |-> 0, m |-> gq]
    BY DEF gen_fp32_to_fp8e4m3
  <2>2. mant + up = r
    <3>1. mant = q3
      BY <1>4
    <3> HIDE DEF mant, q3
    <3>2. up = up3
      BY <1>4, <3>1 DEF RoundUp
    <3> QED
      BY <3>1, <3>2
  <2>3. ef = e8 /\ m3 = m8
    <3> HIDE DEF mant, up, r
    <3> QED
      BY <2>2
  <2>4. ASSUME E \in -10 .. -7 PROVE gq = q
    <3>1. cut = ce(E)
      BY <1>1, <2>4 DEF SubnormalShift
    <3>2. qint = qs(E)
      <4> HIDE DEF cut
      <4> QED
        BY <1>6, <2>4, <3>1
    <3> HIDE DEF cut, qint, qs
    <3>3. Bit(qs(E), 0) = qs(E) % 2
      BY <1>6, <2>4
    <3> QED
      BY <3>1, <3>2, <3>3 DEF RoundUp, qs
  <2> HIDE DEF ef, m3, gq, e8, m8, q
  <2> QED
    BY <1>1, <2>1, <2>3, <2>4
<1> QED
  BY <1>9, <1>10, <1>11
-----------------------------------------------------------------------------
(* The position of the highest bit of a number.                            *)
LEMMA TopIsUnique ==
  ASSUME NEW n \in Nat, NEW p \in Nat, NEW q \in Nat,
         2^p <= n, n < 2^(p + 1), 2^q <= n, n < 2^(q + 1)
  PROVE  p = q
<1>1. 2^p < 2^(q + 1) /\ 2^q < 2^(p + 1)
  BY Powers
<1>2. p < q + 1 /\ q < p + 1
  BY <1>1, PowerLeast
<1> QED
  BY <1>2

LEMMA TopTest ==
  ASSUME NEW n \in Nat, NEW p \in Nat
  PROVE  n \div 2^p < 2 <=> n < 2^(p + 1)
<1> DEFINE d == 2^p
<1>1. d \in Nat \ {0} /\ 2^(p + 1) = d * 2
  BY Powers
<1> HIDE DEF d
<1>2. n \div d < 2 <=> n < d * 2
  BY <1>1, Quotients
<1> QED
  BY <1>1, <1>2 DEF d

(* The CHOOSE of Log2 and of TopPower.                                     *)
TopOf(n, m) == CHOOSE p \in 0 .. m : 2^p <= n /\ n \div 2^p < 2

LEMMA TopOfIs ==
  ASSUME NEW n \in Nat \ {0}, NEW m \in Nat, n < 2^(m + 1)
  PROVE  TopOf(n, m) \in 0 .. m /\ 2^TopOf(n, m) <= n /\ n < 2^(TopOf(n, m) + 1)
<1>1. PICK p \in Nat : 2^p <= n /\ n < 2^(p + 1)
  BY HighestPower
<1>2. p < m + 1
  <2> DEFINE t == m + 1
  <2>1. t \in Nat /\ n < 2^t
    OBVIOUS
  <2> HIDE DEF t
  <2>2. 2^p < 2^t
    BY <1>1, <2>1, Powers
  <2>3. p < t
    BY <2>1, <2>2, PowerLeast
  <2> QED
    BY <2>3 DEF t
<1>3. p \in 0 .. m /\ 2^p <= n /\ n \div 2^p < 2
  BY <1>1, <1>2, TopTest
<1> DEFINE P(t) == 2^t <= n /\ n \div 2^t < 2
<1>4. TopOf(n, m) = CHOOSE t \in 0 .. m : P(t)
  BY DEF TopOf
<1>5. \E t \in 0 .. m : P(t)
  BY <1>3
<1>6. TopOf(n, m) \in 0 .. m /\ P(TopOf(n, m))
  <2> HIDE DEF P
  <2> QED
    BY <1>4, <1>5
<1>7. n < 2^(TopOf(n, m) + 1)
  BY <1>6, TopTest
<1> QED
  BY <1>6, <1>7

Word(n) == n \in Nat /\ n < 2^(MB + 63)

LEMMA Log2Is ==
  ASSUME NEW n \in Nat \ {0}, Word(n)
  PROVE  Log2(n) \in Nat /\ 2^Log2(n) <= n /\ n < 2^(Log2(n) + 1)
<1> DEFINE m == MB + 62
<1>1. m \in Nat /\ m + 1 = MB + 63
  BY WidthAssumption
<1>2. n < 2^(m + 1)
  BY <1>1 DEF Word
<1>3. Log2(n) = TopOf(n, m)
  BY DEF Log2, TopOf
<1> HIDE DEF m
<1> QED
  BY <1>1, <1>2, <1>3, TopOfIs

LEMMA NumberedPowers ==
  2^6 = 64 /\ 2^7 = 128 /\ 2^8 = 256
  OBVIOUS

(* A multiple is divided without remainder.                                *)
LEMMA Cancel ==
  ASSUME NEW d \in Nat \ {0}, NEW n \in Nat
  PROVE  (n * d) \div d = n
<1>1. n * d = d * n + 0 /\ 0 \in 0 .. d - 1 /\ n * d \in Int /\ n \in Int
  OBVIOUS
<1> DEFINE x == n * d
<1>2. x \in Int /\ x = d * n + 0
  BY <1>1
<1> HIDE DEF x
<1>3. x \div d = n
  BY <1>1, <1>2, DivisionIsUnique
<1> QED
  BY <1>3 DEF x

(* A normalised product, moved to its place, is the integer product.       *)
LEMMA ProductIsExact ==
  ASSUME NEW n \in Nat \ {0}, n < 256, NEW u \in Nat
  PROVE  LET p == Log2(n)
             f == (n * 2^(MB - p)) % Hidden
             sh == (p + u + BIAS - 18) - BIAS - MB + ACC_FRAC
         IN  /\ p \in 0 .. 7
             /\ (IF sh >= 0 THEN (Hidden + f) * 2^sh ELSE (Hidden + f) \div 2^(0 - sh)) = n * 2^u
<1> DEFINE p == Log2(n)
           d == MB - p
           x == n * 2^d
           f == x % Hidden
           sh == (p + u + BIAS - 18) - BIAS - MB + ACC_FRAC
<1>1. Word(n)
  <2> DEFINE t == 8
             r == MB + 63
  <2>1. t \in Nat /\ r \in Nat /\ t <= r
    BY WidthAssumption
  <2> HIDE DEF t, r
  <2>2. 2^t <= 2^r
    BY <2>1, PowerOrder
  <2>3. n < 2^r
    <3>1. n < 2^t
      BY NumberedPowers DEF t
    <3> QED
      BY <2>1, <2>2, <3>1, Powers
  <2> QED
    BY <2>3 DEF r, Word
<1>3. p \in Nat /\ 2^p <= n /\ n < 2^(p + 1)
  BY <1>1, Log2Is
<1> HIDE DEF p
<1>4. p \in 0 .. 7
  <2> DEFINE t == 8
  <2>1. t \in Nat /\ p \in Nat /\ 2^p < 2^t
    BY <1>3, NumberedPowers, Powers
  <2> HIDE DEF t
  <2>2. p < t
    BY <2>1, PowerLeast
  <2> QED
    BY <1>3, <2>2 DEF t
<1>5. MB \in Nat /\ d \in Nat /\ p \in Nat /\ p + d = MB /\ (p + 1) + d = MB + 1 /\ BIAS \in Nat
  BY <1>4, Widths, CodecAssumption, WidthAssumption
<1>6. sh \in Int /\ sh = u - d
  BY <1>5, CodecAssumption
<1>7. x \in Nat /\ Hidden <= x /\ x < 2 * Hidden
  <2>1. 2^d \in Nat \ {0} /\ 2^p \in Nat /\ 2^(p + 1) \in Nat
    BY <1>5, Powers
  <2>2. 2^p * 2^d = 2^MB /\ 2^(p + 1) * 2^d = 2^(MB + 1) /\ 2^(MB + 1) = 2 * 2^MB
    <3>1. 2^(p + d) = 2^p * 2^d /\ 2^((p + 1) + d) = 2^(p + 1) * 2^d
      BY <1>5, PowerSum
    <3> QED
      BY <1>5, <3>1, Powers
  <2>3. \A s, t \in Nat, r \in Nat \ {0} : (s <= t => s * r <= t * r) /\ (s < t => s * r < t * r)
    <3> SUFFICES ASSUME NEW s \in Nat, NEW t \in Nat, NEW r \in Nat \ {0}
                 PROVE  (s <= t => s * r <= t * r) /\ (s < t => s * r < t * r)
      OBVIOUS
    <3>1. t * r = s * r + (t - s) * r
      OBVIOUS
    <3>2. s < t => (t - s) * r >= 1
      OBVIOUS
    <3>3. s * r \in Int /\ t * r \in Int /\ (t - s) * r \in Int
      OBVIOUS
    <3> QED
      BY <3>1, <3>2, <3>3
  <2>4. 2^p * 2^d <= x /\ x < 2^(p + 1) * 2^d
    BY <1>3, <2>1, <2>3
  <2>5. x \in Nat
    BY <2>1
  <2> QED
    BY <2>2, <2>4, <2>5 DEF Hidden
<1>8. Hidden + f = x
  <2> HIDE DEF x
  <2>1. x - Hidden \in 0 .. Hidden - 1 /\ x = Hidden * 1 + (x - Hidden) /\ Hidden \in Nat \ {0}
    BY <1>7, Widths
  <2>2. x % Hidden = x - Hidden
    BY <1>7, <2>1, DivisionIsUnique
  <2> QED
    BY <1>7, <2>2, Widths
<1>9. CASE sh >= 0
  <2>1. sh \in Nat /\ d + sh = u
    BY <1>5, <1>6, <1>9
  <2>2. 2^u = 2^d * 2^sh /\ 2^d \in Nat /\ 2^sh \in Nat
    <3> HIDE DEF sh, d
    <3> QED
      BY <1>5, <2>1, PowerSum, Powers
  <2>3. x * 2^sh = n * 2^u
    <3> DEFINE q == 2^d
               r == 2^sh
    <3>1. (n * q) * r = n * (q * r)
      BY <2>2
    <3> QED
      BY <2>2, <3>1
  <2> HIDE DEF x, sh, f
  <2> QED
    BY <1>4, <1>8, <1>9, <2>3 DEF p, d, x, sh, f
<1>10. CASE sh < 0
  <2> DEFINE g == 0 - sh
  <2>1. g \in Nat /\ u + g = d
    BY <1>5, <1>6, <1>10
  <2>2. 2^d = 2^u * 2^g /\ 2^u \in Nat /\ 2^g \in Nat \ {0}
    <3> HIDE DEF d, g
    <3> QED
      BY <2>1, PowerSum, Powers
  <2>3. x = (n * 2^u) * 2^g /\ n * 2^u \in Nat
    <3> DEFINE q == 2^u
               r == 2^g
    <3>1. n * (q * r) = (n * q) * r /\ n * q \in Nat
      BY <2>2
    <3> QED
      BY <2>2, <3>1
  <2>4. x \div 2^g = n * 2^u
    <3> DEFINE q == n * 2^u
               r == 2^g
    <3>1. q \in Nat /\ r \in Nat \ {0} /\ x = q * r
      BY <2>2, <2>3
    <3> HIDE DEF q, r, x
    <3>2. x \div r = q
      BY <3>1, Cancel
    <3> QED
      BY <3>2 DEF q, r
  <2> HIDE DEF x, sh, f
  <2> QED
    BY <1>4, <1>6, <1>8, <1>10, <2>4 DEF p, d, x, sh, f
<1> QED
  BY <1>6, <1>9, <1>10 DEF p

(* The sign of a product of two numbers given by sign and magnitude.       *)
LEMMA SignedProduct ==
  ASSUME NEW s \in {0, 1}, NEW t \in {0, 1}, NEW m \in Nat, NEW n \in Nat
  PROVE  Signed(s, m) * Signed(t, n) = Signed((s + t) % 2, m * n)
<1> DEFINE x == m * n
<1>1. (0 - m) * n = 0 - x /\ m * (0 - n) = 0 - x /\ (0 - m) * (0 - n) = x /\ x \in Nat
  OBVIOUS
<1>2. (0 + 0) % 2 = 0 /\ (0 + 1) % 2 = 1 /\ (1 + 0) % 2 = 1 /\ (1 + 1) % 2 = 0
  OBVIOUS
<1> QED
  BY <1>1, <1>2 DEF Signed

LEMMA CodeParts ==
  ASSUME NEW x \in Code
  PROVE  /\ x.s \in {0, 1} /\ CodeSig(x) \in 0 .. 15 /\ CodePow(x) \in 0 .. 14 /\ 2^CodePow(x) \in Nat \ {0}
         /\ e4m3_to_signed_sig(x) = Signed(x.s, CodeSig(x) * 2^CodePow(x))
<1>1. x.s \in {0, 1} /\ CodeSig(x) \in 0 .. 15 /\ CodePow(x) \in 0 .. 14
  BY DEF Code, CodeSig, CodePow
<1>2. 2^CodePow(x) \in Nat \ {0}
  BY <1>1, Powers
<1>3. e4m3_to_signed_sig(x) = Signed(x.s, CodeSig(x) * 2^CodePow(x))
  BY DEF e4m3_to_signed_sig, Where, Signed, CodeSig, CodePow
<1> QED
  BY <1>1, <1>2, <1>3

LEMMA MultiplyCodesIsGolden ==
  ASSUME NEW x \in Code, NEW y \in Code, ~is_code_nan(x), ~is_code_nan(y)
  PROVE  fp32_to_fixed(fp8_mul(x, y)) = e4m3_to_signed_sig(x) * e4m3_to_signed_sig(y)
<1> DEFINE n == CodeSig(x) * CodeSig(y)
           u == CodePow(x) + CodePow(y)
           s == SignOf(x, y)
           p == Log2(n)
           e == p + CodePow(x) + CodePow(y) + BIAS - 18
           f == (n * 2^(MB - p)) % Hidden
           sh == e - BIAS - MB + ACC_FRAC
           mag == IF sh >= 0 THEN (Hidden + f) * 2^sh ELSE (Hidden + f) \div 2^(0 - sh)
<1>1. n \in Nat /\ n < 256
  <2>1. \A i, l \in 0 .. 15 : i * l \in Nat /\ i * l < 256
    <3> SUFFICES ASSUME NEW i \in 0 .. 15, NEW l \in 0 .. 15 PROVE i * l \in Nat /\ i * l < 256
      OBVIOUS
    <3>1. i * l <= 15 * l /\ i * l \in Nat
      OBVIOUS
    <3> QED
      BY <3>1
  <2> QED
    BY <2>1, CodeParts
<1>2. u \in Nat /\ CodePow(x) \in Nat /\ CodePow(y) \in Nat /\ 2^u = 2^CodePow(x) * 2^CodePow(y)
  <2>1. CodePow(x) \in Nat /\ CodePow(y) \in Nat
    BY CodeParts
  <2> DEFINE q == CodePow(x)
             r == CodePow(y)
  <2>2. q \in Nat /\ r \in Nat
    BY <2>1
  <2> HIDE DEF q, r
  <2>3. q + r \in Nat /\ 2^(q + r) = 2^q * 2^r
    BY <2>2, PowerSum
  <2> QED
    BY <2>1, <2>3 DEF q, r
<1>3. e4m3_to_signed_sig(x) * e4m3_to_signed_sig(y) = Signed(s, n * 2^u)
  <2> DEFINE i == CodeSig(x)
             l == CodeSig(y)
             q == 2^CodePow(x)
             r == 2^CodePow(y)
  <2>1. i \in Nat /\ l \in Nat /\ q \in Nat /\ r \in Nat /\ x.s \in {0, 1} /\ y.s \in {0, 1}
    BY CodeParts
  <2>2. e4m3_to_signed_sig(x) = Signed(x.s, i * q) /\ e4m3_to_signed_sig(y) = Signed(y.s, l * r)
    BY CodeParts
  <2> HIDE DEF i, l, q, r
  <2>3. Signed(x.s, i * q) * Signed(y.s, l * r) = Signed((x.s + y.s) % 2, (i * q) * (l * r))
    <3>1. i * q \in Nat /\ l * r \in Nat
      BY <2>1
    <3> DEFINE v == x.s
               w == y.s
    <3>2. v \in {0, 1} /\ w \in {0, 1}
      BY <2>1
    <3> DEFINE g == i * q
               h == l * r
    <3>3. g \in Nat /\ h \in Nat
      BY <3>1
    <3> HIDE DEF v, w, g, h
    <3>4. Signed(v, g) * Signed(w, h) = Signed((v + w) % 2, g * h)
      BY <3>2, <3>3, SignedProduct
    <3> QED
      BY <3>4 DEF v, w, g, h
  <2>4. (i * q) * (l * r) = (i * l) * (q * r)
    BY <2>1
  <2>5. (i * q) * (l * r) = n * 2^u
    BY <1>2, <2>4 DEF i, l, q, r
  <2> QED
    BY <2>2, <2>3, <2>5 DEF SignOf
<1>4. CASE n = 0
  <2>1. fp8_mul(x, y) = Zero(s)
    BY <1>4 DEF fp8_mul
  <2>2. fp32_to_fixed(Zero(s)) = 0
    BY DEF fp32_to_fixed, Zero
  <2>3. Signed(s, n * 2^u) = 0
    <3>1. n * 2^u = 0
      BY <1>2, <1>4, Powers
    <3> QED
      BY <3>1 DEF Signed
  <2> QED
    BY <1>3, <2>1, <2>2, <2>3
<1>5. CASE n # 0
  <2>1. fp8_mul(x, y) = [s |-> s, e |-> e, m |-> f]
    BY <1>5 DEF fp8_mul
  <2>2. n \in Nat \ {0} /\ (p + u + BIAS - 18) - BIAS - MB + ACC_FRAC = sh /\ p \in 0 .. 7
    <3>1. n \in Nat \ {0}
      BY <1>1, <1>5
    <3>2. p \in 0 .. 7
      <4> HIDE DEF n, u
      <4> QED
        BY <1>1, <1>2, <3>1, ProductIsExact
    <3> HIDE DEF p, n
    <3> QED
      BY <1>2, <3>1, <3>2, Widths, WidthAssumption, CodecAssumption
  <2>3. mag = n * 2^u
    <3> HIDE DEF u, n
    <3>1. /\ n \in Nat \ {0} /\ n < 256 /\ u \in Nat
      BY <1>1, <1>2, <2>2
    <3>2. LET sf == (p + u + BIAS - 18) - BIAS - MB + ACC_FRAC
          IN  (IF sf >= 0 THEN (Hidden + f) * 2^sf ELSE (Hidden + f) \div 2^(0 - sf)) = n * 2^u
      BY <3>1, ProductIsExact
    <3> HIDE DEF sh, f
    <3> QED
      BY <2>2, <3>2
  <2>4. e # 0
    <3>1. BIAS >= 31
      <4>1. 2^(EB - 1) >= 32
        <5> DEFINE t == 5
                   r == EB - 1
        <5>1. t \in Nat /\ r \in Nat /\ t <= r
          BY WidthAssumption, CodecAssumption
        <5> HIDE DEF t, r
        <5>2. 2^t <= 2^r
          BY <5>1, PowerOrder
        <5> QED
          BY <5>2, SmallPowers DEF t, r
      <4>2. 2^(EB - 1) \in Nat
        BY WidthAssumption, CodecAssumption, Powers
      <4> QED
        BY <4>1, <4>2 DEF BIAS
    <3> HIDE DEF p
    <3> QED
      BY <1>2, <2>2, <3>1, Widths
  <2>5. fp32_to_fixed([s |-> s, e |-> e, m |-> f]) = Signed(s, mag)
    <3> HIDE DEF e, f
    <3> QED
      BY <2>4 DEF fp32_to_fixed, Sig
  <2> QED
    BY <1>3, <2>1, <2>3, <2>5
<1> QED
  BY <1>4, <1>5
-----------------------------------------------------------------------------
(* The search by halves finds the highest bit.                             *)
LEMMA TopBitIs ==
  ASSUME NEW n \in Nat \ {0}, n < 2^(2^HALVINGS)
  PROVE  TopBit(n) \in Nat /\ 2^TopBit(n) <= n /\ n < 2^(TopBit(n) + 1)
<1> DEFINE H == HALVINGS
           D == [k : Nat, p : Nat]
           x0 == [k |-> n, p |-> 0]
           sh(i) == 2^(H - i)
           next(i, r) == Where(r.k \div 2^sh(i) > 0, [k |-> r.k \div 2^sh(i), p |-> r.p + sh(i)], r)
           Body(f) == [i \in 0 .. H |-> IF i = 0 THEN x0 ELSE next(i, f[i - 1])]
           F == [i \in 1 .. H |-> [r \in D |-> next(i, r)]]
           h == CHOOSE f : f = Body(f)
<1>1. H \in Nat /\ H \in 0 .. H
  BY SearchAssumption
<1>2. \A i \in 1 .. H : sh(i) \in Nat \ {0} /\ 2^sh(i) \in Nat \ {0}
  <2> SUFFICES ASSUME NEW i \in 1 .. H PROVE sh(i) \in Nat \ {0} /\ 2^sh(i) \in Nat \ {0}
    OBVIOUS
  <2>1. H - i \in Nat
    BY <1>1
  <2>2. sh(i) \in Nat \ {0}
    BY <2>1, Powers
  <2> HIDE DEF sh
  <2> QED
    BY <2>2, Powers
<1>3. TopBit(n) = h[H].p
  BY DEF TopBit
<1> HIDE DEF H, sh
<1>4. x0 \in D
  OBVIOUS
<1>5. F \in [1 .. H -> [D -> D]]
  <2>1. ASSUME NEW i \in 1 .. H, NEW r \in D PROVE next(i, r) \in D
    <3>1. r.k \div 2^sh(i) \in Nat /\ r.p + sh(i) \in Nat
      <4>1. r.k \in Nat /\ r.p \in Nat /\ sh(i) \in Nat /\ 2^sh(i) \in Nat \ {0}
        BY <1>2
      <4> DEFINE m == r.k
                 d == 2^sh(i)
      <4>2. m \in Nat /\ d \in Nat \ {0}
        BY <4>1
      <4> HIDE DEF m, d
      <4>3. m \div d \in Nat
        BY <4>2, Division
      <4> QED
        BY <4>1, <4>3 DEF m, d
    <3> QED
      BY <3>1 DEF Where
  <2> HIDE DEF D, next
  <2> QED
    BY <2>1
<1> HIDE DEF x0
<1>6. h = Body(h)
  <2>1. PICK f \in [0 .. H -> D] : f[0] = x0 /\ \A i \in 1 .. H : f[i] = F[i][f[i - 1]]
    <3> HIDE DEF D, F
    <3>1. Iterates(H, D, x0, F)
      BY <1>1, <1>4, <1>5, Iteration
    <3> QED
      BY <3>1 DEF Iterates
  <2>2. \A i \in 1 .. H : f[i - 1] \in D /\ F[i][f[i - 1]] = next(i, f[i - 1])
    <3> SUFFICES ASSUME NEW i \in 1 .. H PROVE f[i - 1] \in D /\ F[i][f[i - 1]] = next(i, f[i - 1])
      OBVIOUS
    <3>1. i - 1 \in 0 .. H
      BY <1>1
    <3>2. f[i - 1] \in D
      BY <3>1
    <3> HIDE DEF next, D
    <3> QED
      BY <3>2
  <2>3. f = Body(f)
    <3> HIDE DEF next, D, F
    <3>1. \A i \in 0 .. H : f[i] = IF i = 0 THEN x0 ELSE next(i, f[i - 1])
      BY <1>1, <2>1, <2>2
    <3> QED
      BY <3>1
  <2> HIDE DEF Body
  <2> QED
    BY <2>3
<1>7. h[0] = x0 /\ \A i \in 1 .. H : h[i] = next(i, h[i - 1])
  <2> HIDE DEF h, next
  <2> QED
    BY <1>1, <1>6
<1> HIDE DEF h, F, Body
<1> DEFINE Good(i) == /\ h[i].k \in Nat \ {0} /\ h[i].p \in Nat
                      /\ h[i].k = n \div 2^h[i].p /\ h[i].k < 2^(2^(H - i))
           S == {i \in Nat : i <= H => Good(i)}
<1>8. ASSUME NEW i \in Nat, \A l \in Nat : l < i => l \in S PROVE i \in S
  <2>1. CASE i = 0
    <3>1. x0.k = n /\ x0.p = 0 /\ n \div 2^0 = n /\ H - 0 = H
      <4>1. n \div 1 = n
        OBVIOUS
      <4> QED
        BY <1>1, <4>1, Powers DEF x0
    <3>2. Good(0)
      BY <1>7, <3>1 DEF H
    <3> HIDE DEF Good
    <3> QED
      BY <2>1, <3>2
  <2>2. CASE i # 0 /\ i <= H
    <3>1. i - 1 \in Nat /\ i - 1 < i /\ i - 1 <= H /\ i \in 1 .. H
      BY <1>1, <2>2
    <3>2. Good(i - 1)
      <4> HIDE DEF Good
      <4> QED
        BY <1>8, <3>1
    <3> DEFINE m == h[i - 1].k
               p == h[i - 1].p
               v == sh(i)
    <3>3. m \in Nat \ {0} /\ p \in Nat /\ m = n \div 2^p /\ m < 2^(v + v) /\ v \in Nat \ {0} /\ v = 2^(H - i)
      <4>1. H - i \in Nat /\ H - (i - 1) = (H - i) + 1
        BY <1>1, <3>1
      <4>2. 2^(H - (i - 1)) = v + v /\ v = 2^(H - i)
        BY <4>1, Powers DEF sh
      <4> QED
        BY <1>2, <3>1, <3>2, <4>2
    <3>4. h[i] = Where(m \div 2^v > 0, [k |-> m \div 2^v, p |-> p + v], h[i - 1])
      BY <1>7, <3>1
    <3> HIDE DEF m, p, v
    <3>5. m \div 2^v \in Nat /\ m \div 2^v < 2^v /\ (m \div 2^v = 0 => m < 2^v)
      <4> DEFINE d == 2^v
      <4>1. m \div d < d
        BY <3>3, BelowPower
      <4>2. d \in Nat \ {0}
        BY <3>3, Powers
      <4> HIDE DEF d
      <4>3. m \div d \in Nat /\ (m \div d < 1 => m < d * 1)
        BY <3>3, <4>2, Quotients, Division
      <4> QED
        BY <4>1, <4>2, <4>3 DEF d
    <3>6. (n \div 2^p) \div 2^v = n \div 2^(p + v)
      <4>1. 2^(p + v) = 2^p * 2^v /\ 2^p \in Nat \ {0} /\ 2^v \in Nat \ {0}
        BY <3>3, PowerSum, Powers
      <4> DEFINE d == 2^p
                 e == 2^v
      <4>2. d \in Nat \ {0} /\ e \in Nat \ {0}
        BY <4>1
      <4> HIDE DEF d, e
      <4>3. (n \div d) \div e = n \div (d * e)
        BY <4>2, NestedDivision
      <4> QED
        BY <4>1, <4>3 DEF d, e
    <3>7. CASE m \div 2^v > 0
      <4>1. h[i].k = m \div 2^v /\ h[i].p = p + v
        BY <3>4, <3>7 DEF Where
      <4> DEFINE z == m \div 2^v
      <4>2. z \in Nat \ {0} /\ z < 2^(2^(H - i)) /\ z = n \div 2^(p + v) /\ p + v \in Nat
        <5>1. z = n \div 2^(p + v)
          BY <3>3, <3>6
        <5>2. z \in Nat /\ z > 0 /\ z < 2^v
          BY <3>5, <3>7
        <5>3. z < 2^(2^(H - i))
          BY <3>3, <5>2
        <5> HIDE DEF z
        <5> QED
          BY <3>3, <5>1, <5>2, <5>3
      <4>3. h[i].k = z /\ h[i].p = p + v
        BY <4>1
      <4> HIDE DEF z
      <4>4. Good(i)
        BY <4>2, <4>3
      <4> QED
        BY <4>4
    <3>8. CASE ~(m \div 2^v > 0)
      <4>1. h[i].k = m /\ h[i].p = p
        BY <3>4, <3>8 DEF Where, m, p
      <4>2. m < 2^v
        <5> DEFINE q == m \div 2^v
        <5> HIDE DEF q
        <5>1. q = 0
          BY <3>5, <3>8 DEF q
        <5> QED
          BY <3>5, <5>1 DEF q
      <4>3. Good(i)
        BY <3>3, <4>1, <4>2
      <4> QED
        BY <4>3
    <3> QED
      BY <3>7, <3>8
  <2> QED
    BY <2>1, <2>2
<1>9. Good(H)
  <2>1. S \in SUBSET Nat
    OBVIOUS
  <2>2. S = Nat
    <3> HIDE DEF S
    <3> QED
      BY <1>8, <2>1, NatSets
  <2> HIDE DEF Good
  <2> QED
    BY <1>1, <2>2
<1> DEFINE p == h[H].p
           q == h[H].k
<1>10. p \in Nat /\ q = 1 /\ q = n \div 2^p
  <2>1. H - H = 0 /\ 2^0 = 1 /\ 2^1 = 2
    BY <1>1, SmallPowers
  <2>2. 2^(2^(H - H)) = 2
    BY <2>1
  <2>3. q \in Nat \ {0} /\ p \in Nat /\ q = n \div 2^p /\ q < 2
    BY <1>9, <2>2
  <2> QED
    BY <2>3
<1> HIDE DEF p, q
<1>11. 2^p <= n /\ n < 2^(p + 1)
  <2> DEFINE d == 2^p
  <2>1. d \in Nat \ {0} /\ 2^(p + 1) = d * 2 /\ d * 1 = d
    BY <1>10, Powers
  <2>2. n \div d >= 1 /\ n \div d < 2
    BY <1>10
  <2> HIDE DEF d
  <2>3. d * 1 <= n /\ n < d * 2
    BY <2>1, <2>2, Quotients
  <2> QED
    BY <2>1, <2>3 DEF d
<1> QED
  BY <1>3, <1>10, <1>11 DEF p

Searchable(n) == Word(n) /\ n < 2^(2^HALVINGS)

LEMMA BothSearches ==
  ASSUME NEW n \in Nat \ {0}, Searchable(n)
  PROVE  TopBit(n) = Log2(n) /\ Log2(n) \in Nat
<1>1. Log2(n) \in Nat /\ 2^Log2(n) <= n /\ n < 2^(Log2(n) + 1)
  BY Log2Is DEF Searchable
<1>2. TopBit(n) \in Nat /\ 2^TopBit(n) <= n /\ n < 2^(TopBit(n) + 1)
  BY TopBitIs DEF Searchable
<1> QED
  BY <1>1, <1>2, TopIsUnique

LEMMA RoundIsGolden ==
  ASSUME NEW x \in Int, Searchable(Dist(x, 0))
  PROVE  xp_fixed_to_fp32(x) = fixed_to_fp32(x)
<1> DEFINE s   == Flag(x < 0)
           mag == Signed(s, x)
           p   == Log2(mag)
           cut == p - MB
           e   == p - ACC_FRAC + BIAS
           q   == TopBit(mag)
           hi  == q >= MB
           xm  == Where(hi, mag \div 2^Where(hi, q - MB, 0), mag * 2^Where(hi, 0, MB - q))
           shg == Where(q >= MB + 1, q - MB - 1, 0)
           grd == Where(q >= MB + 1, Bit(mag, shg), 0)
           stk == q >= MB + 2 /\ Low(mag, shg) # 0
           xu  == RoundUp(grd, stk, xm)
<1>1. mag \in Nat /\ mag = Dist(x, 0) /\ (mag = 0 <=> x = 0)
  BY DEF Flag, Signed, Dist
<1>2. xp_fixed_to_fp32(x) = Where(mag = 0, Zero(0), xp_pack(s, q - ACC_FRAC + BIAS, xm, xu))
  <2>1. Where(x < 0, 1, 0) = s /\ Where(x < 0, 0 - x, x) = mag
    BY DEF Where, Flag, Signed
  <2>2. xp_fixed_to_fp32(x) =
          LET ss   == Where(x < 0, 1, 0)
              mm   == Where(x < 0, 0 - x, x)
              pp   == TopBit(mm)
              hh   == pp >= MB
              mant == Where(hh, mm \div 2 ^ Where(hh, pp - MB, 0), mm * 2 ^ Where(hh, 0, MB - pp))
              sg   == Where(pp >= MB + 1, pp - MB - 1, 0)
              gg   == Where(pp >= MB + 1, Bit(mm, sg), 0)
              st   == pp >= MB + 2 /\ Low(mm, sg) # 0
          IN  Where(mm = 0, Zero(0), xp_pack(ss, pp - ACC_FRAC + BIAS, mant, RoundUp(gg, st, mant)))
    BY DEF xp_fixed_to_fp32
  <2> HIDE DEF s, mag
  <2> QED
    BY <2>1, <2>2
<1>3. fixed_to_fp32(x) =
        IF x = 0 THEN Zero(0)
        ELSE IF cut <= 0 THEN Pack(s, e, mag * 2^(0 - cut), 0)
        ELSE Pack(s, e, mag \div 2^cut, RoundUp(Bit(mag, cut - 1), Low(mag, cut - 1) # 0, mag \div 2^cut))
  BY DEF fixed_to_fp32
<1>4. CASE x = 0
  BY <1>1, <1>2, <1>3, <1>4 DEF Where
<1>5. CASE x # 0
  <2>1. mag \in Nat \ {0} /\ Searchable(mag)
    BY <1>1, <1>5
  <2> HIDE DEF s, mag
  <2>2. p = q /\ p \in Nat
    BY <2>1, BothSearches
  <2>3. q \in Nat
    BY <2>2
  <2>4. p = q
    BY <2>2
  <2> HIDE DEF p, q
  <2>5. MB \in Nat /\ MB + 1 \in Nat /\ e \in Int /\ cut \in Int
    BY <2>2, Widths, WidthAssumption, CodecAssumption
  <2>6. xp_fixed_to_fp32(x) = xp_pack(s, e, xm, xu)
    BY <1>2, <2>1, <2>4 DEF Where
  <2>7. CASE cut <= 0
    <3>1. xm = mag * 2^(0 - cut) /\ 0 - cut \in Nat
      <4>1. 0 - cut \in Nat /\ MB - q = 0 - cut
        BY <2>3, <2>4, <2>5, <2>7
      <4>2. CASE cut = 0
        <5>1. q - MB = 0 /\ q >= MB
          <6>1. cut = q - MB
            BY <2>4
          <6> HIDE DEF cut
          <6> QED
            BY <2>3, <2>5, <4>2, <6>1
        <5>2. mag \div 1 = mag /\ mag * 1 = mag
          BY <2>1
        <5>3. xm = mag \div 2^(q - MB)
          BY <5>1 DEF Where
        <5>4. 0 - cut = 0
          BY <4>2
        <5> HIDE DEF xm, cut
        <5>5. xm = mag \div 2^0 /\ mag * 2^(0 - cut) = mag * 2^0
          BY <5>1, <5>3, <5>4
        <5>6. xm = mag * 2^(0 - cut)
          <6>1. 2^0 = 1
            BY Powers
          <6>2. mag \div 2^0 = mag * 2^0
            BY <5>2, <6>1
          <6> QED
            BY <5>5, <6>2
        <5> QED
          BY <4>1, <5>6
      <4>3. CASE cut # 0
        <5>1. ~hi
          BY <2>3, <2>4, <2>5, <2>7, <4>3
        <5> QED
          BY <4>1, <5>1 DEF Where
      <4> QED
        BY <4>1, <4>2, <4>3
    <3>2. xu = 0
      <4>1. grd = 0
        BY <2>3, <2>4, <2>5, <2>7 DEF Where
      <4> HIDE DEF grd
      <4> QED
        BY <4>1 DEF RoundUp, Flag
    <3>3. xm \in Nat
      <4>1. 2^(0 - cut) \in Nat
        BY <3>1, Powers
      <4> QED
        BY <2>1, <3>1, <4>1
    <3> HIDE DEF xm, xu, e
    <3>4. xp_pack(s, e, xm, xu) = Pack(s, e, xm, xu)
      BY <2>5, <3>2, <3>3, Packings
    <3> QED
      BY <1>3, <1>5, <2>6, <2>7, <3>1, <3>2, <3>4
  <2>8. CASE cut > 0
    <3>1. hi /\ q >= MB + 1 /\ q - MB = cut /\ q - MB - 1 = cut - 1 /\ cut \in Nat /\ cut - 1 \in Nat
      BY <2>3, <2>4, <2>5, <2>8
    <3>2. xm = mag \div 2^cut /\ xm \in Nat
      <4>1. xm = mag \div 2^cut
        BY <3>1 DEF Where
      <4> HIDE DEF xm
      <4> QED
        BY <2>1, <3>1, <4>1, Bits
    <3>3. shg = cut - 1 /\ grd = Bit(mag, cut - 1)
      BY <3>1 DEF Where
    <3>4. stk <=> Low(mag, cut - 1) # 0
      <4>1. q >= MB + 2 \/ cut - 1 = 0
        BY <2>3, <2>5, <3>1
      <4>2. Low(mag, 0) = 0
        <5>1. mag % 1 = 0
          BY <2>1
        <5> QED
          BY <5>1, Powers DEF Low
      <4> HIDE DEF shg, cut
      <4> QED
        BY <3>3, <4>1, <4>2
    <3>5. xu = RoundUp(Bit(mag, cut - 1), Low(mag, cut - 1) # 0, mag \div 2^cut) /\ xu \in {0, 1}
      <4> HIDE DEF grd, stk, xm
      <4> QED
        BY <3>2, <3>3, <3>4 DEF RoundUp, Flag
    <3> HIDE DEF xm, xu, e
    <3>6. xp_pack(s, e, xm, xu) = Pack(s, e, xm, xu)
      BY <2>5, <3>2, <3>5, Packings
    <3>7. fixed_to_fp32(x) =
            Pack(s, e, mag \div 2^cut, RoundUp(Bit(mag, cut - 1), Low(mag, cut - 1) # 0, mag \div 2^cut))
      <4> HIDE DEF cut
      <4> QED
        BY <1>3, <1>5, <2>5, <2>8
    <3> HIDE DEF cut
    <3> QED
      BY <2>6, <3>2, <3>5, <3>6, <3>7
  <2> QED
    BY <2>5, <2>7, <2>8
<1> QED
  BY <1>4, <1>5
-----------------------------------------------------------------------------
(* The state of a primitive: operands of its kind, and its results.        *)
OpsInv ==
  /\ op \in {"mul", "add"} => a \in Float /\ b \in Float
  /\ op \in {"encode", "narrow"} => a \in Float
  /\ op = "scale" => a \in Float /\ b \in Int
  /\ op = "product" => a \in Code /\ b \in Code /\ ~is_code_nan(a) /\ ~is_code_nan(b)
  /\ op = "round" => a \in Int /\ Searchable(Dist(a, 0))
  /\ Did({"encode"}) => golden = fp32_to_fp8e4m3(a)
  /\ Did({"mul", "add", "encode", "narrow", "scale", "product", "round"}) => golden = array

(* What the search for the top bit covers, sign aside.                     *)
LEMMA SumsAreSearchable ==
  ASSUME NEW n \in Nat, n \div 2^(2^HALVINGS - 2) <= 1
  PROVE  Searchable(n)
<1> DEFINE w == 2^HALVINGS
           z == w - 2
           top == MB + 63
<1>1. w \in Nat /\ 2 <= w /\ w <= 64
  <2> DEFINE t == 1
             r == 6
  <2>1. t \in Nat /\ r \in Nat /\ HALVINGS \in Nat /\ t <= HALVINGS /\ HALVINGS <= r
    BY SearchAssumption
  <2> HIDE DEF t, r
  <2>2. 2^t <= w /\ w <= 2^r /\ w \in Nat
    BY <2>1, PowerOrder, Powers
  <2> HIDE DEF w
  <2> QED
    BY <2>2, SmallPowers, NumberedPowers DEF t, r
<1> HIDE DEF w
<1>2. z \in Nat /\ z + 1 \in Nat /\ z + 1 <= w /\ z + 1 <= top /\ top \in Nat
  BY <1>1, WidthAssumption
<1> HIDE DEF z, top
<1>3. n < 2^(z + 1)
  <2>1. n \div 2^z < 2
    <3>1. n \div 2^z <= 1 /\ n \div 2^z \in Nat
      BY <1>2, Bits DEF z, w
    <3> QED
      BY <3>1
  <2> QED
    BY <1>2, <2>1, TopTest
<1>4. 2^(z + 1) <= 2^w /\ 2^(z + 1) <= 2^top
  BY <1>1, <1>2, PowerOrder
<1>5. 2^(z + 1) \in Nat /\ 2^w \in Nat /\ 2^top \in Nat
  BY <1>1, <1>2, Powers
<1>6. n < 2^w /\ n < 2^top
  BY <1>3, <1>4, <1>5
<1> QED
  BY <1>6 DEF Searchable, Word, w, top

LEMMA OpsInitInv ==
  ASSUME OpsInit \/ OpsIdle
  PROVE  OpsInv
<1>1. ~done
  BY DEF OpsInit, OpsIdle
<1>2. ASSUME op = "round", OpsInit PROVE a \in Int /\ Searchable(Dist(a, 0))
  <2>1. a \in BlockSums
    BY <1>2 DEF OpsInit
  <2>2. a \in Int /\ Dist(a, 0) \div 2^(2^HALVINGS - 2) <= 1
    BY <2>1, OperandAssumption
  <2>3. Dist(a, 0) \in Nat
    BY <2>2 DEF Dist
  <2> QED
    BY <2>2, <2>3, SumsAreSearchable
<1>3. /\ Operand \subseteq Float /\ Converted \subseteq Float /\ Shift \subseteq Int
      /\ Factor \subseteq {c \in Code : ~is_code_nan(c)}
  BY OperandAssumption
<1>4. CASE OpsInit
  BY <1>1, <1>2, <1>3, <1>4 DEF OpsInit, OpsInv, Did
<1>5. CASE OpsIdle
  BY <1>1, <1>5 DEF OpsIdle, OpsInv, Did
<1> QED
  BY <1>4, <1>5

LEMMA OpsStepInv ==
  ASSUME OpsInv, OpsNext \/ UNCHANGED opsVars
  PROVE  OpsInv'
<1>1. CASE Multiply
  <2>1. xp_fp32_mul(a, b) = fp32_mul(a, b)
    BY <1>1, MultiplyIsGolden DEF OpsInv, Multiply, Pending
  <2> QED
    BY <1>1, <2>1 DEF OpsInv, Multiply, Pending, Did
<1>2. CASE Add
  <2>1. xp_fp32_add(a, b) = fp32_add(a, b)
    BY <1>2, AddIsGolden DEF OpsInv, Add, Pending
  <2> QED
    BY <1>2, <2>1 DEF OpsInv, Add, Pending, Did
<1>3. CASE Encode
  <2>1. xp_fp32_to_fp8e4m3(a) = fp32_to_fp8e4m3(a)
    BY <1>3, EncodeIsGolden DEF OpsInv, Encode, Pending
  <2> QED
    BY <1>3, <2>1 DEF OpsInv, Encode, Pending, Did
<1>4. CASE Narrow
  <2>1. xp_fp32_to_bf16(a) = fp32_to_bf16(a)
    BY <1>4, NarrowIsGolden DEF OpsInv, Narrow, Pending
  <2> QED
    BY <1>4, <2>1 DEF OpsInv, Narrow, Pending, Did
<1>5. CASE Scale
  <2>1. xp_fp32_scale_pow2(a, b) = fp32_scale_pow2(a, b)
    BY <1>5, ScaleIsGolden DEF OpsInv, Scale, Pending
  <2> QED
    BY <1>5, <2>1 DEF OpsInv, Scale, Pending, Did
<1>6. CASE Decode
  BY <1>6 DEF OpsInv, Decode, Pending, Did
<1>7. CASE MultiplyCodes
  <2>1. fp32_to_fixed(fp8_mul(a, b)) = e4m3_to_signed_sig(a) * e4m3_to_signed_sig(b)
    BY <1>7, MultiplyCodesIsGolden DEF OpsInv, MultiplyCodes, Pending
  <2> QED
    BY <1>7, <2>1 DEF OpsInv, MultiplyCodes, Pending, Did
<1>8. CASE Round
  <2>1. xp_fixed_to_fp32(a) = fixed_to_fp32(a)
    BY <1>8, RoundIsGolden DEF OpsInv, Round, Pending
  <2> QED
    BY <1>8, <2>1 DEF OpsInv, Round, Pending, Did
<1>9. CASE UNCHANGED opsVars
  BY <1>9 DEF OpsInv, opsVars, Did
<1> QED
  BY <1>1, <1>2, <1>3, <1>4, <1>5, <1>6, <1>7, <1>8, <1>9 DEF OpsNext

LEMMA OpsInvIsInvariant == NumericsSpec => []OpsInv
<1>1. NumericsInit => OpsInv
  BY OpsInitInv DEF NumericsInit
<1>2. OpsInv /\ [NumericsNext]_<<opsVars, gemmVars>> => OpsInv'
  <2>1. [NumericsNext]_<<opsVars, gemmVars>> => OpsNext \/ UNCHANGED opsVars
    BY DEF NumericsNext
  <2> QED
    BY <2>1, OpsStepInv
<1> QED
  BY <1>1, <1>2, PTL DEF NumericsSpec

(* Every array kernel returns the golden's word on every operand, special  *)
(* values, flushes and signs of zero included; the integer product of two  *)
(* codes' significands is the golden's fixed-point product; the encoder of *)
(* the vector builder is the golden's: for fields of every width that has  *)
(* room for the product of two codes.                                      *)
THEOREM AlwaysKernelsAreGolden == NumericsSpec => []KernelsAreGolden
<1>1. OpsInv => KernelsAreGolden
  <2> SUFFICES ASSUME OpsInv PROVE KernelsAreGolden
    OBVIOUS
  <2>1. Did({"encode"}) => gen_fp32_to_fp8e4m3(a) = golden
    BY EncodeIsGolden DEF OpsInv, Did
  <2> QED
    BY <2>1 DEF OpsInv, KernelsAreGolden
<1> QED
  BY <1>1, OpsInvIsInvariant, PTL
-----------------------------------------------------------------------------
(* The scale of a row.  Magnitudes are ordered by exponent, then mantissa. *)
AtMost(x, y) == x.e < y.e \/ (x.e = y.e /\ x.m <= y.m)
BZero == [s |-> 0, e |-> 0, m |-> 0]

(* top is a largest magnitude of the row, and the one the scale is of.     *)
TopOfRow(row, top) ==
  /\ top \in BFloat
  /\ \A i \in 1 .. Len(row) : AtMost(row[i], top)
  /\ top = BZero \/ \E i \in 1 .. Len(row) : top = row[i]
  /\ derive_a_shift(row) = IF top.e = 0 /\ top.m = 0 THEN 0 ELSE ShiftOf(top)
HasTop(row) == \E top : TopOfRow(row, top)

LEMMA BFields ==
  /\ BZero \in BFloat
  /\ \A x \in BFloat : x.s \in {0, 1} /\ x.e \in 0 .. EMAX /\ x.m \in 0 .. 2^BM - 1 /\ x.e \in Nat /\ x.m \in Nat
<1>1. 2^BM \in Nat \ {0} /\ EMAX \in Nat
  BY Widths, WidthAssumption
<1> DEFINE w == 2^BM
<1>2. w \in Nat \ {0}
  BY <1>1
<1> HIDE DEF w
<1>3. BFloat = [s : {0, 1}, e : 0 .. EMAX, m : 0 .. w - 1]
  BY DEF BFloat, w
<1>4. BZero \in BFloat
  BY <1>1, <1>2, <1>3 DEF BZero
<1>5. \A x \in BFloat : x.s \in {0, 1} /\ x.e \in 0 .. EMAX /\ x.m \in 0 .. w - 1 /\ x.e \in Nat /\ x.m \in Nat
  BY <1>1, <1>2, <1>3
<1> QED
  BY <1>4, <1>5 DEF w

LEMMA DeriveIs ==
  ASSUME NEW row \in Seq(BFloat)
  PROVE  HasTop(row)
<1> DEFINE n == Len(row)
           larger(x, y) == x.e < y.e \/ (x.e = y.e /\ x.m < y.m)
           next(x, i) == IF larger(x, row[i]) THEN row[i] ELSE x
           Body(f) == [i \in 0 .. n |-> IF i = 0 THEN BZero ELSE next(f[i - 1], i)]
           F == [i \in 1 .. n |-> [x \in BFloat |-> next(x, i)]]
           h == CHOOSE f : f = Body(f)
<1>1. n \in Nat /\ \A i \in 1 .. n : row[i] \in BFloat
  OBVIOUS
<1>2. derive_a_shift(row) = IF h[n].e = 0 /\ h[n].m = 0 THEN 0 ELSE ShiftOf(h[n])
  BY DEF derive_a_shift, BZero
<1> HIDE DEF n
<1>3. F \in [1 .. n -> [BFloat -> BFloat]]
  BY <1>1
<1>4. h = Body(h)
  <2>1. PICK f \in [0 .. n -> BFloat] : f[0] = BZero /\ \A i \in 1 .. n : f[i] = F[i][f[i - 1]]
    <3> HIDE DEF F
    <3>1. Iterates(n, BFloat, BZero, F)
      BY <1>1, <1>3, BFields, Iteration
    <3> QED
      BY <3>1 DEF Iterates
  <2>2. \A i \in 1 .. n : f[i - 1] \in BFloat /\ F[i][f[i - 1]] = next(f[i - 1], i)
    <3> SUFFICES ASSUME NEW i \in 1 .. n PROVE f[i - 1] \in BFloat /\ F[i][f[i - 1]] = next(f[i - 1], i)
      OBVIOUS
    <3>1. i - 1 \in 0 .. n
      BY <1>1
    <3>2. f[i - 1] \in BFloat
      BY <3>1
    <3> HIDE DEF next
    <3> QED
      BY <3>2
  <2>3. f = Body(f)
    <3> HIDE DEF next, F
    <3>1. \A i \in 0 .. n : f[i] = IF i = 0 THEN BZero ELSE next(f[i - 1], i)
      BY <1>1, <2>1, <2>2
    <3> QED
      BY <3>1
  <2> HIDE DEF Body
  <2> QED
    BY <2>3
<1>5. h[0] = BZero /\ \A i \in 1 .. n : h[i] = next(h[i - 1], i)
  <2> HIDE DEF h, next
  <2> QED
    BY <1>1, <1>4
<1> HIDE DEF h
<1> DEFINE Good(m) == /\ h[m] \in BFloat
                      /\ \A i \in 1 .. m : AtMost(row[i], h[m])
                      /\ h[m] = BZero \/ \E i \in 1 .. m : h[m] = row[i]
           S == {m \in Nat : m <= n => Good(m)}
<1>6. ASSUME NEW m \in Nat, \A l \in Nat : l < m => l \in S PROVE m \in S
  <2> SUFFICES ASSUME m <= n PROVE Good(m)
    OBVIOUS
  <2>1. CASE m = 0
    BY <2>1, <1>5, BFields
  <2>2. CASE m # 0
    <3>1. m - 1 \in Nat /\ m - 1 < m /\ m - 1 <= n /\ m \in 1 .. n
      BY <1>1, <2>2
    <3>2. Good(m - 1)
      <4> HIDE DEF Good
      <4> QED
        BY <1>6, <3>1
    <3> DEFINE y == h[m - 1]
    <3>3. h[m] = next(y, m) /\ row[m] \in BFloat
      BY <1>1, <1>5, <3>1
    <3>4. /\ y \in BFloat /\ \A i \in 1 .. m - 1 : AtMost(row[i], y)
          /\ y = BZero \/ \E i \in 1 .. m - 1 : y = row[i]
      BY <3>2
    <3> HIDE DEF y
    <3>5. /\ y.e \in Nat /\ y.m \in Nat /\ row[m].e \in Nat /\ row[m].m \in Nat
      BY <3>3, <3>4, BFields
    <3>6. \A i \in 1 .. m : i = m \/ i \in 1 .. m - 1
      BY <3>1
    <3>7. CASE larger(y, row[m])
      <4>1. h[m] = row[m]
        BY <3>3, <3>7
      <4>2. AtMost(row[m], row[m])
        BY <3>5 DEF AtMost
      <4>3. \A i \in 1 .. m - 1 : AtMost(row[i], row[m])
        <5> SUFFICES ASSUME NEW i \in 1 .. m - 1 PROVE AtMost(row[i], row[m])
          OBVIOUS
        <5>1. row[i].e \in Nat /\ row[i].m \in Nat /\ AtMost(row[i], y)
          <6>1. i \in 1 .. n
            BY <3>1, <1>1
          <6> QED
            BY <6>1, <1>1, <3>4, BFields
        <5> QED
          BY <5>1, <3>5, <3>7 DEF AtMost
      <4>4. \A i \in 1 .. m : AtMost(row[i], h[m])
        BY <4>1, <4>2, <4>3, <3>6
      <4>5. m \in 1 .. m /\ h[m] \in BFloat
        BY <4>1, <3>1, <3>3
      <4> QED
        BY <4>1, <4>4, <4>5
    <3>8. CASE ~larger(y, row[m])
      <4>1. h[m] = y
        BY <3>3, <3>8
      <4>2. AtMost(row[m], y)
        BY <3>5, <3>8 DEF AtMost
      <4>3. \A i \in 1 .. m - 1 : i \in 1 .. m
        BY <3>1
      <4> HIDE DEF larger
      <4> QED
        BY <4>1, <4>2, <4>3, <3>4, <3>6
    <3> QED
      BY <3>7, <3>8
  <2> QED
    BY <2>1, <2>2
<1>7. S = Nat
  <2>1. S \in SUBSET Nat
    OBVIOUS
  <2> HIDE DEF S
  <2> QED
    BY <1>6, <2>1, NatSets
<1>8. Good(n)
  <2> HIDE DEF Good
  <2> QED
    BY <1>1, <1>7
<1>9. TopOfRow(row, h[n])
  BY <1>2, <1>8 DEF TopOfRow, n
<1> QED
  BY <1>9 DEF HasTop

LEMMA Scaling ==
  ASSUME NEW d \in Nat \ {0}, NEW u \in Nat, NEW v \in Nat
  PROVE  u > v <=> u * d > v * d
<1> DEFINE x == u - v
<1>1. x \in Int /\ u = v + x
  OBVIOUS
<1> HIDE DEF x
<1>2. u * d = v * d + d * x /\ v * d \in Nat /\ d * x \in Int
  BY <1>1
<1>3. (x >= 1 => d * x >= d) /\ (x <= 0 => d * x <= 0)
  <2>1. x = 0 => d * x = 0
    OBVIOUS
  <2> QED
    BY <1>1, <2>1, Times
<1> DEFINE y == d * x
           w == v * d
<1>4. u * d = w + y /\ w \in Nat /\ y \in Int /\ (x >= 1 => y >= d) /\ (x <= 0 => y <= 0)
  BY <1>2, <1>3
<1> HIDE DEF y
<1>5. u > v <=> x >= 1
  BY <1>1
<1>6. u > v <=> y > 0
  BY <1>1, <1>4, <1>5
<1> HIDE DEF w
<1> QED
  BY <1>4, <1>6 DEF w

LEMMA ShiftOfNormal ==
  ASSUME NEW x \in BFloat, x.e # 0
  PROVE  ShiftOf(x) = 8 + BIAS - x.e - Flag(4 * x.m > 3 * 2^BM)
<1> DEFINE w == 2^BM
           sig == w + x.m
           p == Log2(sig)
<1>1. w \in Nat \ {0} /\ BM \in Nat /\ MB \in Nat /\ BM < MB /\ BIAS \in Nat /\ 2^(BM + 1) = 2 * w
  BY WidthAssumption, Widths, Powers
<1>2. x.e \in Nat /\ x.m \in Nat /\ x.m < w
  <2>1. x.e \in Nat /\ x.m \in 0 .. w - 1
    BY BFields
  <2> HIDE DEF w
  <2> QED
    BY <1>1, <2>1
<1> HIDE DEF w
<1>3. sig \in Nat \ {0} /\ w <= sig /\ sig < 2 * w
  BY <1>1, <1>2
<1> HIDE DEF sig
<1>4. p = BM
  <2> DEFINE t == BM + 1
             u == MB + 63
  <2>1. t \in Nat /\ u \in Nat /\ t <= u
    BY <1>1
  <2> HIDE DEF u
  <2>2. 2^t <= 2^u /\ 2^u \in Nat
    BY <2>1, PowerOrder, Powers
  <2>3. sig < 2^t
    BY <1>1, <1>3
  <2> HIDE DEF t
  <2>4. 2^t \in Nat
    BY <2>1, Powers
  <2>5. sig < 2^u
    BY <1>3, <2>2, <2>3, <2>4
  <2>6. Word(sig)
    BY <1>3, <2>5 DEF Word, u
  <2>7. Log2(sig) \in Nat /\ 2^Log2(sig) <= sig /\ sig < 2^(Log2(sig) + 1)
    BY <1>3, <2>6, Log2Is
  <2>8. 2^BM <= sig /\ sig < 2^(BM + 1)
    BY <1>3, <2>3 DEF w, t
  <2>9. sig \in Nat
    BY <1>3
  <2> QED
    BY <1>1, <2>7, <2>8, <2>9, TopIsUnique
<1>5. ShiftOf(x) = 8 - (p + (x.e - BIAS - BM)) - Flag(4 * sig > 7 * 2^p)
  BY DEF ShiftOf, PowerInto448, sig, w
<1> HIDE DEF p
<1>6. 4 * sig > 7 * 2^p <=> 4 * x.m > 3 * w
  <2>1. 2^p = w
    BY <1>4 DEF w
  <2>2. 4 * sig > 7 * w <=> 4 * x.m > 3 * w
    BY <1>1, <1>2 DEF sig
  <2> QED
    BY <2>1, <2>2
<1>7. Flag(4 * sig > 7 * 2^p) = Flag(4 * x.m > 3 * w) /\ Flag(4 * x.m > 3 * w) \in {0, 1}
  BY <1>6 DEF Flag
<1>8. ShiftOf(x) = 8 + BIAS - x.e - Flag(4 * x.m > 3 * w)
  <2> DEFINE f == Flag(4 * x.m > 3 * w)
  <2>1. ShiftOf(x) = 8 - (BM + (x.e - BIAS - BM)) - f /\ f \in {0, 1}
    BY <1>4, <1>5, <1>7
  <2> HIDE DEF f
  <2>2. ShiftOf(x) = 8 + BIAS - x.e - f
    BY <1>1, <1>2, <2>1
  <2> QED
    BY <2>2 DEF f
<1> QED
  BY <1>8 DEF w

LEMMA Widened ==
  ASSUME NEW x \in BFloat
  PROVE  /\ bf16_to_fp32(x) \in Float
         /\ bf16_to_fp32(x).s = x.s /\ bf16_to_fp32(x).e = x.e
         /\ bf16_to_fp32(x).m = x.m * 2^(MB - BM)
<1> DEFINE w == 2^BM
           d == 2^(MB - BM)
<1>1. w \in Nat \ {0} /\ d \in Nat \ {0} /\ Hidden = w * d
  <2> DEFINE t == MB - BM
  <2>1. t \in Nat /\ BM \in Nat /\ BM + t = MB
    BY WidthAssumption
  <2> HIDE DEF t
  <2> QED
    BY <2>1, Powers, PowerSum DEF t, Hidden
<1>2. x.s \in {0, 1} /\ x.e \in 0 .. EMAX /\ x.m \in 0 .. w - 1
  BY BFields
<1>3. x = [s |-> x.s, e |-> x.e, m |-> x.m]
  BY DEF BFloat
<1>4. bf16_to_fp32(x) = [s |-> x.s, e |-> x.e, m |-> x.m * d]
  BY <1>3 DEF bf16_to_fp32
<1> HIDE DEF w, d
<1>5. x.m * d \in 0 .. Hidden - 1
  <2>1. x.m \in Nat /\ w \in Nat /\ w > x.m
    BY <1>1, <1>2
  <2>2. w * d > x.m * d /\ x.m * d \in Nat /\ w * d \in Nat
    BY <1>1, <2>1, Scaling
  <2> QED
    BY <1>1, <2>2
<1>6. [s |-> x.s, e |-> x.e, m |-> x.m * d] \in Float
  BY <1>2, <1>5 DEF Float
<1> QED
  BY <1>4, <1>6 DEF d

LEMMA ScaledExceeds ==
  ASSUME NEW x \in BFloat, Finite(x), NEW n \in Int
  PROVE  Exceeds448(fp32_scale_pow2(bf16_to_fp32(x), n)) <=>
           /\ x.e # 0
           /\ x.e + n > BIAS + 8 \/ (x.e + n = BIAS + 8 /\ 4 * x.m > 3 * 2^BM)
<1> DEFINE f == bf16_to_fp32(x)
           w == 2^BM
           d == 2^(MB - BM)
           q == 2^(MB - 2)
           r == fp32_scale_pow2(f, n)
<1>1. EMAX \in Nat /\ EMAX = 2 * BIAS + 1 /\ BIAS \in Nat /\ BIAS >= 31
  <2> DEFINE t == 5
             u == EB - 1
  <2>1. t \in Nat /\ u \in Nat /\ t <= u
    BY WidthAssumption, CodecAssumption
  <2> HIDE DEF t, u
  <2>2. 2^t <= 2^u /\ 2^u \in Nat
    BY <2>1, PowerOrder, Powers
  <2>3. 2^t = 32
    BY SmallPowers DEF t
  <2>4. 2^u >= 32
    BY <2>2, <2>3
  <2>5. BIAS = 2^u - 1
    BY DEF BIAS, u
  <2>6. BIAS >= 31
    BY <2>2, <2>4, <2>5
  <2> QED
    BY <2>6, Widths
<1>2. /\ f.s = x.s /\ f.e = x.e /\ f.m = x.m * d
      /\ x.e \in Nat /\ x.m \in Nat /\ x.e < EMAX
      /\ f = [s |-> f.s, e |-> f.e, m |-> f.m]
  BY Widened, BFields DEF Finite, Float
<1>3. w \in Nat /\ d \in Nat \ {0} /\ q \in Nat /\ 4 * q = w * d
  <2> DEFINE t == MB - BM
             u == MB - 2
             v == 2
  <2>1. t \in Nat /\ u \in Nat /\ BM \in Nat /\ BM + t = MB /\ v + u = MB /\ v \in Nat
    BY WidthAssumption, CodecAssumption
  <2> HIDE DEF t, u, v
  <2>2. 2^(BM + t) = 2^BM * 2^t /\ 2^(v + u) = 2^v * 2^u
    BY <2>1, PowerSum
  <2>3. 2^v = 4
    BY SmallPowers DEF v
  <2> QED
    BY <2>1, <2>2, <2>3, Powers DEF t, u
<1> HIDE DEF f, w, d, q
<1>4. f.m > 3 * q <=> 4 * x.m > 3 * w
  <2> DEFINE u == 4 * x.m
             v == 3 * w
  <2>1. u \in Nat /\ v \in Nat
    BY <1>2, <1>3
  <2>2. u * d = 4 * (x.m * d) /\ v * d = 3 * (w * d)
    BY <1>2, <1>3
  <2>3. x.m * d \in Nat /\ w * d \in Nat
    BY <1>2, <1>3
  <2> HIDE DEF u, v
  <2>4. u > v <=> u * d > v * d
    BY <1>3, <2>1, Scaling
  <2>5. u > v <=> 4 * f.m > 3 * (4 * q)
    BY <1>2, <1>3, <2>2, <2>4
  <2>6. f.m \in Nat
    BY <1>2, <2>3
  <2> QED
    BY <1>3, <2>5, <2>6 DEF u, v
<1>5. Exceeds448(r) <=> r.e > BIAS + 8 \/ (r.e = BIAS + 8 /\ r.m > 3 * q)
  BY DEF Exceeds448, q
<1>6. CASE x.e = 0 \/ x.e + n <= 0
  <2>1. r = Zero(f.s)
    BY <1>1, <1>2, <1>6 DEF fp32_scale_pow2
  <2>2. r.e = 0
    BY <2>1 DEF Zero
  <2> HIDE DEF r
  <2> QED
    BY <1>1, <1>2, <1>5, <1>6, <2>2 DEF f, r, w
<1>7. CASE x.e # 0 /\ x.e + n >= EMAX
  <2>1. r = Inf(f.s)
    BY <1>1, <1>2, <1>7 DEF fp32_scale_pow2
  <2>2. r.e = EMAX
    BY <2>1 DEF Inf
  <2> HIDE DEF r
  <2> QED
    BY <1>1, <1>2, <1>5, <1>7, <2>2 DEF f, r, w
<1>8. CASE x.e # 0 /\ 0 < x.e + n /\ x.e + n < EMAX
  <2>1. r = [f EXCEPT !.e = f.e + n]
    BY <1>1, <1>2, <1>8 DEF fp32_scale_pow2
  <2>2. r.e = x.e + n /\ r.m = f.m
    BY <1>2, <2>1
  <2> HIDE DEF r
  <2> QED
    BY <1>4, <1>5, <1>8, <2>2 DEF f, r, w
<1> QED
  BY <1>1, <1>2, <1>6, <1>7, <1>8

TileInv == tile.A = << >> \/ tile \in Tile

LEMMA TileInvariant == NumericsSpec => []TileInv
<1>1. NumericsInit => TileInv
  BY DEF NumericsInit, GemmIdle, GemmInit, TileInv
<1>2. TileInv /\ [NumericsNext]_<<opsVars, gemmVars>> => TileInv'
  BY DEF TileInv, NumericsNext, gemmVars, GemmNext, Quantize, Accumulate, Fold, Column
<1> QED
  BY <1>1, <1>2, PTL DEF NumericsSpec

LEMMA DerivedIsTight ==
  ASSUME tile \in Tile
  PROVE  DerivedShiftIsTight
<1> DEFINE row == tile.A
           three == 3 * 2^BM
           over(x, n) == x.e + n > BIAS + 8 \/ (x.e + n = BIAS + 8 /\ 4 * x.m > three)
<1> SUFFICES ASSUME Derived
             PROVE  /\ \A i \in DOMAIN row : ~Exceeds448(Scaled(i, 0))
                    /\ \E i \in DOMAIN row : Exceeds448(Scaled(i, 1))
  BY DEF DerivedShiftIsTight
<1>1. row \in Seq(BFloat) /\ \A i \in 1 .. Len(row) : row[i] \in BFloat /\ Finite(row[i])
  BY TileAssumption
<1>2. DOMAIN row = 1 .. Len(row)
  BY <1>1
<1>3. PICK top : TopOfRow(row, top)
  BY <1>1, DeriveIs DEF HasTop
<1>4. \A i \in 1 .. Len(row) : row[i].e \in Nat /\ row[i].m \in Nat
  BY <1>1, BFields
<1>5. top.e # 0 /\ top.e \in Nat /\ top.m \in Nat
  <2>1. PICK i \in 1 .. Len(row) : row[i].e # 0
    BY <1>2 DEF Derived
  <2>2. AtMost(row[i], top) /\ top \in BFloat
    BY <1>3 DEF TopOfRow
  <2> QED
    BY <1>4, <2>1, <2>2, BFields DEF AtMost
<1>6. PICK t \in 1 .. Len(row) : top = row[t]
  BY <1>3, <1>5 DEF TopOfRow, BZero
<1>7. ash = ShiftOf(top)
  BY <1>3, <1>5 DEF TopOfRow, Derived
<1> DEFINE f == Flag(4 * top.m > three)
<1>8. ash = 8 + BIAS - top.e - f
  BY <1>5, <1>7, <1>3, ShiftOfNormal DEF TopOfRow
<1>9. f \in {0, 1} /\ (f = 1 <=> 4 * top.m > three) /\ BIAS \in Nat /\ three \in Nat
  <2>1. BIAS \in Nat /\ 2^BM \in Nat
    BY Widths, WidthAssumption
  <2> QED
    BY <2>1 DEF Flag
<1>10. ash \in Int
  BY <1>5, <1>8, <1>9
<1> HIDE DEF f
<1>11. \A i \in 1 .. Len(row) : \A n \in Int :
         Exceeds448(fp32_scale_pow2(bf16_to_fp32(row[i]), n)) <=> row[i].e # 0 /\ over(row[i], n)
  BY <1>1, ScaledExceeds DEF three
<1> HIDE DEF three
<1>12. ASSUME NEW i \in 1 .. Len(row) PROVE ~Exceeds448(Scaled(i, 0))
  <2>1. ash + 0 = ash
    BY <1>10
  <2>2. AtMost(row[i], top)
    BY <1>3 DEF TopOfRow
  <2> DEFINE e == row[i].e
             m == row[i].m
             te == top.e
             tm == top.m
  <2>a. e \in Nat /\ m \in Nat /\ te \in Nat /\ tm \in Nat /\ (e < te \/ (e = te /\ m <= tm))
    BY <1>4, <1>5, <2>2 DEF AtMost
  <2>b. ash = 8 + BIAS - te - f /\ (f = 1 <=> 4 * tm > three)
    BY <1>8, <1>9
  <2> HIDE DEF e, m, te, tm
  <2>c. ~(e + ash > BIAS + 8) /\ ~(e + ash = BIAS + 8 /\ 4 * m > three)
    BY <1>9, <2>a, <2>b
  <2>3. ~over(row[i], ash)
    BY <2>c DEF e, m
  <2> HIDE DEF over
  <2>4. Scaled(i, 0) = fp32_scale_pow2(bf16_to_fp32(row[i]), ash)
    BY <2>1 DEF Scaled
  <2> HIDE DEF row
  <2> QED
    BY <1>10, <1>11, <2>3, <2>4
<1>13. Exceeds448(Scaled(t, 1))
  <2> DEFINE te == top.e
             tm == top.m
  <2>a. te \in Nat /\ tm \in Nat /\ te # 0
    BY <1>5
  <2>b. ash = 8 + BIAS - te - f /\ (f = 1 <=> 4 * tm > three)
    BY <1>8, <1>9
  <2> HIDE DEF te, tm
  <2>c. (te + (ash + 1) > BIAS + 8 \/ (te + (ash + 1) = BIAS + 8 /\ 4 * tm > three)) /\ ash + 1 \in Int
    BY <1>9, <2>a, <2>b
  <2>1. over(row[t], ash + 1) /\ row[t].e # 0 /\ ash + 1 \in Int
    BY <1>5, <1>6, <2>c DEF te, tm
  <2>2. Scaled(t, 1) = fp32_scale_pow2(bf16_to_fp32(row[t]), ash + 1)
    BY DEF Scaled
  <2> HIDE DEF over, row
  <2> QED
    BY <1>11, <2>1, <2>2
<1> HIDE DEF row, over
<1> QED
  BY <1>2, <1>6, <1>12, <1>13

(* The activation scale derived for a row puts its largest element in the  *)
(* top binade of the code range: nothing of the row exceeds 448, and with  *)
(* the next larger power of two something would, for every finite row of   *)
(* every length and every width of the formats.                            *)
THEOREM AlwaysTight == NumericsSpec => []DerivedShiftIsTight
<1>1. TileInv => DerivedShiftIsTight
  <2>1. CASE tile \in Tile
    BY <2>1, DerivedIsTight
  <2>2. CASE tile.A = << >>
    BY <2>2 DEF DerivedShiftIsTight, Derived
  <2> QED
    BY <2>1, <2>2 DEF TileInv
<1> QED
  BY <1>1, TileInvariant, PTL
-----------------------------------------------------------------------------
(* Rounding.  What a significand of MB+1 bits, or the power of two above   *)
(* it, is packed to.                                                       *)
Finish(s, e, sig) ==
  LET v == IF sig = 2 * Hidden THEN 1 ELSE 0
  IN  IF e + v >= EMAX THEN Inf(s)
      ELSE IF e + v <= 0 THEN Zero(s)
      ELSE [s |-> s, e |-> e + v, m |-> IF v = 1 THEN 0 ELSE sig - Hidden]

LEMMA PackIs ==
  ASSUME NEW s, NEW e, NEW m \in Nat, NEW u \in {0, 1}, Hidden <= m, m < 2 * Hidden
  PROVE  Pack(s, e, m, u) = Finish(s, e, m + u)
<1> DEFINE sig == m + u
           H == Hidden
           c == Bit(sig, MB + 1)
<1>1. H \in Nat \ {0} /\ 2^(MB + 1) = 2 * H /\ 2^0 = 1 /\ 2^1 = 2
  <2>1. MB \in Nat
    BY WidthAssumption
  <2>2. 2^(MB + 1) = 2 * 2^MB /\ 2^MB \in Nat \ {0}
    BY <2>1, Powers
  <2> QED
    BY <2>2, SmallPowers DEF Hidden
<1>2. c = (sig \div (2 * H)) % 2
  BY <1>1 DEF Bit
<1>3. Pack(s, e, m, u) = IF e + c >= EMAX THEN Inf(s) ELSE IF e + c <= 0 THEN Zero(s)
                         ELSE [s |-> s, e |-> e + c, m |-> (sig \div 2^c) % H]
  BY DEF Pack
<1>4. sig \in Nat /\ H <= sig /\ sig <= 2 * H
  BY <1>1
<1> HIDE DEF sig, H, c
<1>5. CASE sig = 2 * H
  <2>1. (2 * H) \div (2 * H) = 1 /\ (2 * H) \div 2 = H /\ H % H = 0
    <3> DEFINE w == 2 * H
    <3>1. w \in Nat \ {0} /\ w = w * 1 + 0 /\ w = 2 * H + 0 /\ H = H * 1 + 0
      BY <1>1
    <3>2. w \div w = 1
      <4>1. w * 1 + 0 = w
        BY <3>1
      <4> HIDE DEF w
      <4> QED
        BY <3>1, <4>1, DivisionIsUnique
    <3>3. w \div 2 = H
      BY <1>1
    <3>4. H % H = 0
      BY <1>1, <3>1, DivisionIsUnique
    <3> QED
      BY <3>2, <3>3, <3>4
  <2>2. c = 1
    BY <1>2, <1>5, <2>1
  <2>3. (sig \div 2^c) % H = 0
    BY <1>1, <1>5, <2>1, <2>2
  <2> QED
    BY <1>1, <1>3, <1>5, <2>2, <2>3 DEF Finish, sig, H
<1>6. CASE sig # 2 * H
  <2>1. sig \div (2 * H) = 0
    <3> DEFINE w == 2 * H
    <3>1. w \in Nat \ {0} /\ sig < w
      BY <1>1, <1>4, <1>6
    <3> HIDE DEF w
    <3>2. sig \div w = 0
      BY <1>4, <3>1, Division
    <3> QED
      BY <3>2 DEF w
  <2>2. c = 0
    BY <1>2, <2>1
  <2>3. sig \div 2^c = sig
    BY <1>1, <1>4, <2>2
  <2>4. sig % H = sig - H
    <3> DEFINE t == sig - H
    <3>1. sig = H * 1 + t /\ t \in 0 .. H - 1 /\ sig \in Int
      BY <1>1, <1>4, <1>6
    <3> HIDE DEF t
    <3>2. sig % H = t
      BY <1>1, <3>1, DivisionIsUnique
    <3> QED
      BY <3>2 DEF t
  <2> QED
    BY <1>3, <1>6, <2>2, <2>3, <2>4 DEF Finish, sig, H
<1> QED
  BY <1>5, <1>6

(* The multiple of 2^d nearest to n, from the guard bit and what is below. *)
LEMMA NearestIs ==
  ASSUME NEW n \in Nat, NEW d \in Nat \ {0}
  PROVE  NearestEven(n, d) = n \div 2^d + RoundUp(Bit(n, d - 1), Low(n, d - 1) # 0, n \div 2^d)
<1> DEFINE h == 2^(d - 1)
           w == 2^d
           q == n \div w
           r == n % w
           l == n % h
           g == (n \div h) % 2
           below == n - q * w
<1>1. d - 1 \in Nat /\ (d - 1) + 1 = d
  OBVIOUS
<1>2. h \in Nat \ {0} /\ w = 2 * h /\ w = h * 2 /\ w \in Nat \ {0}
  BY <1>1, Powers
<1>3. NearestEven(n, d) = IF below < w - below \/ (below = w - below /\ q % 2 = 0) THEN q ELSE q + 1
  BY DEF NearestEven
<1>4. Bit(n, d - 1) = g /\ Low(n, d - 1) = l
  BY DEF Bit, Low
<1> HIDE DEF h, w
<1>5. q \in Nat /\ r \in Nat /\ r < w /\ n = w * q + r
  <2>1. q \in Nat /\ r \in 0 .. w - 1 /\ n = w * q + r
    BY <1>2, Division
  <2> HIDE DEF q, r
  <2> QED
    BY <1>2, <2>1
<1>6. r = h * g + l /\ l \in Nat /\ l < h /\ g \in {0, 1}
  <2>1. 2 \in Nat \ {0}
    OBVIOUS
  <2>2. n % (h * 2) = h * ((n \div h) % 2) + (n % h)
    BY <1>2, <2>1, NestedDivision
  <2>3. n % h \in 0 .. h - 1 /\ n \div h \in Nat
    BY <1>2, Division
  <2>4. (n \div h) % 2 \in {0, 1}
    BY <2>3
  <2> QED
    BY <1>2, <2>2, <2>3, <2>4
<1>7. Bit(q, 0) = q % 2
  <2>1. q \div 1 = q
    BY <1>5
  <2> QED
    BY <2>1, SmallPowers DEF Bit
<1>8. below = r
  BY <1>2, <1>5
<1> HIDE DEF q, r, l, g, below
<1>9. h * g = IF g = 1 THEN h ELSE 0
  BY <1>2, <1>6
<1>10. (below < w - below <=> g = 0) /\ (below = w - below <=> g = 1 /\ l = 0)
  BY <1>2, <1>6, <1>8, <1>9
<1>11. RoundUp(g, l # 0, q) = IF g = 1 /\ (l # 0 \/ q % 2 = 1) THEN 1 ELSE 0
  BY <1>7 DEF RoundUp, Flag
<1>12. q % 2 = 0 \/ q % 2 = 1
  BY <1>5
<1>13. NearestEven(n, d) = q + RoundUp(g, l # 0, q)
  BY <1>3, <1>5, <1>6, <1>10, <1>11, <1>12
<1> QED
  BY <1>4, <1>13 DEF q, w

LEMMA RoundedIs ==
  ASSUME NEW s, NEW n \in Nat \ {0}, NEW p \in Nat, 2^p <= n, n < 2^(p + 1),
         p <= 2 * MB + 6 + 2^HALVINGS, NEW e0
  PROVE  Rounded(s, n, e0) = Finish(s, e0 + p - MB, IF p > MB THEN NearestEven(n, p - MB) ELSE n * 2^(MB - p))
<1> DEFINE u == 2 * MB + 6 + 2^HALVINGS
<1>1. u \in Nat
  BY WidthAssumption, SearchAssumption, Powers
<1>2. TopPower(n) = TopOf(n, u)
  BY DEF TopPower, TopOf
<1>3. p <= u
  OBVIOUS
<1> HIDE DEF u
<1>4. n < 2^(u + 1)
  <2>1. p + 1 \in Nat /\ u + 1 \in Nat /\ p + 1 <= u + 1
    BY <1>1, <1>3
  <2>2. 2^(p + 1) <= 2^(u + 1) /\ 2^(p + 1) \in Nat /\ 2^(u + 1) \in Nat
    BY <2>1, PowerOrder, Powers
  <2> QED
    BY <2>2
<1>5. TopOf(n, u) \in Nat /\ 2^TopOf(n, u) <= n /\ n < 2^(TopOf(n, u) + 1)
  BY <1>1, <1>4, TopOfIs
<1>6. TopPower(n) = p
  <2> DEFINE t == TopOf(n, u)
  <2>1. t \in Nat /\ 2^t <= n /\ n < 2^(t + 1) /\ n \in Nat
    BY <1>5
  <2> HIDE DEF t
  <2>2. t = p
    BY <2>1, TopIsUnique
  <2> QED
    BY <1>2, <2>2 DEF t
<1> QED
  BY <1>6 DEF Rounded, Finish

LEMMA BetweenSquares ==
  ASSUME NEW H \in Nat \ {0}, NEW t \in Nat, NEW u \in Nat, H <= t, t < 2 * H, H <= u, u < 2 * H
  PROVE  t * u \in Nat /\ H * H <= t * u /\ t * u < 4 * (H * H)
<1> DEFINE i == t - H
           l == u - H
<1>1. i \in Nat /\ l \in Nat /\ t = H + i /\ u = H + l /\ i < H /\ l < H
  OBVIOUS
<1> HIDE DEF i, l
<1>2. t * u = H * H + H * i + H * l + i * l
  BY <1>1
<1>3. H * i \in Nat /\ H * l \in Nat /\ i * l \in Nat /\ H * H \in Nat
  BY <1>1
<1>4. H * i < H * H /\ H * l < H * H /\ i * l <= H * l
  <2>1. H > i /\ H > l
    BY <1>1
  <2>2. H * H > i * H /\ H * H > l * H
    BY <1>1, <2>1, Scaling
  <2>3. i * l <= H * l
    <3>1. CASE l = 0
      BY <1>1, <3>1
    <3>2. CASE l # 0
      BY <1>1, <2>1, <3>2, Scaling
    <3> QED
      BY <3>1, <3>2
  <2> QED
    BY <1>1, <2>2, <2>3
<1> DEFINE a1 == H * i
           a2 == H * l
           a3 == i * l
           a4 == H * H
<1>5. t * u = a4 + a1 + a2 + a3 /\ a1 \in Nat /\ a2 \in Nat /\ a3 \in Nat /\ a4 \in Nat /\ a1 < a4 /\ a2 < a4 /\ a3 <= a2
  BY <1>2, <1>3, <1>4
<1> HIDE DEF a1, a2, a3, a4
<1>6. t * u \in Nat /\ a4 <= t * u /\ t * u < 4 * a4
  BY <1>5
<1> QED
  BY <1>6 DEF a4

LEMMA ProductIsRounded ==
  ASSUME NEW x \in Float, NEW y \in Float, Ordinary(x), Ordinary(y)
  PROVE  fp32_mul(x, y) = RoundedProduct(x, y)
<1> DEFINE H    == Hidden
           s    == SignOf(x, y)
           prod == Sig(x) * Sig(y)
           top  == Bit(prod, 2 * MB + 1)
           cut  == MB + top
           p    == 2 * MB + top
           mant == prod \div 2^cut
           up   == RoundUp(Bit(prod, cut - 1), Low(prod, cut - 1) # 0, mant)
           exp0 == x.e + y.e - BIAS
           h    == H * H
<1>1. MB \in Nat \ {0} /\ H \in Nat \ {0} /\ BIAS \in Int /\ x.e \in Int /\ y.e \in Int
  BY Widths, WidthAssumption, Fields
<1>2. fp32_mul(x, y) = Pack(s, exp0 + top, mant, up)
  <2>1. ~is_nan(x) /\ ~is_nan(y) /\ ~is_inf(x) /\ ~is_inf(y) /\ ~is_zero(x) /\ ~is_zero(y)
    BY Widths DEF Ordinary, is_nan, is_inf, is_zero
  <2>2. fp32_mul(x, y) =
        IF is_nan(x) \/ is_nan(y) THEN QNaN
        ELSE IF is_inf(x) \/ is_inf(y) THEN IF is_zero(x) \/ is_zero(y) THEN QNaN ELSE Inf(s)
        ELSE IF is_zero(x) \/ is_zero(y) THEN Zero(s) ELSE Pack(s, exp0 + top, mant, up)
    BY DEF fp32_mul
  <2> QED
    BY <2>1, <2>2
<1>3. prod \in Nat /\ h \in Nat \ {0} /\ h <= prod /\ prod < 4 * h
  <2>1. Sig(x) \in Nat /\ H <= Sig(x) /\ Sig(x) < 2 * H /\ Sig(y) \in Nat /\ H <= Sig(y) /\ Sig(y) < 2 * H
    BY Fields
  <2> DEFINE sx == Sig(x)
             sy == Sig(y)
  <2>2. sx \in Nat /\ sy \in Nat /\ H <= sx /\ sx < 2 * H /\ H <= sy /\ sy < 2 * H /\ H \in Nat \ {0}
    BY <1>1, <2>1
  <2> HIDE DEF sx, sy, H
  <2>3. sx * sy \in Nat /\ H * H <= sx * sy /\ sx * sy < 4 * (H * H)
    BY <2>2, BetweenSquares
  <2>4. H * H \in Nat \ {0}
    BY <1>1
  <2> QED
    BY <2>3, <2>4 DEF sx, sy
<1>4. 2^(2 * MB) = h /\ 2^(2 * MB + 1) = 2 * h /\ 2^(2 * MB + 2) = 4 * h
      /\ 2^(MB + 1) = 2 * H /\ 2^MB = H
  <2>1. MB + MB = 2 * MB /\ 2 * MB \in Nat /\ 2 * MB + 1 \in Nat /\ (2 * MB + 1) + 1 = 2 * MB + 2
    BY <1>1
  <2>2. 2^(MB + MB) = 2^MB * 2^MB
    BY <1>1, PowerSum
  <2> DEFINE z == 2 * MB
  <2>3. 2^(z + 1) = 2 * 2^z /\ 2^((z + 1) + 1) = 2 * 2^(z + 1) /\ 2^(MB + 1) = 2 * 2^MB
    <3>1. z \in Nat /\ z + 1 \in Nat
      BY <2>1
    <3> HIDE DEF z
    <3> QED
      BY <1>1, <3>1, Powers
  <2>4. 2^(2 * MB) = h
    BY <2>1, <2>2 DEF Hidden
  <2> HIDE DEF h
  <2> QED
    BY <1>3, <2>1, <2>3, <2>4 DEF Hidden
<1> HIDE DEF prod
<1>5. top = IF prod >= 2 * h THEN 1 ELSE 0
  <2> DEFINE w == 2 * h
  <2>1. top = (prod \div w) % 2
    BY <1>4 DEF Bit
  <2>2. w \in Nat \ {0} /\ prod < w * 2
    BY <1>3
  <2> HIDE DEF w
  <2>3. CASE prod >= w
    <3>1. prod = w * 1 + (prod - w) /\ prod - w \in 0 .. w - 1
      BY <1>3, <2>2, <2>3
    <3>2. prod \div w = 1
      BY <1>3, <2>2, <3>1, DivisionIsUnique
    <3> QED
      BY <2>1, <2>3, <3>2 DEF w
  <2>4. CASE ~(prod >= w)
    <3>1. prod < w /\ prod \in Nat
      BY <1>3, <2>2, <2>4
    <3>2. prod \div w = 0
      BY <2>2, <3>1, Division
    <3> QED
      BY <2>1, <2>4, <3>2 DEF w
  <2> QED
    BY <2>3, <2>4
<1> HIDE DEF h
<1>6. top \in {0, 1} /\ cut \in Nat \ {0} /\ p \in Nat /\ p > MB /\ p - MB = cut
  <2>1. top \in {0, 1}
    BY <1>5
  <2> HIDE DEF top
  <2> QED
    BY <1>1, <2>1
<1>7. 2^p <= prod /\ prod < 2^(p + 1)
  <2>1. CASE top = 1
    <3>1. p = 2 * MB + 1 /\ p + 1 = 2 * MB + 2
      BY <1>1, <2>1
    <3> QED
      BY <1>3, <1>4, <1>5, <2>1, <3>1
  <2>2. CASE top = 0
    <3>1. p = 2 * MB /\ p + 1 = 2 * MB + 1
      BY <1>1, <2>2
    <3> QED
      BY <1>3, <1>4, <1>5, <2>2, <3>1
  <2> QED
    BY <1>6, <2>1, <2>2
<1> HIDE DEF top
<1>8. mant \in Nat /\ H <= mant /\ mant < 2 * H
  <2>1. p = cut + MB /\ p + 1 = cut + (MB + 1)
    BY <1>1, <1>6
  <2>2. 2^p = 2^cut * H /\ 2^(p + 1) = 2^cut * (2 * H) /\ 2^cut \in Nat \ {0}
    <3> HIDE DEF cut, p
    <3>1. cut \in Nat /\ MB \in Nat /\ MB + 1 \in Nat
      BY <1>1, <1>6
    <3>2. 2^(cut + MB) = 2^cut * 2^MB /\ 2^(cut + (MB + 1)) = 2^cut * 2^(MB + 1)
      BY <3>1, PowerSum
    <3> QED
      BY <1>4, <2>1, <3>1, <3>2, Powers
  <2> DEFINE d == 2^cut
  <2>3. d \in Nat \ {0} /\ d * H <= prod /\ prod < d * (2 * H)
    BY <1>7, <2>2
  <2>4. H \in Nat /\ 2 * H \in Nat
    BY <1>1
  <2> HIDE DEF d, H
  <2>5. H <= prod \div d /\ prod \div d < 2 * H
    <3> DEFINE hh == 2 * H
    <3>1. hh \in Nat /\ prod < d * hh
      BY <2>3, <2>4
    <3> HIDE DEF hh
    <3>2. H <= prod \div d /\ prod \div d < hh
      BY <1>3, <2>3, <2>4, <3>1, Quotients
    <3> QED
      BY <3>2 DEF hh
  <2>6. prod \div d \in Nat
    BY <1>3, <2>3, Division
  <2> QED
    BY <2>5, <2>6 DEF d
<1>9. up \in {0, 1}
  BY DEF RoundUp, Flag
<1>10. Pack(s, exp0 + top, mant, up) = Finish(s, exp0 + top, mant + up)
  <2> HIDE DEF s, exp0, mant, up, H
  <2> QED
    BY <1>8, <1>9, PackIs DEF H
<1>11. NearestEven(prod, cut) = mant + up
  <2> HIDE DEF cut
  <2> QED
    BY <1>3, <1>6, NearestIs
<1>12. Rounded(s, prod, x.e + y.e - BIAS - MB)
         = Finish(s, x.e + y.e - BIAS - MB + p - MB, IF p > MB THEN NearestEven(prod, p - MB) ELSE prod * 2^(MB - p))
  <2>1. p <= 2 * MB + 6 + 2^HALVINGS
    <3>1. 2^HALVINGS \in Nat
      BY SearchAssumption, Powers
    <3> QED
      BY <1>1, <1>6, <3>1
  <2>2. prod \in Nat \ {0}
    BY <1>3
  <2> HIDE DEF p
  <2> QED
    BY <1>6, <1>7, <2>1, <2>2, RoundedIs
<1>13. x.e + y.e - BIAS - MB + p - MB = exp0 + top
  BY <1>1, <1>6
<1>14. Rounded(s, prod, x.e + y.e - BIAS - MB) = Finish(s, exp0 + top, mant + up)
  <2> HIDE DEF mant, up, exp0, s, cut, p
  <2> QED
    BY <1>6, <1>11, <1>12, <1>13
<1> QED
  BY <1>2, <1>10, <1>14 DEF RoundedProduct, prod

(* A number moved to where a significand has its top bit.                  *)
LEMMA Significand ==
  ASSUME NEW n \in Nat, NEW p \in Nat, 2^p <= n, n < 2^(p + 1)
  PROVE  /\ p >= MB => n \div 2^(p - MB) \in Nat /\ Hidden <= n \div 2^(p - MB) /\ n \div 2^(p - MB) < 2 * Hidden
         /\ p <= MB => n * 2^(MB - p) \in Nat /\ Hidden <= n * 2^(MB - p) /\ n * 2^(MB - p) < 2 * Hidden
<1> DEFINE H == Hidden
<1>1. MB \in Nat /\ MB + 1 \in Nat /\ H \in Nat \ {0} /\ 2^MB = H /\ 2^(MB + 1) = 2 * H
      /\ 2^p \in Nat \ {0} /\ 2^(p + 1) = 2 * 2^p
  <2>1. MB \in Nat
    BY WidthAssumption
  <2> QED
    BY <2>1, Powers DEF Hidden
<1> HIDE DEF H
<1>2. ASSUME p >= MB
      PROVE  n \div 2^(p - MB) \in Nat /\ H <= n \div 2^(p - MB) /\ n \div 2^(p - MB) < 2 * H
  <2> DEFINE c == p - MB
             d == 2^c
             w == 2 * H
  <2>1. c \in Nat /\ c + MB = p /\ c + (MB + 1) = p + 1
    BY <1>1, <1>2
  <2> HIDE DEF c
  <2>2. d \in Nat \ {0} /\ 2^p = d * H /\ 2^(p + 1) = d * w
    <3>1. MB \in Nat /\ MB + 1 \in Nat
      BY <1>1
    <3>2. 2^(c + MB) = 2^c * 2^MB /\ 2^(c + (MB + 1)) = 2^c * 2^(MB + 1) /\ 2^c \in Nat \ {0}
      BY <2>1, <3>1, PowerSum, Powers
    <3> QED
      BY <1>1, <2>1, <3>2
  <2>3. w \in Nat
    BY <1>1
  <2> HIDE DEF d, w
  <2>4. H <= n \div d /\ n \div d < w /\ n \div d \in Nat
    BY <1>1, <2>2, <2>3, Quotients, Division
  <2> QED
    BY <2>4 DEF c, d, w
<1>3. ASSUME p <= MB
      PROVE  n * 2^(MB - p) \in Nat /\ H <= n * 2^(MB - p) /\ n * 2^(MB - p) < 2 * H
  <2> DEFINE c == MB - p
             d == 2^c
             u == 2^p
             w == 2^(p + 1)
  <2>1. c \in Nat /\ p + c = MB /\ (p + 1) + c = MB + 1 /\ p + 1 \in Nat
    BY <1>1, <1>3
  <2> HIDE DEF c
  <2>2. d \in Nat \ {0} /\ u * d = H /\ w * d = 2 * H
    <3>1. 2^(p + c) = 2^p * 2^c /\ 2^((p + 1) + c) = 2^(p + 1) * 2^c /\ 2^c \in Nat \ {0}
      BY <2>1, PowerSum, Powers
    <3> QED
      BY <1>1, <2>1, <3>1
  <2>3. u \in Nat /\ w \in Nat /\ u <= n /\ n < w
    BY <1>1
  <2> HIDE DEF d, u, w
  <2>4. w * d > n * d
    BY <2>2, <2>3, Scaling
  <2>5. ~(u * d > n * d)
    BY <2>2, <2>3, Scaling
  <2>6. n * d \in Nat
    BY <2>2
  <2>7. n * d \in Nat /\ H <= n * d /\ n * d < 2 * H
    BY <1>1, <2>2, <2>4, <2>5, <2>6
  <2> QED
    BY <2>7 DEF c, d
<1> QED
  BY <1>2, <1>3 DEF H

LEMMA BlockSumIsRounded ==
  ASSUME NEW x \in Int, x # 0, Searchable(Dist(x, 0))
  PROVE  fixed_to_fp32(x) = Rounded(IF x < 0 THEN 1 ELSE 0, Dist(x, 0), BIAS + MB - ACC_FRAC)
<1> DEFINE s   == Flag(x < 0)
           mag == Signed(s, x)
           p   == Log2(mag)
           cut == p - MB
           e   == p - ACC_FRAC + BIAS
           sig == IF p > MB THEN NearestEven(mag, p - MB) ELSE mag * 2^(MB - p)
<1>1. mag \in Nat \ {0} /\ mag = Dist(x, 0) /\ s = IF x < 0 THEN 1 ELSE 0
  BY DEF Flag, Signed, Dist
<1>2. fixed_to_fp32(x) =
        IF x = 0 THEN Zero(0)
        ELSE IF cut <= 0 THEN Pack(s, e, mag * 2^(0 - cut), 0)
        ELSE Pack(s, e, mag \div 2^cut, RoundUp(Bit(mag, cut - 1), Low(mag, cut - 1) # 0, mag \div 2^cut))
  BY DEF fixed_to_fp32
<1> HIDE DEF s, mag
<1>3. p \in Nat /\ 2^p <= mag /\ mag < 2^(p + 1)
  <2>1. Word(mag)
    BY <1>1 DEF Searchable
  <2> QED
    BY <1>1, <2>1, Log2Is
<1>4. p <= 2 * MB + 6 + 2^HALVINGS
  <2> DEFINE w == 2^HALVINGS
             d == 2^p
             z == 2^w
  <2>1. w \in Nat
    BY SearchAssumption, Powers
  <2>2. mag < z
    BY <1>1 DEF Searchable
  <2> HIDE DEF w, p
  <2>3. d \in Nat /\ z \in Nat
    BY <1>3, <2>1, Powers
  <2>4. d < z
    <3> HIDE DEF z
    <3> QED
      BY <1>1, <1>3, <2>2, <2>3
  <2> HIDE DEF d, z
  <2>5. p < w
    <3>1. 2^p < 2^w
      BY <2>4 DEF d, z
    <3> QED
      BY <1>3, <2>1, <3>1, PowerLeast
  <2>6. MB \in Nat
    BY WidthAssumption
  <2>7. p <= 2 * MB + 6 + w
    BY <1>3, <2>1, <2>5, <2>6
  <2> QED
    BY <2>7 DEF w
<1> HIDE DEF p
<1>5. MB \in Nat /\ BIAS \in Int /\ ACC_FRAC \in Int
  BY Widths, WidthAssumption, CodecAssumption
<1>6. Rounded(s, mag, BIAS + MB - ACC_FRAC) = Finish(s, e, sig)
  <2>1. BIAS + MB - ACC_FRAC + p - MB = e
    BY <1>3, <1>5
  <2>2. Rounded(s, mag, BIAS + MB - ACC_FRAC) = Finish(s, BIAS + MB - ACC_FRAC + p - MB, sig)
    BY <1>1, <1>3, <1>4, RoundedIs
  <2> QED
    BY <2>1, <2>2
<1>7. fixed_to_fp32(x) = Finish(s, e, sig)
  <2>1. CASE cut <= 0
    <3> DEFINE m == mag * 2^(MB - p)
    <3>1. 0 - cut = MB - p /\ p <= MB
      BY <1>3, <1>5, <2>1
    <3>2. m \in Nat /\ Hidden <= m /\ m < 2 * Hidden
      BY <1>1, <1>3, <3>1, Significand
    <3>3. fixed_to_fp32(x) = Pack(s, e, m, 0)
      <4>1. fixed_to_fp32(x) = Pack(s, e, mag * 2^(0 - cut), 0)
        BY <1>2, <2>1
      <4> QED
        BY <3>1, <4>1
    <3>4. sig = m
      BY <1>3, <1>5, <3>1
    <3> HIDE DEF m, sig, e
    <3>5. Pack(s, e, m, 0) = Finish(s, e, m + 0)
      BY <3>2, PackIs
    <3>6. m + 0 = m
      BY <3>2
    <3> QED
      BY <3>3, <3>4, <3>5, <3>6
  <2>2. CASE ~(cut <= 0)
    <3> DEFINE m == mag \div 2^cut
               u == RoundUp(Bit(mag, cut - 1), Low(mag, cut - 1) # 0, m)
    <3>1. p >= MB /\ cut \in Nat \ {0} /\ p > MB
      BY <1>3, <1>5, <2>2
    <3>2. m \in Nat /\ Hidden <= m /\ m < 2 * Hidden
      BY <1>1, <1>3, <3>1, Significand
    <3>3. fixed_to_fp32(x) = Pack(s, e, m, u)
      BY <1>1, <1>2, <2>2 DEF Dist
    <3>4. sig = NearestEven(mag, cut)
      BY <3>1
    <3> HIDE DEF sig, e, cut
    <3>5. sig = m + u
      BY <1>1, <3>1, <3>4, NearestIs
    <3>6. u \in {0, 1}
      BY DEF RoundUp, Flag
    <3> HIDE DEF m, u
    <3>7. Pack(s, e, m, u) = Finish(s, e, m + u)
      BY <3>2, <3>6, PackIs
    <3> QED
      BY <3>3, <3>5, <3>7
  <2> QED
    BY <2>1, <2>2
<1> QED
  BY <1>1, <1>6, <1>7

(* The codec.                                                              *)
LEMMA Above ==
  ASSUME NEW d \in Nat \ {0}, NEW t \in Nat, NEW n \in Nat
  PROVE  (d * t + n) \div d = t + n \div d /\ (d * t + n) % d = n % d
<1> DEFINE q == n \div d
           r == n % d
           x == d * t + n
           u == t + q
<1>1. q \in Nat /\ r \in 0 .. d - 1 /\ n = d * q + r
  BY Division
<1> HIDE DEF q, r
<1>2. x \in Int /\ u \in Int /\ x = d * u + r
  <2>1. d * (t + q) = d * t + d * q /\ d * t \in Nat /\ d * q \in Nat
    BY <1>1
  <2> QED
    BY <1>1, <2>1
<1> HIDE DEF x, u
<1>3. x % d = r /\ x \div d = u
  BY <1>1, <1>2, DivisionIsUnique
<1> QED
  BY <1>3 DEF x, u, q, r

LEMMA NearestToZero ==
  ASSUME NEW n \in Nat, NEW d \in Nat \ {0}, n < 2^(d - 1)
  PROVE  NearestEven(n, d) = 0
<1> DEFINE h == 2^(d - 1)
           w == 2^d
<1>1. d - 1 \in Nat /\ (d - 1) + 1 = d
  OBVIOUS
<1>2. h \in Nat \ {0} /\ w = 2 * h /\ n < h
  BY <1>1, Powers
<1>3. Bit(n, d - 1) = (n \div h) % 2
  BY DEF Bit
<1>4. NearestEven(n, d) = n \div w + RoundUp(Bit(n, d - 1), Low(n, d - 1) # 0, n \div w)
  BY NearestIs
<1> HIDE DEF h, w
<1>5. n \div h = 0 /\ n \div w = 0
  <2>1. w \in Nat \ {0} /\ n < w
    BY <1>2
  <2> QED
    BY <1>2, <2>1, Division
<1>6. Bit(n, d - 1) = 0
  BY <1>3, <1>5
<1>7. RoundUp(Bit(n, d - 1), Low(n, d - 1) # 0, n \div w) = 0
  BY <1>6 DEF RoundUp, Flag
<1> QED
  BY <1>4, <1>5, <1>7

(* Nothing is rounded off a multiple.                                      *)
LEMMA NearestToMultiple ==
  ASSUME NEW n \in Nat, NEW d \in Nat \ {0}
  PROVE  /\ (n * 2^d) \div 2^d = n
         /\ RoundUp(Bit(n * 2^d, d - 1), Low(n * 2^d, d - 1) # 0, n) = 0
<1> DEFINE h == 2^(d - 1)
           w == 2^d
           u == 2 * n
<1>1. d - 1 \in Nat /\ (d - 1) + 1 = d
  OBVIOUS
<1>2. h \in Nat \ {0} /\ w = 2 * h /\ w \in Nat \ {0}
  BY <1>1, Powers
<1>3. Bit(n * w, d - 1) = ((n * w) \div h) % 2
  BY DEF Bit
<1> HIDE DEF h, w
<1>4. (n * w) \div w = n
  BY <1>2, Cancel
<1>5. n * w = u * h /\ u \in Nat
  BY <1>2
<1>6. (u * h) \div h = u
  <2> HIDE DEF u
  <2> QED
    BY <1>2, <1>5, Cancel
<1>7. u % 2 = 0
  OBVIOUS
<1>8. Bit(n * w, d - 1) = 0
  BY <1>3, <1>5, <1>6, <1>7
<1>9. RoundUp(Bit(n * w, d - 1), Low(n * w, d - 1) # 0, n) = 0
  BY <1>8 DEF RoundUp, Flag
<1> QED
  BY <1>4, <1>9 DEF w

LEMMA BiasIsLarge == BIAS >= 31 /\ EMAX = 2 * BIAS + 1 /\ BIAS \in Nat
<1> DEFINE t == 5
           u == EB - 1
<1>1. t \in Nat /\ u \in Nat /\ t <= u
  BY WidthAssumption, CodecAssumption
<1> HIDE DEF t, u
<1>2. 2^t <= 2^u /\ 2^u \in Nat
  BY <1>1, PowerOrder, Powers
<1>3. 2^t = 32
  BY SmallPowers DEF t
<1>4. 2^u >= 32
  BY <1>2, <1>3
<1>5. BIAS = 2^u - 1
  BY DEF BIAS, u
<1>6. BIAS >= 31
  BY <1>2, <1>4, <1>5
<1> QED
  BY <1>6, Widths

(* The rounding of a normal: that of its whole significand.                *)
LEMMA NormalRounding ==
  ASSUME NEW x \in Float
  PROVE  LET cut == MB - 3
             r == x.m \div 2^cut + RoundUp(Bit(x.m, cut - 1), Low(x.m, cut - 1) # 0, x.m \div 2^cut)
         IN  r \in 0 .. 8 /\ NearestEven(Sig(x), cut) = 8 + r
<1> DEFINE cut == MB - 3
           h == 2^(cut - 1)
           w == 2^cut
           m == x.m
           q == m \div w
           g == Bit(m, cut - 1)
           l == Low(m, cut - 1)
           up == RoundUp(g, l # 0, q)
           sig == Sig(x)
<1>1. cut \in Nat \ {0} /\ cut - 1 \in Nat /\ (cut - 1) + 1 = cut /\ cut + 3 = MB
  BY WidthAssumption, CodecAssumption
<1> HIDE DEF cut
<1>2. h \in Nat \ {0} /\ w = 2 * h /\ w \in Nat \ {0} /\ Hidden = w * 8
  <2> DEFINE t == 3
  <2>1. t \in Nat /\ cut + t = MB
    BY <1>1
  <2> HIDE DEF t
  <2>2. 2^(cut + t) = 2^cut * 2^t
    BY <1>1, <2>1, PowerSum
  <2>3. 2^t = 8
    BY SmallPowers DEF t
  <2>4. 2^((cut - 1) + 1) = 2 * 2^(cut - 1) /\ 2^cut \in Nat \ {0} /\ 2^(cut - 1) \in Nat \ {0}
    BY <1>1, Powers
  <2> QED
    BY <1>1, <2>1, <2>2, <2>3, <2>4 DEF Hidden
<1>3. m \in Nat /\ m < w * 8 /\ sig = w * 8 + m /\ sig = h * 16 + m /\ sig \in Nat
  <2>1. m \in 0 .. Hidden - 1 /\ sig = Hidden + m /\ sig \in Nat
    BY Fields DEF Sig
  <2> HIDE DEF h, w, m, sig
  <2> QED
    BY <1>2, <2>1
<1>4. NearestEven(sig, cut) = sig \div w + RoundUp(Bit(sig, cut - 1), Low(sig, cut - 1) # 0, sig \div w)
  BY <1>1, <1>3, NearestIs
<1>5. Bit(sig, cut - 1) = (sig \div h) % 2 /\ Low(sig, cut - 1) = sig % h
      /\ g = (m \div h) % 2 /\ l = m % h
  BY DEF Bit, Low
<1> HIDE DEF h, w, m, sig
<1>6. sig \div w = 8 + q /\ sig \div h = 16 + (m \div h) /\ sig % h = m % h
  <2> DEFINE aa == 8
             bb == 16
  <2>1. aa \in Nat /\ bb \in Nat /\ sig = w * aa + m /\ sig = h * bb + m
    BY <1>3
  <2> HIDE DEF aa, bb
  <2>2. (w * aa + m) \div w = aa + m \div w /\ (h * bb + m) \div h = bb + m \div h /\ (h * bb + m) % h = m % h
    BY <1>2, <1>3, <2>1, Above
  <2> QED
    BY <2>1, <2>2 DEF aa, bb
<1>7. q \in Nat /\ q < 8 /\ m \div h \in Nat
  <2> DEFINE aa == 8
  <2>1. aa \in Nat /\ m < w * aa
    BY <1>3
  <2> HIDE DEF aa
  <2>2. m \div w < aa
    BY <1>2, <1>3, <2>1, Quotients
  <2>3. m \div w \in Nat /\ m \div h \in Nat
    BY <1>2, <1>3, Division
  <2> QED
    BY <2>2, <2>3 DEF aa
<1>8. (16 + (m \div h)) % 2 = (m \div h) % 2
  <2> DEFINE t == m \div h
  <2>1. t \in Nat
    BY <1>7
  <2> HIDE DEF t
  <2>2. (16 + t) % 2 = t % 2
    BY <2>1
  <2> QED
    BY <2>2 DEF t
<1>9. Bit(sig, cut - 1) = g /\ Low(sig, cut - 1) = l
  BY <1>5, <1>6, <1>8
<1> HIDE DEF q
<1>10. Bit(8 + q, 0) = Bit(q, 0)
  <2>1. (8 + q) \div 1 = 8 + q /\ q \div 1 = q /\ (8 + q) % 2 = q % 2
    BY <1>7
  <2> QED
    BY <2>1, SmallPowers DEF Bit
<1>11. RoundUp(g, l # 0, 8 + q) = up
  BY <1>10 DEF RoundUp
<1>12. up \in {0, 1}
  BY DEF RoundUp, Flag
<1> HIDE DEF g, l, up
<1>13. q + up \in 0 .. 8 /\ NearestEven(sig, cut) = 8 + (q + up)
  BY <1>4, <1>6, <1>7, <1>9, <1>11, <1>12
<1> QED
  BY <1>13 DEF up, q, g, l, w, m, sig, cut

LEMMA LargePowers == 2^13 = 8192 /\ 2^14 = 16384 /\ 2^15 = 32768
  OBVIOUS


LEMMA NormalIsNearest ==
  ASSUME NEW x \in Float, x.e - BIAS >= -6
  PROVE  LET E == x.e - BIAS
             c == EncodeNormal(x.s, E, x.m)
             units == NearestEven(Sig(x), MB - 3) * 2^(E + 6)
         IN  /\ c.s = x.s /\ ~is_code_nan(c)
             /\ CodeUnits(c) = IF E > 9 \/ units > 448 * 512 THEN 448 * 512 ELSE units
<1> DEFINE E == x.e - BIAS
           cut == MB - 3
           r == x.m \div 2^cut + RoundUp(Bit(x.m, cut - 1), Low(x.m, cut - 1) # 0, x.m \div 2^cut)
           e == E + 7 + r \div 8
           t == E + 6
           sat == e > 15 \/ (e = 15 /\ r % 8 = 7)
           c == EncodeNormal(x.s, E, x.m)
           kk == NearestEven(Sig(x), cut)
           units == kk * 2^t
<1>1. r \in 0 .. 8 /\ kk = 8 + r
  BY NormalRounding
<1>2. E \in Int /\ E >= -6
  BY Fields, BiasIsLarge
<1>3. c = IF sat THEN CodeMax(x.s) ELSE [s |-> x.s, e |-> e, m |-> r % 8]
  BY DEF EncodeNormal
<1> HIDE DEF r, kk, c, E
<1>4. /\ r \in Nat /\ r <= 8 /\ t \in Nat /\ e = t + 1 + r \div 8
      /\ r < 8 => r \div 8 = 0 /\ r % 8 = r
      /\ r = 8 => r \div 8 = 1 /\ r % 8 = 0
  BY <1>1, <1>2
<1>5. sat => c.s = x.s /\ ~is_code_nan(c) /\ CodeUnits(c) = 448 * 512
  <2> SUFFICES ASSUME sat PROVE c.s = x.s /\ ~is_code_nan(c) /\ CodeUnits(c) = 448 * 512
    OBVIOUS
  <2>1. c = [s |-> x.s, e |-> 15, m |-> 6]
    BY <1>3 DEF CodeMax
  <2>2. CodeSig(c) = 14 /\ CodePow(c) = 14 /\ c.s = x.s /\ ~is_code_nan(c)
    BY <2>1 DEF CodeSig, CodePow, is_code_nan
  <2>3. CodeUnits(c) = 14 * 16384
    BY <2>2, LargePowers DEF CodeUnits
  <2> QED
    BY <2>2, <2>3
<1>6. ~sat => c.s = x.s /\ ~is_code_nan(c) /\ CodeUnits(c) = units
  <2> SUFFICES ASSUME ~sat PROVE c.s = x.s /\ ~is_code_nan(c) /\ CodeUnits(c) = units
    OBVIOUS
  <2>1. c = [s |-> x.s, e |-> e, m |-> r % 8]
    BY <1>3
  <2>2. c.s = x.s /\ ~is_code_nan(c)
    BY <2>1 DEF is_code_nan
  <2>3. CASE r < 8
    <3>1. e = t + 1 /\ r % 8 = r /\ e # 0 /\ e - 1 = t
      BY <1>4, <2>3
    <3>2. CodeSig(c) = 8 + r /\ CodePow(c) = t
      <4> HIDE DEF e
      <4> QED
        BY <2>1, <3>1 DEF CodeSig, CodePow
    <3> QED
      BY <1>1, <2>2, <3>2 DEF CodeUnits
  <2>4. CASE r = 8
    <3>1. e = t + 2 /\ r % 8 = 0 /\ e # 0 /\ e - 1 = t + 1
      BY <1>4, <2>4
    <3>2. CodeSig(c) = 8 /\ CodePow(c) = t + 1
      <4> HIDE DEF e
      <4> QED
        BY <2>1, <3>1 DEF CodeSig, CodePow
    <3>3. 2^(t + 1) = 2 * 2^t /\ 2^t \in Nat
      BY <1>4, Powers
    <3>4. kk = 16
      BY <1>1, <2>4
    <3>5. CodeUnits(c) = 8 * (2 * 2^t)
      BY <3>2, <3>3 DEF CodeUnits
    <3> DEFINE w == 2^t
    <3>6. 8 * (2 * w) = 16 * w
      <4> HIDE DEF w
      <4> QED
        BY <3>3 DEF w
    <3> QED
      BY <2>2, <3>4, <3>5, <3>6
  <2> QED
    BY <1>4, <2>3, <2>4
<1>7. sat <=> (E > 9 \/ units > 448 * 512)
  <2> DEFINE w == 2^t
  <2>1. w \in Nat
    BY <1>4, Powers
  <2>2. units = (8 + r) * w
    BY <1>1
  <2>3. CASE E <= 7
    <3> DEFINE z == 13
    <3>1. t <= z /\ z \in Nat
      BY <1>2, <2>3
    <3> HIDE DEF t, z
    <3>2. w <= 2^z
      BY <1>4, <3>1, PowerOrder
    <3>3. w <= 8192
      BY <3>2, LargePowers DEF z
    <3> HIDE DEF w
    <3>4. (8 + r) * w <= 16 * 8192
      <4> DEFINE bb == 8 + r
                 f == 16
      <4>1. bb \in Nat /\ bb <= f /\ f \in Nat
        BY <1>4
      <4> HIDE DEF bb, f
      <4>2. bb * w <= f * w
        <5>1. CASE w = 0
          BY <2>1, <4>1, <5>1
        <5>2. CASE w # 0
          <6>1. ~(bb > f)
            BY <4>1
          <6>2. ~(bb * w > f * w) /\ bb * w \in Nat /\ f * w \in Nat
            BY <2>1, <4>1, <5>2, <6>1, Scaling
          <6> QED
            BY <6>2
        <5> QED
          BY <5>1, <5>2
      <4>3. f * w <= 16 * 8192
        BY <2>1, <3>3 DEF f
      <4>4. bb * w \in Nat /\ f * w \in Nat
        BY <2>1, <4>1
      <4> QED
        BY <4>2, <4>3, <4>4 DEF bb
    <3>5. (8 + r) * w \in Nat
      BY <1>4, <2>1
    <3>6. ~(units > 448 * 512)
      <4> DEFINE p == (8 + r) * w
      <4>1. p \in Nat /\ p <= 16 * 8192 /\ units = p
        BY <2>2, <3>4, <3>5
      <4> HIDE DEF p, units
      <4> QED
        BY <4>1
    <3>7. ~sat
      BY <1>2, <1>4, <2>3
    <3> QED
      BY <1>2, <2>3, <3>6, <3>7
  <2>4. CASE E = 8
    <3>1. t = 14 /\ w = 16384
      BY <1>2, <2>4, LargePowers
    <3>2. units = (8 + r) * 16384
      BY <2>2, <3>1
    <3>3. units > 448 * 512 <=> r >= 7
      BY <1>4, <3>2
    <3>4. e = 15 + r \div 8
      BY <1>4, <3>1
    <3>5. sat <=> r >= 7
      BY <1>4, <3>4
    <3> QED
      BY <2>4, <3>3, <3>5
  <2>5. CASE E = 9
    <3>1. t = 15 /\ w = 32768
      BY <1>2, <2>5, LargePowers
    <3>2. units = (8 + r) * 32768
      BY <2>2, <3>1
    <3>3. units > 448 * 512
      BY <1>4, <3>2
    <3>4. e = 16 + r \div 8 /\ r \div 8 \in Nat
      BY <1>4, <3>1
    <3>5. sat
      BY <3>4
    <3> QED
      BY <3>3, <3>5
  <2>6. CASE E > 9
    <3>1. e > 15
      BY <1>2, <1>4, <2>6
    <3> QED
      BY <2>6, <3>1
  <2> QED
    BY <1>2, <2>3, <2>4, <2>5, <2>6
<1> QED
  BY <1>5, <1>6, <1>7 DEF c, E, kk

LEMMA EncodedIsNearest ==
  ASSUME NEW x \in Float, Ordinary(x)
  PROVE  LET c == fp32_to_fp8e4m3(x)
         IN  c.s = x.s /\ ~is_code_nan(c) /\ CodeUnits(c) = NearestUnits(x)
<1> DEFINE E == x.e - BIAS
           sig == Sig(x)
           c == fp32_to_fp8e4m3(x)
           grid == (IF E >= -6 THEN E ELSE -6) - 3
           kk == NearestEven(sig, grid - E + MB)
           units == kk * 2^(grid + 9)
<1>1. E \in Int /\ MB \in Nat /\ MB >= 7 /\ sig \in Nat /\ sig < 2^(MB + 1) /\ BIAS \in Int
  <2>1. MB \in Nat /\ MB >= 7
    BY WidthAssumption, CodecAssumption
  <2>2. 2^(MB + 1) = 2 * 2^MB
    BY <2>1, Powers
  <2> QED
    BY <2>1, <2>2, Fields, BiasIsLarge DEF Hidden
<1>2. c = IF E <= -11 THEN CodeZero(x.s)
          ELSE IF E >= -6 THEN EncodeNormal(x.s, E, x.m) ELSE EncodeSubnormal(x.s, E, sig)
  BY BiasIsLarge DEF fp32_to_fp8e4m3, Ordinary
<1>3. NearestUnits(x) = IF E < -12 THEN 0 ELSE IF E > 9 \/ units > 448 * 512 THEN 448 * 512 ELSE units
  BY DEF NearestUnits
<1>4. CASE E <= -11
  <2>1. c = CodeZero(x.s)
    BY <1>2, <1>4
  <2>2. CodeSig(c) = 0 /\ CodePow(c) = 0 /\ c.s = x.s /\ ~is_code_nan(c)
    BY <2>1 DEF CodeZero, CodeSig, CodePow, is_code_nan
  <2>3. CodeUnits(c) = 0
    BY <2>2, SmallPowers DEF CodeUnits
  <2>4. NearestUnits(x) = 0
    <3>1. CASE E < -12
      BY <1>3, <3>1
    <3>2. CASE ~(E < -12)
      <4> DEFINE d == grid - E + MB
      <4>1. grid = -9 /\ d \in Nat \ {0} /\ MB + 1 <= d - 1 /\ MB + 1 \in Nat /\ d - 1 \in Nat
        BY <1>1, <1>4, <3>2
      <4>2. grid + 9 = 0
        BY <4>1
      <4> HIDE DEF d, grid
      <4>3. sig < 2^(d - 1)
        <5>1. 2^(MB + 1) <= 2^(d - 1) /\ 2^(MB + 1) \in Nat /\ 2^(d - 1) \in Nat
          BY <4>1, PowerOrder, Powers
        <5> QED
          BY <1>1, <5>1
      <4>4. NearestEven(sig, d) = 0
        BY <1>1, <4>1, <4>3, NearestToZero
      <4>5. kk = 0
        BY <4>4 DEF d, grid
      <4>6. units = 0
        BY <4>2, <4>5, SmallPowers DEF grid
      <4> HIDE DEF units
      <4> QED
        BY <1>1, <1>3, <1>4, <3>2, <4>6
    <3> QED
      BY <3>1, <3>2
  <2> QED
    BY <2>2, <2>3, <2>4
<1>5. CASE -11 < E /\ E < -6
  <2> DEFINE cut == MB - 9 - E
             w == 2^cut
             q == sig \div w + RoundUp(Bit(sig, cut - 1), Low(sig, cut - 1) # 0, sig \div w)
  <2>1. cut \in Nat \ {0} /\ MB - 2 <= cut /\ MB - 2 \in Nat /\ grid = -9 /\ grid + 9 = 0 /\ grid - E + MB = cut
    BY <1>1, <1>5
  <2>2. c = [s |-> x.s, e |-> q \div 8, m |-> q % 8]
    <3>1. ~(E <= -11) /\ ~(E >= -6)
      BY <1>1, <1>5
    <3>2. c = EncodeSubnormal(x.s, E, sig)
      BY <1>2, <3>1
    <3> QED
      BY <3>2 DEF EncodeSubnormal
  <2>3. kk = NearestEven(sig, cut)
    BY <2>1
  <2>4. units = kk * 2^0
    BY <2>1
  <2> HIDE DEF cut, grid, kk
  <2>5. kk = q
    BY <1>1, <2>1, <2>3, NearestIs
  <2>6. sig \div w \in Nat /\ sig \div w < 8
    <3> DEFINE z == MB - 2
               t == 3
    <3>1. z \in Nat /\ t \in Nat /\ z + t = MB + 1 /\ z <= cut
      BY <1>1, <2>1
    <3> HIDE DEF z, t
    <3>2. 2^(z + t) = 2^z * 2^t /\ 2^z <= 2^cut /\ 2^z \in Nat /\ 2^cut \in Nat \ {0}
      BY <2>1, <3>1, PowerSum, PowerOrder, Powers
    <3>3. 2^t = 8
      BY SmallPowers DEF t
    <3> DEFINE bb == 8
               v == 2^z
               y == 2^(MB + 1)
    <3>4. y = v * 8 /\ v <= w /\ w \in Nat \ {0} /\ v \in Nat
      BY <3>1, <3>2, <3>3
    <3>5. sig < y
      BY <1>1
    <3> HIDE DEF y, v, w
    <3>6. sig < w * bb /\ bb \in Nat
      BY <1>1, <3>4, <3>5
    <3> HIDE DEF bb
    <3>7. sig \div w < bb /\ sig \div w \in Nat
      BY <1>1, <3>4, <3>6, Quotients, Division
    <3> QED
      BY <3>7 DEF bb
  <2>7. RoundUp(Bit(sig, cut - 1), Low(sig, cut - 1) # 0, sig \div w) \in {0, 1}
    BY DEF RoundUp, Flag
  <2>8. q \in Nat /\ q <= 8
    BY <2>6, <2>7
  <2> HIDE DEF q
  <2>9. units = q
    BY <2>4, <2>5, <2>8, SmallPowers
  <2>10. c.s = x.s /\ ~is_code_nan(c) /\ CodeUnits(c) = q
    <3> HIDE DEF c
    <3>1. CASE q < 8
      <4>1. q \div 8 = 0 /\ q % 8 = q
        BY <2>8, <3>1
      <4>2. CodeSig(c) = q /\ CodePow(c) = 0 /\ c.s = x.s /\ ~is_code_nan(c)
        BY <2>2, <4>1 DEF CodeSig, CodePow, is_code_nan
      <4> QED
        BY <2>8, <4>2, SmallPowers DEF CodeUnits
    <3>2. CASE q = 8
      <4>1. q \div 8 = 1 /\ q % 8 = 0
        BY <3>2
      <4>2. CodeSig(c) = 8 /\ CodePow(c) = 0 /\ c.s = x.s /\ ~is_code_nan(c)
        BY <2>2, <4>1 DEF CodeSig, CodePow, is_code_nan
      <4> QED
        BY <3>2, <4>2, SmallPowers DEF CodeUnits
    <3> QED
      BY <2>8, <3>1, <3>2
  <2> HIDE DEF units
  <2>11. NearestUnits(x) = q
    BY <1>1, <1>3, <1>5, <2>8, <2>9
  <2> QED
    BY <2>10, <2>11
<1>6. CASE E >= -6
  <2>1. c = EncodeNormal(x.s, E, x.m)
    BY <1>1, <1>2, <1>6
  <2>2. grid - E + MB = MB - 3 /\ grid + 9 = E + 6
    BY <1>1, <1>6
  <2>3. units = NearestEven(sig, MB - 3) * 2^(E + 6)
    BY <2>2
  <2> DEFINE z == NearestEven(sig, MB - 3) * 2^(E + 6)
  <2>4. c.s = x.s /\ ~is_code_nan(c) /\ CodeUnits(c) = IF E > 9 \/ z > 448 * 512 THEN 448 * 512 ELSE z
    BY <1>6, <2>1, NormalIsNearest
  <2>5. units = z
    BY <2>3
  <2> HIDE DEF units, z, c
  <2>6. NearestUnits(x) = IF E > 9 \/ units > 448 * 512 THEN 448 * 512 ELSE units
    <3>1. ~(E < -12)
      BY <1>1, <1>6
    <3> HIDE DEF E
    <3> QED
      BY <1>3, <3>1
  <2> QED
    BY <2>4, <2>5, <2>6 DEF c
<1> QED
  BY <1>1, <1>4, <1>5, <1>6

LEMMA DecodeIsInverted ==
  ASSUME NEW x \in Code
  PROVE  /\ fp8e4m3_to_fp32(x) \in Float
         /\ fp32_to_fp8e4m3(fp8e4m3_to_fp32(x)) = IF is_code_nan(x) THEN CodeNaN(x.s) ELSE x
<1> DEFINE y == fp8e4m3_to_fp32(x)
<1>1. MB \in Nat /\ MB >= 7 /\ BIAS \in Nat /\ BIAS >= 31 /\ EMAX = 2 * BIAS + 1 /\ Hidden \in Nat /\ Hidden >= 2
  BY WidthAssumption, CodecAssumption, BiasIsLarge, Widths
<1>2. /\ x.s \in {0, 1} /\ x.e \in Nat /\ x.e <= 15 /\ x.m \in Nat /\ x.m <= 7
      /\ x = [s |-> x.s, e |-> x.e, m |-> x.m]
  BY DEF Code
<1>3. ASSUME NEW z, z \in Float, z.s = x.s
      PROVE  fp32_to_fp8e4m3(z) =
               IF z.e = EMAX THEN (IF z.m # 0 THEN CodeNaN(x.s) ELSE CodeMax(x.s))
               ELSE IF z.e = 0 \/ z.e - BIAS <= -11 THEN CodeZero(x.s)
               ELSE IF z.e - BIAS >= -6 THEN EncodeNormal(x.s, z.e - BIAS, z.m)
               ELSE EncodeSubnormal(x.s, z.e - BIAS, Sig(z))
  BY <1>3 DEF fp32_to_fp8e4m3
<1>4. CASE is_code_nan(x)
  <2> DEFINE w == 2^(MB - 1)
  <2>1. w \in Nat \ {0} /\ Hidden = 2 * w
    <3>1. MB - 1 \in Nat /\ (MB - 1) + 1 = MB
      BY <1>1
    <3> QED
      BY <3>1, Powers DEF Hidden
  <2>2. y = [s |-> x.s, e |-> EMAX, m |-> w]
    BY <1>4 DEF fp8e4m3_to_fp32, QNaN
  <2> HIDE DEF w
  <2>3. y \in Float
    BY <1>1, <1>2, <2>1, <2>2 DEF Float
  <2> HIDE DEF y
  <2>4. fp32_to_fp8e4m3(y) = CodeNaN(x.s)
    BY <1>3, <2>1, <2>2, <2>3
  <2> QED
    BY <1>4, <2>3, <2>4 DEF y
<1>5. CASE ~is_code_nan(x) /\ x.e = 0 /\ x.m = 0
  <2>1. y = [s |-> x.s, e |-> 0, m |-> 0]
    BY <1>5 DEF fp8e4m3_to_fp32, Zero
  <2>2. y \in Float
    BY <1>1, <1>2, <2>1 DEF Float
  <2> HIDE DEF y
  <2>3. fp32_to_fp8e4m3(y) = CodeZero(x.s)
    BY <1>1, <1>3, <2>1, <2>2
  <2>4. CodeZero(x.s) = x
    BY <1>2, <1>5 DEF CodeZero
  <2> QED
    BY <1>5, <2>2, <2>3, <2>4 DEF y
<1>6. CASE ~is_code_nan(x) /\ x.e = 0 /\ x.m # 0
  <2> DEFINE p == Log2(x.m)
             cut == MB - p
             f == x.m * 2^cut
  <2>1. p \in Nat /\ 2^p <= x.m /\ x.m < 2^(p + 1)
    <3>1. x.m \in Nat \ {0}
      BY <1>2, <1>6
    <3>2. Word(x.m)
      <4> DEFINE t == 3
                 u == MB + 63
      <4>1. t \in Nat /\ u \in Nat /\ t <= u
        BY <1>1
      <4> HIDE DEF t, u
      <4>2. 2^t <= 2^u /\ 2^u \in Nat
        BY <4>1, PowerOrder, Powers
      <4>3. 2^t = 8
        BY SmallPowers DEF t
      <4>4. x.m < 2^u
        BY <1>2, <4>2, <4>3
      <4> QED
        BY <1>2, <4>4 DEF Word, u
    <3> QED
      BY <3>1, <3>2, Log2Is
  <2> HIDE DEF p
  <2>2. p <= 2
    <3> DEFINE t == 3
    <3>1. t \in Nat
      OBVIOUS
    <3>2. 2^t = 8
      BY SmallPowers
    <3> HIDE DEF t
    <3>3. 2^p < 2^t
      BY <1>2, <2>1, <3>1, <3>2, Powers
    <3>4. p < t
      BY <2>1, <3>1, <3>3, PowerLeast
    <3> QED
      BY <2>1, <3>4 DEF t
  <2>3. cut \in Nat \ {0} /\ p <= MB /\ MB - 9 - (BIAS - 9 + p - BIAS) = cut
    BY <1>1, <2>1, <2>2
  <2>4. f \in Nat /\ Hidden <= f /\ f < 2 * Hidden
    BY <1>2, <2>1, <2>3, Significand
  <2>5. y = [s |-> x.s, e |-> BIAS - 9 + p, m |-> f % Hidden]
    BY <1>6 DEF fp8e4m3_to_fp32, p
  <2>6. (f \div 2^cut) = x.m /\ RoundUp(Bit(f, cut - 1), Low(f, cut - 1) # 0, x.m) = 0
    <3> HIDE DEF cut
    <3> QED
      BY <1>2, <2>3, NearestToMultiple
  <2> HIDE DEF f, cut
  <2>7. f % Hidden = f - Hidden /\ f - Hidden \in 0 .. Hidden - 1
    <3> DEFINE t == f - Hidden
    <3>1. t \in 0 .. Hidden - 1 /\ f = Hidden * 1 + t /\ Hidden \in Nat \ {0} /\ f \in Int
      BY <1>1, <2>4
    <3> HIDE DEF t
    <3>2. f % Hidden = t
      BY <3>1, DivisionIsUnique
    <3> QED
      BY <3>1, <3>2 DEF t
  <2>8. y \in Float /\ y.e = BIAS - 9 + p /\ y.s = x.s /\ Sig(y) = f
    <3>1. BIAS - 9 + p \in 0 .. EMAX
      BY <1>1, <2>1, <2>2
    <3>2. y \in Float /\ y.e = BIAS - 9 + p /\ y.s = x.s /\ y.m = f - Hidden
      BY <1>2, <2>5, <2>7, <3>1 DEF Float
    <3> HIDE DEF y
    <3> QED
      BY <1>1, <2>4, <3>2 DEF Sig
  <2> HIDE DEF y
  <2>9. fp32_to_fp8e4m3(y) = EncodeSubnormal(x.s, y.e - BIAS, f)
    <3>1. y.e # EMAX /\ y.e # 0 /\ ~(y.e - BIAS <= -11) /\ ~(y.e - BIAS >= -6)
      BY <1>1, <2>1, <2>2, <2>8
    <3> QED
      BY <1>3, <2>8, <3>1
  <2>10. MB - 9 - (y.e - BIAS) = cut
    BY <1>1, <2>1, <2>3, <2>8
  <2>11. EncodeSubnormal(x.s, y.e - BIAS, f) =
           [s |-> x.s, e |-> (x.m + 0) \div 8, m |-> (x.m + 0) % 8]
    BY <2>6, <2>10 DEF EncodeSubnormal
  <2>12. (x.m + 0) \div 8 = 0 /\ (x.m + 0) % 8 = x.m
    BY <1>2
  <2>13. fp32_to_fp8e4m3(y) = [s |-> x.s, e |-> 0, m |-> x.m]
    BY <2>9, <2>11, <2>12
  <2> QED
    BY <1>2, <1>6, <2>8, <2>13 DEF y
<1>7. CASE ~is_code_nan(x) /\ x.e # 0
  <2> DEFINE cut == MB - 3
             w == 2^cut
             f == x.m * w
  <2>1. y = [s |-> x.s, e |-> BIAS - 7 + x.e, m |-> f]
    BY <1>7 DEF fp8e4m3_to_fp32
  <2>2. cut \in Nat \ {0}
    BY <1>1
  <2>3. f \div w = x.m /\ RoundUp(Bit(f, cut - 1), Low(f, cut - 1) # 0, x.m) = 0
    <3> HIDE DEF cut
    <3> QED
      BY <1>2, <2>2, NearestToMultiple
  <2>4. f \in 0 .. Hidden - 1
    <3> DEFINE t == 3
               bb == 8
    <3>1. t \in Nat /\ cut + t = MB
      BY <1>1
    <3> HIDE DEF t, cut
    <3>2. 2^(cut + t) = 2^cut * 2^t /\ 2^cut \in Nat \ {0}
      BY <2>2, <3>1, PowerSum, Powers
    <3>3. 2^t = 8
      BY SmallPowers DEF t
    <3>4. Hidden = bb * w /\ w \in Nat \ {0} /\ bb \in Nat /\ bb > x.m
      BY <1>2, <3>1, <3>2, <3>3 DEF Hidden
    <3> HIDE DEF w, bb
    <3>5. bb * w > x.m * w /\ x.m * w \in Nat
      BY <1>2, <3>4, Scaling
    <3> QED
      BY <3>4, <3>5
  <2>5. y \in Float /\ y.e = BIAS - 7 + x.e /\ y.s = x.s /\ y.m = f
    <3> HIDE DEF f
    <3>1. BIAS - 7 + x.e \in 0 .. EMAX
      BY <1>1, <1>2
    <3> QED
      BY <1>2, <2>1, <2>4, <3>1 DEF Float
  <2> HIDE DEF f, w, cut, y
  <2>6. fp32_to_fp8e4m3(y) = EncodeNormal(x.s, y.e - BIAS, f)
    <3>1. y.e # EMAX /\ y.e # 0 /\ ~(y.e - BIAS <= -11) /\ y.e - BIAS >= -6
      BY <1>1, <1>2, <1>7, <2>5
    <3> QED
      BY <1>3, <2>5, <3>1
  <2> DEFINE e == (y.e - BIAS) + 7 + (x.m + 0) \div 8
  <2>7. EncodeNormal(x.s, y.e - BIAS, f) =
          IF e > 15 \/ (e = 15 /\ (x.m + 0) % 8 = 7) THEN CodeMax(x.s) ELSE [s |-> x.s, e |-> e, m |-> (x.m + 0) % 8]
    BY <2>3 DEF EncodeNormal, cut, w
  <2>8. (x.m + 0) \div 8 = 0 /\ (x.m + 0) % 8 = x.m
    BY <1>2
  <2>9. e = x.e
    BY <1>1, <1>2, <2>5, <2>8
  <2> HIDE DEF e
  <2>10. ~(e > 15 \/ (e = 15 /\ (x.m + 0) % 8 = 7))
    <3>1. ~(x.e > 15) /\ ~(x.e = 15 /\ x.m = 7)
      BY <1>2, <1>7 DEF is_code_nan
    <3> QED
      BY <2>8, <2>9, <3>1
  <2>11. fp32_to_fp8e4m3(y) = x
    BY <1>2, <2>6, <2>7, <2>8, <2>9, <2>10
  <2> QED
    BY <1>7, <2>5, <2>11 DEF y
<1> QED
  BY <1>4, <1>5, <1>6, <1>7

(* The sum of two floats.  m stands for v / t: exactly, or it is odd and   *)
(* less than one off.                                                      *)
Sticky(m, v, t) == m * t = v \/ (m % 2 = 1 /\ (m - 1) * t < v /\ v < (m + 1) * t)

LEMMA MantissaPowers ==
  /\ MB \in Nat /\ Hidden \in Nat \ {0} /\ 2^MB = Hidden
  /\ 2^(MB + 1) = 2 * Hidden /\ 2^(MB + 2) = 4 * Hidden /\ 2^(MB + 3) = 8 * Hidden
  /\ 2^(MB + 4) = 16 * Hidden /\ 2^(MB + 5) = 32 * Hidden
<1>1. MB \in Nat /\ MB + 1 \in Nat /\ MB + 2 \in Nat /\ MB + 3 \in Nat /\ MB + 4 \in Nat
      /\ (MB + 1) + 1 = MB + 2 /\ (MB + 2) + 1 = MB + 3 /\ (MB + 3) + 1 = MB + 4 /\ (MB + 4) + 1 = MB + 5
  BY WidthAssumption
<1>2. 2^(MB + 1) = 2 * 2^MB /\ 2^(MB + 2) = 2 * 2^(MB + 1) /\ 2^(MB + 3) = 2 * 2^(MB + 2)
      /\ 2^(MB + 4) = 2 * 2^(MB + 3) /\ 2^(MB + 5) = 2 * 2^(MB + 4) /\ 2^MB \in Nat \ {0}
  BY <1>1, Powers
<1> QED
  BY <1>1, <1>2 DEF Hidden

LEMMA AlignedSticks ==
  ASSUME NEW sig \in Nat \ {0}, sig < 2 * Hidden, NEW n \in Nat
  PROVE  LET ms == Aligned(sig, n)
         IN  /\ ms \in Nat /\ Sticky(ms, 8 * sig, 2^n)
             /\ n <= 3 => ms * 2^n = 8 * sig
             /\ n > 3 => ms <= Hidden
             /\ n >= 1 => ms < 8 * Hidden
<1> DEFINE t == 2^n
           full == 8 * sig
           H == Hidden
           kept == full \div t
           low == full % t
           ms == Aligned(sig, n)
<1>1. MB \in Nat /\ H \in Nat \ {0} /\ 2^(MB + 4) = 16 * H /\ t \in Nat \ {0} /\ full \in Nat \ {0} /\ full < 16 * H
  BY MantissaPowers, Powers
<1>2. ms = IF n >= MB + 4 THEN 1
           ELSE IF n > 3 /\ low # 0 THEN kept + Flag(Bit(kept, 0) = 0) ELSE kept
  <2>1. sig * 8 = full
    OBVIOUS
  <2> QED
    BY <2>1 DEF Aligned, Low
<1>3. n > 3 => t >= 16
  <2> SUFFICES ASSUME n > 3 PROVE t >= 16
    OBVIOUS
  <2> DEFINE z == 4
  <2>1. z \in Nat /\ z <= n
    OBVIOUS
  <2> HIDE DEF z
  <2>2. 2^z <= 2^n
    BY <2>1, PowerOrder
  <2> QED
    BY <2>2, SmallPowers DEF z
<1>4. n <= 3 => low = 0
  <2> SUFFICES ASSUME n <= 3 PROVE low = 0
    OBVIOUS
  <2> DEFINE c == 3 - n
             d == 2^c
             z == 3
  <2>1. c \in Nat /\ n + c = z
    OBVIOUS
  <2> HIDE DEF c, z
  <2>2. 2^(n + c) = t * d /\ d \in Nat
    BY <2>1, PowerSum, Powers
  <2>3. t * d = 8
    BY <2>1, <2>2, SmallPowers DEF z
  <2> DEFINE u == d * sig
  <2> HIDE DEF t, d
  <2>4. full = t * u + 0 /\ u \in Int
    <3>1. (t * d) * sig = t * (d * sig)
      BY <1>1, <2>2
    <3>2. t * (d * sig) \in Nat
      BY <1>1, <2>2
    <3> QED
      BY <1>1, <2>2, <2>3, <3>1, <3>2
  <2> HIDE DEF u, full
  <2>5. 0 \in 0 .. t - 1
    BY <1>1
  <2> QED
    BY <1>1, <2>4, <2>5, DivisionIsUnique
<1>5. n >= 1 => t >= 2
  <2> SUFFICES ASSUME n >= 1 PROVE t >= 2
    OBVIOUS
  <2> DEFINE z == 1
  <2>1. z \in Nat /\ z <= n
    OBVIOUS
  <2> HIDE DEF z
  <2>2. 2^z <= 2^n
    BY <2>1, PowerOrder
  <2> QED
    BY <2>2, SmallPowers DEF z
<1> HIDE DEF full
<1>6. kept \in Nat /\ low \in Nat /\ low < t /\ full = t * kept + low
  <2>1. kept \in Nat /\ low \in 0 .. t - 1 /\ full = t * kept + low
    BY <1>1, Division
  <2> HIDE DEF kept, low, t
  <2> QED
    BY <1>1, <2>1
<1>7. n >= MB + 4 => full < t
  <2> SUFFICES ASSUME n >= MB + 4 PROVE full < t
    OBVIOUS
  <2>1. MB + 4 \in Nat /\ MB + 4 <= n
    BY <1>1
  <2>2. 2^(MB + 4) <= 2^n
    BY <2>1, PowerOrder
  <2> QED
    BY <1>1, <2>2
<1>8. Bit(kept, 0) = kept % 2
  <2>1. kept \div 1 = kept
    BY <1>6
  <2> QED
    BY <2>1, SmallPowers DEF Bit
<1> HIDE DEF t, kept, low, ms
<1>9. CASE n >= MB + 4
  <2>1. ms = 1 /\ n > 3 /\ ~(n <= 3)
    BY <1>1, <1>2, <1>9
  <2>2. (1 - 1) * t = 0 /\ (1 + 1) * t = 2 * t
    BY <1>1
  <2>3. Sticky(ms, full, t)
    BY <1>1, <1>7, <1>9, <2>1, <2>2 DEF Sticky
  <2> QED
    BY <1>1, <2>1, <2>3 DEF ms, full, t
<1>10. CASE ~(n >= MB + 4) /\ n > 3 /\ low # 0
  <2> DEFINE f == Flag(kept % 2 = 0)
  <2>1. ms = kept + f
    BY <1>2, <1>8, <1>10
  <2>2. f \in {0, 1} /\ (kept + f) % 2 = 1
    <3>1. kept % 2 = 0 => f = 1 /\ (kept + 1) % 2 = 1
      BY <1>6 DEF Flag
    <3>2. kept % 2 # 0 => f = 0 /\ kept % 2 = 1
      BY <1>6 DEF Flag
    <3> HIDE DEF f
    <3> QED
      BY <1>6, <3>1, <3>2
  <2> HIDE DEF f
  <2>3. (ms - 1) * t < full /\ full < (ms + 1) * t
    <3>1. CASE f = 0
      <4>1. (ms - 1) * t = t * kept - t /\ (ms + 1) * t = t * kept + t /\ t * kept \in Nat
        BY <1>1, <1>6, <2>1, <3>1
      <4> QED
        BY <1>1, <1>6, <1>10, <4>1
    <3>2. CASE f = 1
      <4>1. (ms - 1) * t = t * kept /\ (ms + 1) * t = t * kept + 2 * t /\ t * kept \in Nat
        BY <1>1, <1>6, <2>1, <3>2
      <4> QED
        BY <1>1, <1>6, <1>10, <4>1
    <3> QED
      BY <2>2, <3>1, <3>2
  <2>4. ms \in Nat /\ ms <= H
    <3>1. t * kept \in Nat /\ t * kept < 16 * H
      BY <1>1, <1>6
    <3>2. 16 * kept <= t * kept
      <4>1. ~(16 > t)
        BY <1>1, <1>3, <1>10
      <4>2. CASE kept = 0
        BY <1>1, <4>2
      <4>3. CASE kept # 0
        <5> DEFINE z == 16
        <5>1. z \in Nat /\ kept \in Nat \ {0} /\ ~(z > t)
          BY <1>6, <4>1, <4>3
        <5> HIDE DEF z
        <5>2. ~(z * kept > t * kept) /\ z * kept \in Nat
          BY <1>1, <5>1, Scaling
        <5>3. z * kept <= t * kept
          BY <3>1, <5>2
        <5> QED
          BY <5>3 DEF z
      <4> QED
        BY <4>2, <4>3
    <3>3. kept < H
      <4> DEFINE v == t * kept
      <4>1. v \in Nat /\ v < 16 * H /\ 16 * kept <= v
        BY <3>1, <3>2
      <4> HIDE DEF v
      <4> QED
        BY <1>1, <1>6, <4>1
    <3> QED
      BY <1>1, <1>6, <2>1, <2>2, <3>3
  <2>5. Sticky(ms, full, t)
    BY <2>1, <2>2, <2>3 DEF Sticky
  <2> QED
    BY <1>1, <1>10, <2>4, <2>5 DEF ms, full, t
<1>11. CASE ~(n >= MB + 4) /\ ~(n > 3 /\ low # 0)
  <2>1. ms = kept /\ low = 0
    BY <1>2, <1>4, <1>11
  <2>2. ms * t = full /\ ms \in Nat
    BY <1>1, <1>6, <2>1
  <2>3. n > 3 => ms <= H
    <3> SUFFICES ASSUME n > 3 PROVE ms <= H
      OBVIOUS
    <3>1. CASE ms <= H
      BY <3>1
    <3>2. CASE ms > H
      <4>1. ms * t > H * t
        BY <1>1, <2>2, <3>2, Scaling
      <4>2. H * t >= H * 16
        <5> DEFINE c == t - 16
        <5>1. c \in Nat /\ t = 16 + c
          BY <1>1, <1>3
        <5> HIDE DEF c
        <5>2. H * t = H * 16 + H * c /\ H * c \in Nat /\ H * 16 \in Nat
          BY <1>1, <5>1
        <5> QED
          BY <5>2
      <4>3. H * t \in Nat
        BY <1>1
      <4> QED
        BY <1>1, <2>2, <4>1, <4>2, <4>3
    <3> QED
      BY <1>1, <2>2, <3>1, <3>2
  <2>4. n >= 1 => ms < 8 * H
    <3> SUFFICES ASSUME n >= 1 PROVE ms < 8 * H
      OBVIOUS
    <3> DEFINE c == t - 2
    <3>1. c \in Nat /\ t = 2 + c
      BY <1>1, <1>5
    <3> HIDE DEF c
    <3>2. ms * t = 2 * ms + ms * c /\ ms * c \in Nat
      BY <2>2, <3>1
    <3> DEFINE v == ms * c
    <3>3. full = 2 * ms + v /\ v \in Nat
      BY <2>2, <3>2
    <3> HIDE DEF v
    <3> QED
      BY <1>1, <2>2, <3>3
  <2>5. Sticky(ms, full, t)
    BY <2>2 DEF Sticky
  <2> QED
    BY <2>2, <2>3, <2>4, <2>5 DEF ms, full, t
<1> QED
  BY <1>9, <1>10, <1>11

(* The rounding of AddFinite, where m stands for 8 * v / 2^d.              *)
RoundedAt(m) == m \div 8 + RoundUp(Bit(m, 2), Low(m, 2) # 0, m \div 8)

LEMMA StickyRounds ==
  ASSUME NEW m \in Nat, NEW v \in Nat, NEW d \in Nat \ {0},
         \/ m * 2^d = 8 * v
         \/ m % 2 = 1 /\ (m - 1) * 2^d < 8 * v /\ 8 * v < (m + 1) * 2^d
         \/ m % 4 = 2 /\ (m - 2) * 2^d < 8 * v /\ 8 * v < (m + 2) * 2^d
  PROVE  v \div 2^d = m \div 8 /\ NearestEven(v, d) = RoundedAt(m)
<1> DEFINE u == 2^d
           w == m * u
           q == m \div 8
           c == m % 8
           p == q * u
           r == v - p
           up == RoundUp(Bit(m, 2), Low(m, 2) # 0, q)
           below == v - (v \div u) * u
<1>1. u \in Nat \ {0} /\ w \in Nat
  BY Powers
<1>2. NearestEven(v, d) = IF below < u - below \/ (below = u - below /\ (v \div u) % 2 = 0) THEN v \div u ELSE v \div u + 1
  BY DEF NearestEven
<1> HIDE DEF u
<1>3. q \in Nat /\ c \in 0 .. 7 /\ m = 8 * q + c /\ m % 2 = c % 2 /\ m % 4 = c % 4
  OBVIOUS
<1>4. \/ w = 8 * v
      \/ m % 2 = 1 /\ w - u < 8 * v /\ 8 * v < w + u
      \/ m % 4 = 2 /\ w - 2 * u < 8 * v /\ 8 * v < w + 2 * u
  <2>1. (m - 1) * u = w - u /\ (m + 1) * u = w + u /\ (m - 2) * u = w - 2 * u /\ (m + 2) * u = w + 2 * u
    BY <1>1
  <2>2. \/ m * u = 8 * v
        \/ m % 2 = 1 /\ (m - 1) * u < 8 * v /\ 8 * v < (m + 1) * u
        \/ m % 4 = 2 /\ (m - 2) * u < 8 * v /\ 8 * v < (m + 2) * u
    BY DEF u
  <2> QED
    BY <2>1, <2>2
<1>5. up = IF (m \div 4) % 2 = 1 /\ (m % 4 # 0 \/ q % 2 = 1) THEN 1 ELSE 0
  <2>1. 2^2 = 4 /\ 2^0 = 1 /\ q \div 1 = q
    BY <1>3, SmallPowers
  <2>2. Bit(m, 2) = (m \div 4) % 2 /\ Low(m, 2) = m % 4 /\ Bit(q, 0) = q % 2
    BY <2>1 DEF Bit, Low
  <2> HIDE DEF q
  <2> QED
    BY <2>2 DEF RoundUp, Flag
<1>6. (m \div 4) % 2 = IF c >= 4 THEN 1 ELSE 0
  BY <1>3
<1> HIDE DEF q, c
<1>7. p \in Nat /\ w = 8 * p + c * u
  <2>1. p \in Nat
    BY <1>1, <1>3
  <2>2. (8 * q + c) * u = 8 * (q * u) + c * u
    BY <1>1, <1>3
  <2> QED
    BY <1>3, <2>1, <2>2
<1>8. \/ c = 0 /\ c * u = 0
      \/ c = 1 /\ c * u = u
      \/ c = 2 /\ c * u = 2 * u
      \/ c = 3 /\ c * u = 3 * u
      \/ c = 4 /\ c * u = 4 * u
      \/ c = 5 /\ c * u = 5 * u
      \/ c = 6 /\ c * u = 6 * u
      \/ c = 7 /\ c * u = 7 * u
  <2>1. c = 0 \/ c = 1 \/ c = 2 \/ c = 3 \/ c = 4 \/ c = 5 \/ c = 6 \/ c = 7
    BY <1>3
  <2>2. c = 0 => c * u = 0
    BY <1>1
  <2>3. c = 1 => c * u = u
    BY <1>1
  <2>4. c = 2 => c * u = 2 * u
    BY <1>1
  <2>5. c = 3 => c * u = 3 * u
    BY <1>1
  <2>6. c = 4 => c * u = 4 * u
    BY <1>1
  <2>7. c = 5 => c * u = 5 * u
    BY <1>1
  <2>8. c = 6 => c * u = 6 * u
    BY <1>1
  <2>9. c = 7 => c * u = 7 * u
    BY <1>1
  <2> QED
    BY <2>1, <2>2, <2>3, <2>4, <2>5, <2>6, <2>7, <2>8, <2>9
<1> DEFINE cu == c * u
<1> HIDE DEF w, cu, p
<1>9. w = 8 * p + cu
  BY <1>7 DEF cu
<1>10. \/ c = 0 /\ cu = 0
       \/ c = 1 /\ cu = u
       \/ c = 2 /\ cu = 2 * u
       \/ c = 3 /\ cu = 3 * u
       \/ c = 4 /\ cu = 4 * u
       \/ c = 5 /\ cu = 5 * u
       \/ c = 6 /\ cu = 6 * u
       \/ c = 7 /\ cu = 7 * u
  BY <1>8 DEF cu
<1>11. \/ w = 8 * v
       \/ c \in {1, 3, 5, 7} /\ w - u < 8 * v /\ 8 * v < w + u
       \/ c \in {2, 6} /\ w - 2 * u < 8 * v /\ 8 * v < w + 2 * u
  BY <1>3, <1>4
<1>12. /\ r \in Int /\ 0 <= r /\ r < u
       /\ c < 4 => r < u - r
       /\ c = 4 => r = u - r
       /\ c > 4 => r > u - r
  BY <1>1, <1>7, <1>9, <1>10, <1>11
<1>13. v \div u = q
  <2>1. v = u * q + r /\ r \in 0 .. u - 1
    BY <1>1, <1>3, <1>12 DEF p
  <2> HIDE DEF r
  <2> QED
    BY <1>1, <1>3, <2>1, DivisionIsUnique
<1>14. below = r
  BY <1>13 DEF p
<1> HIDE DEF r, below
<1>15. NearestEven(v, d) = IF r < u - r \/ (r = u - r /\ q % 2 = 0) THEN q ELSE q + 1
  BY <1>2, <1>13, <1>14
<1>16. up = IF c >= 4 /\ (c # 4 \/ q % 2 = 1) THEN 1 ELSE 0
  BY <1>3, <1>5, <1>6
<1>17. NearestEven(v, d) = q + up
  <2> HIDE DEF up
  <2>1. q % 2 = 0 \/ q % 2 = 1
    BY <1>3
  <2>2. CASE c < 4
    BY <1>1, <1>3, <1>12, <1>15, <1>16, <2>2
  <2>3. CASE c = 4
    BY <1>1, <1>3, <1>12, <1>15, <1>16, <2>1, <2>3
  <2>4. CASE c > 4
    BY <1>1, <1>3, <1>12, <1>15, <1>16, <2>4
  <2> QED
    BY <1>3, <2>2, <2>3, <2>4
<1> QED
  BY <1>13, <1>17 DEF RoundedAt, q, u

(* After a carry the lowest bit of the sum is dropped before the rounding. *)
LEMMA CarryRounds ==
  ASSUME NEW m \in Nat, NEW v \in Nat, NEW d \in Nat, Sticky(m, 8 * v, 2^d)
  PROVE  LET u == 2^(d + 1)
             g == RoundedAt(m \div 2)
         IN  /\ g \in Nat /\ m \div 16 <= g /\ g <= m \div 16 + 1
             /\ v \div u = m \div 16
             /\ 8 * Dist(g * u, v) <= 5 * u
             /\ (m \div 16) % 2 = 1 => NearestEven(v, d + 1) = g
<1> DEFINE t == 2^d
           u == 2^(d + 1)
           w == m * t
           h == m \div 2
           q == m \div 16
           c == m % 16
           p == q * u
           r == v - p
           up == RoundUp(Bit(h, 2), Low(h, 2) # 0, h \div 8)
           g == RoundedAt(h)
           below == v - (v \div u) * u
<1>1. t \in Nat \ {0} /\ w \in Nat /\ u = 2 * t /\ u \in Nat \ {0}
  <2>1. t \in Nat \ {0} /\ u = 2 * t
    BY Powers
  <2> HIDE DEF t, u
  <2> QED
    BY <2>1
<1>2. NearestEven(v, d + 1) = IF below < u - below \/ (below = u - below /\ (v \div u) % 2 = 0) THEN v \div u ELSE v \div u + 1
  BY DEF NearestEven
<1> HIDE DEF t, u
<1>3. /\ q \in Nat /\ c \in 0 .. 15 /\ m = 16 * q + c /\ m % 2 = c % 2
      /\ h \in Nat /\ h \div 8 = q /\ h % 4 = (c \div 2) % 4
      /\ (h \div 4) % 2 = IF c >= 8 THEN 1 ELSE 0
  OBVIOUS
<1>4. \/ w = 8 * v
      \/ m % 2 = 1 /\ w - t < 8 * v /\ 8 * v < w + t
  <2>1. (m - 1) * t = w - t /\ (m + 1) * t = w + t
    BY <1>1
  <2>2. \/ m * t = 8 * v
        \/ m % 2 = 1 /\ (m - 1) * t < 8 * v /\ 8 * v < (m + 1) * t
    BY DEF Sticky, t
  <2> QED
    BY <2>1, <2>2
<1> HIDE DEF h, q, c
<1>5. up = IF c >= 8 /\ ((c \div 2) % 4 # 0 \/ q % 2 = 1) THEN 1 ELSE 0
  <2>1. 2^2 = 4 /\ 2^0 = 1 /\ q \div 1 = q
    BY <1>3, SmallPowers
  <2>2. Bit(h, 2) = (h \div 4) % 2 /\ Low(h, 2) = h % 4 /\ Bit(q, 0) = q % 2
    BY <2>1 DEF Bit, Low
  <2>3. RoundUp(Bit(h, 2), Low(h, 2) # 0, q) = IF c >= 8 /\ ((c \div 2) % 4 # 0 \/ q % 2 = 1) THEN 1 ELSE 0
    BY <1>3, <2>2 DEF RoundUp, Flag
  <2> QED
    BY <1>3, <2>3
<1>6. g = q + up
  BY <1>3 DEF RoundedAt
<1>7. p \in Nat /\ w = 8 * p + c * t
  <2>1. p \in Nat
    BY <1>1, <1>3
  <2>2. (16 * q + c) * t = 8 * (q * (2 * t)) + c * t
    BY <1>1, <1>3
  <2> QED
    BY <1>1, <1>3, <2>1, <2>2
<1> DEFINE ct == c * t
<1>8. \/ c = 0 /\ ct = 0
      \/ c = 1 /\ ct = t
      \/ c = 2 /\ ct = 2 * t
      \/ c = 3 /\ ct = 3 * t
      \/ c = 4 /\ ct = 4 * t
      \/ c = 5 /\ ct = 5 * t
      \/ c = 6 /\ ct = 6 * t
      \/ c = 7 /\ ct = 7 * t
      \/ c = 8 /\ ct = 8 * t
      \/ c = 9 /\ ct = 9 * t
      \/ c = 10 /\ ct = 10 * t
      \/ c = 11 /\ ct = 11 * t
      \/ c = 12 /\ ct = 12 * t
      \/ c = 13 /\ ct = 13 * t
      \/ c = 14 /\ ct = 14 * t
      \/ c = 15 /\ ct = 15 * t
  <2>1. c = 0 \/ c = 1 \/ c = 2 \/ c = 3 \/ c = 4 \/ c = 5 \/ c = 6 \/ c = 7 \/ c = 8 \/ c = 9 \/ c = 10 \/ c = 11 \/ c = 12 \/ c = 13 \/ c = 14 \/ c = 15
    BY <1>3
  <2>2. c = 0 => ct = 0
    BY <1>1
  <2>3. c = 1 => ct = t
    BY <1>1
  <2>4. c = 2 => ct = 2 * t
    BY <1>1
  <2>5. c = 3 => ct = 3 * t
    BY <1>1
  <2>6. c = 4 => ct = 4 * t
    BY <1>1
  <2>7. c = 5 => ct = 5 * t
    BY <1>1
  <2>8. c = 6 => ct = 6 * t
    BY <1>1
  <2>9. c = 7 => ct = 7 * t
    BY <1>1
  <2>10. c = 8 => ct = 8 * t
    BY <1>1
  <2>11. c = 9 => ct = 9 * t
    BY <1>1
  <2>12. c = 10 => ct = 10 * t
    BY <1>1
  <2>13. c = 11 => ct = 11 * t
    BY <1>1
  <2>14. c = 12 => ct = 12 * t
    BY <1>1
  <2>15. c = 13 => ct = 13 * t
    BY <1>1
  <2>16. c = 14 => ct = 14 * t
    BY <1>1
  <2>17. c = 15 => ct = 15 * t
    BY <1>1
  <2> HIDE DEF ct
  <2> QED
    BY <2>1, <2>2, <2>3, <2>4, <2>5, <2>6, <2>7, <2>8, <2>9, <2>10, <2>11, <2>12, <2>13, <2>14, <2>15, <2>16, <2>17
<1> HIDE DEF w, ct, p, up, g
<1>9. w = 8 * p + ct
  BY <1>7 DEF ct
<1>10. w = 8 * v \/ (c % 2 = 1 /\ w - t < 8 * v /\ 8 * v < w + t)
  BY <1>3, <1>4
<1>11. /\ r \in Int /\ 0 <= r /\ r < u
       /\ c < 8 => r < u - r
       /\ c = 8 => r = u - r
       /\ c > 8 => r > u - r
       /\ c <= 9 => 8 * r <= 5 * u
       /\ c >= 8 => 8 * (u - r) <= 5 * u
  BY <1>1, <1>7, <1>8, <1>9, <1>10
<1>12. v \div u = q
  <2>1. v = u * q + r /\ r \in 0 .. u - 1
    BY <1>1, <1>3, <1>11 DEF p
  <2> HIDE DEF r
  <2> QED
    BY <1>1, <1>3, <2>1, DivisionIsUnique
<1>13. below = r
  BY <1>12 DEF p
<1>14. v = p + r
  BY <1>7
<1> HIDE DEF r, below
<1>15. q % 2 = 1 => NearestEven(v, d + 1) = g
  <2> SUFFICES ASSUME q % 2 = 1 PROVE NearestEven(v, d + 1) = g
    OBVIOUS
  <2>1. NearestEven(v, d + 1) = IF r < u - r THEN q ELSE q + 1
    BY <1>2, <1>12, <1>13
  <2>2. up = IF c >= 8 THEN 1 ELSE 0
    BY <1>5
  <2> QED
    BY <1>1, <1>3, <1>6, <1>11, <2>1, <2>2
<1>16. 8 * Dist(g * u, v) <= 5 * u
  <2>1. CASE up = 0
    <3>1. c <= 9
      BY <1>3, <1>5, <2>1
    <3>2. g * u = p
      BY <1>3, <1>6, <2>1 DEF p
    <3>3. Dist(g * u, v) = r
      BY <1>7, <1>11, <1>14, <3>2 DEF Dist
    <3> QED
      BY <1>11, <3>1, <3>3
  <2>2. CASE up = 1
    <3>1. c >= 8
      BY <1>5, <2>2
    <3>2. g * u = p + u
      BY <1>1, <1>3, <1>6, <2>2 DEF p
    <3>3. Dist(g * u, v) = u - r
      BY <1>1, <1>7, <1>11, <1>14, <3>2 DEF Dist
    <3> QED
      BY <1>11, <3>1, <3>3
  <2>3. up \in {0, 1}
    BY <1>5
  <2> QED
    BY <2>1, <2>2, <2>3
<1>17. g \in Nat /\ q <= g /\ g <= q + 1
  BY <1>3, <1>5, <1>6
<1> QED
  BY <1>12, <1>15, <1>16, <1>17 DEF g, q, u, h

(* What AddFinite adds, against the exact sum.                             *)
BigOf(x, y)   == IF x.e >= y.e THEN x ELSE y
SmallOf(x, y) == IF x.e >= y.e THEN y ELSE x
ShiftBy(x, y) == BigOf(x, y).e - SmallOf(x, y).e
BigSig(x, y)  == Sig(BigOf(x, y)) * 8
SmallSig(x, y) == Aligned(Sig(SmallOf(x, y)), ShiftBy(x, y))
Agree(x, y)   == BigOf(x, y).s = SmallOf(x, y).s
SumOf(x, y) ==
  IF Agree(x, y) THEN BigSig(x, y) + SmallSig(x, y)
  ELSE IF BigSig(x, y) >= SmallSig(x, y) THEN BigSig(x, y) - SmallSig(x, y) ELSE SmallSig(x, y) - BigSig(x, y)
SignOfSum(x, y) ==
  IF Agree(x, y) \/ BigSig(x, y) >= SmallSig(x, y) THEN BigOf(x, y).s ELSE SmallOf(x, y).s
Magnitude(x, y) == Dist(ExactSum(x, y).n, 0)

(* The exact sum from the larger and the smaller operand.                  *)
LEMMA ExactSumIs ==
  ASSUME NEW x \in Float, NEW y \in Float
  PROVE  LET n == ShiftBy(x, y)
             f == Sig(BigOf(x, y)) * 2^n
             g == Sig(SmallOf(x, y))
             s == BigOf(x, y).s
             t == SmallOf(x, y).s
         IN  /\ n \in Nat /\ s \in {0, 1} /\ t \in {0, 1}
             /\ f \in Nat \ {0} /\ g \in Nat \ {0} /\ g < 2 * Hidden
             /\ ExactSum(x, y).e0 = SmallOf(x, y).e
             /\ ExactSum(x, y).n = Signed(s, f) + Signed(t, g)
<1> DEFINE big == BigOf(x, y)
           small == SmallOf(x, y)
           n == big.e - small.e
           e0 == small.e
           p == 2^n
           f == Sig(big) * p
           g == Sig(small)
<1>1. big \in Float /\ small \in Float /\ n \in Nat /\ big.e \in Int /\ e0 \in Int
  BY Fields, Widths DEF BigOf, SmallOf
<1>2. /\ ExactSum(x, y).e0 = e0
      /\ ExactSum(x, y).n = Value(x, e0) + Value(y, e0)
  <2>1. (IF x.e <= y.e THEN x.e ELSE y.e) = e0
    BY Fields DEF SmallOf
  <2> HIDE DEF e0
  <2> QED
    BY <2>1 DEF ExactSum
<1>3. p \in Nat \ {0}
  BY <1>1, Powers
<1>4. Sig(big) \in Nat \ {0} /\ g \in Nat \ {0} /\ g < 2 * Hidden
  <2> HIDE DEF big, small
  <2> QED
    BY <1>1, Fields, Widths
<1>5. f \in Nat \ {0}
  <2> DEFINE z == Sig(big)
  <2>1. z \in Nat \ {0}
    BY <1>4
  <2> HIDE DEF z, p
  <2>2. z * p \in Nat \ {0}
    BY <1>3, <2>1
  <2> QED
    BY <2>2 DEF z
<1>6. Value(big, e0) = Signed(big.s, f)
  <2> DEFINE z == Sig(big)
  <2>1. Value(big, e0) = (IF big.s = 1 THEN -1 ELSE 1) * z * p
    BY DEF Value
  <2> HIDE DEF p, z
  <2>2. z \in Nat
    BY <1>4 DEF z
  <2>3. (-1) * z * p = 0 - z * p /\ 1 * z * p = z * p
    BY <1>3, <2>2
  <2>4. f = z * p
    BY DEF z
  <2> HIDE DEF f, big, e0
  <2> QED
    BY <2>1, <2>3, <2>4 DEF Signed
<1>7. Value(small, e0) = Signed(small.s, g)
  <2>1. small.e - e0 = 0 /\ 2^0 = 1
    BY <1>1, SmallPowers
  <2>2. Value(small, e0) = (IF small.s = 1 THEN -1 ELSE 1) * g * 1
    BY <2>1 DEF Value
  <2> HIDE DEF g, small
  <2>3. (-1) * g * 1 = 0 - g /\ 1 * g * 1 = g
    BY <1>4
  <2> QED
    BY <2>2, <2>3 DEF Signed
<1>8. Value(x, e0) + Value(y, e0) = Value(big, e0) + Value(small, e0)
  <2>1. Signed(big.s, f) \in Int /\ Signed(small.s, g) \in Int
    <3> HIDE DEF f, g, big, small
    <3> QED
      BY <1>4, <1>5 DEF Signed
  <2>2. Value(big, e0) \in Int /\ Value(small, e0) \in Int
    BY <1>6, <1>7, <2>1
  <2>3. (big = x /\ small = y) \/ (big = y /\ small = x)
    BY DEF BigOf, SmallOf
  <2> HIDE DEF big, small, e0
  <2> QED
    BY <2>2, <2>3
<1>9. big.s \in {0, 1} /\ small.s \in {0, 1}
  <2> HIDE DEF big, small
  <2> QED
    BY <1>1, Fields
<1>10. ShiftBy(x, y) = n
  BY DEF ShiftBy
<1> HIDE DEF n, f, g, e0
<1> QED
  BY <1>1, <1>2, <1>4, <1>5, <1>6, <1>7, <1>8, <1>9, <1>10 DEF n, f, g, e0

LEMMA SumSticks ==
  ASSUME NEW x \in Float, NEW y \in Float
  PROVE  LET m == SumOf(x, y)
             v == Magnitude(x, y)
             n == ShiftBy(x, y)
         IN  /\ m \in Nat /\ v \in Nat /\ m < 32 * Hidden
             /\ Sticky(m, 8 * v, 2^n)
             /\ n <= 3 => m * 2^n = 8 * v
             /\ n > 3 => 4 * Hidden <= m
             /\ m = 0 <=> v = 0
             /\ m # 0 => SignOfSum(x, y) = IF ExactSum(x, y).n < 0 THEN 1 ELSE 0
<1> DEFINE H == Hidden
           z == Sig(BigOf(x, y))
           n == ShiftBy(x, y)
           p == 2^n
           f == z * p
           g == Sig(SmallOf(x, y))
           s == BigOf(x, y).s
           t == SmallOf(x, y).s
           mb == BigSig(x, y)
           ms == SmallSig(x, y)
           m == SumOf(x, y)
           X == ExactSum(x, y).n
           v == Magnitude(x, y)
<1>1. /\ n \in Nat /\ s \in {0, 1} /\ t \in {0, 1}
      /\ f \in Nat \ {0} /\ g \in Nat \ {0} /\ g < 2 * H
      /\ X = Signed(s, f) + Signed(t, g)
  BY ExactSumIs
<1>2. /\ ms \in Nat /\ Sticky(ms, 8 * g, p)
      /\ n <= 3 => ms * p = 8 * g
      /\ n > 3 => ms <= H
      /\ n >= 1 => ms < 8 * H
  <2> HIDE DEF g
  <2> QED
    BY <1>1, AlignedSticks DEF SmallSig, g
<1>3. H \in Nat \ {0} /\ p \in Nat \ {0} /\ (n = 0 => p = 1)
  BY <1>1, Powers, MantissaPowers
<1>4. mb = 8 * z /\ z \in Nat /\ H <= z /\ z < 2 * H
  BY Fields DEF BigSig, BigOf
<1>5. /\ m = IF s = t THEN mb + ms ELSE IF mb >= ms THEN mb - ms ELSE ms - mb
      /\ SignOfSum(x, y) = IF s = t \/ mb >= ms THEN s ELSE t
  BY DEF SumOf, SignOfSum, Agree
<1>6. v = Dist(X, 0)
  BY DEF Magnitude
<1> HIDE DEF z, n, p, f, g, s, t, mb, ms, m, X, v, H
<1> DEFINE Fb == 8 * f
           Fs == ms * p
           G == 8 * g
<1>7. Fb = mb * p /\ Fb \in Nat /\ Fs \in Nat /\ G \in Nat /\ G > 0 /\ Fb > 0
  <2>1. (8 * z) * p = 8 * (z * p)
    BY <1>3, <1>4
  <2>2. f = z * p
    BY DEF f
  <2>3. ms * p \in Nat
    BY <1>2, <1>3
  <2> QED
    BY <1>1, <1>4, <2>1, <2>2, <2>3
<1>8. Fs = G \/ (ms % 2 = 1 /\ Fs - p < G /\ G < Fs + p)
  <2>1. (ms - 1) * p = Fs - p /\ (ms + 1) * p = Fs + p
    BY <1>2, <1>3
  <2> QED
    BY <1>2, <2>1 DEF Sticky
<1>9. /\ Fs # G => n > 3
      /\ n <= 3 => Fs = G
      /\ n >= 1 => ms < mb
      /\ n > 3 => ms <= H
  BY <1>1, <1>2, <1>3, <1>4
<1>10. ms < 16 * H
  <2>1. CASE n >= 1
    BY <1>2, <1>3, <2>1
  <2>2. CASE n = 0
    <3>1. Fs = ms
      BY <1>2, <1>3, <2>2
    <3> QED
      BY <1>1, <1>3, <1>9, <2>2, <3>1
  <2> QED
    BY <1>1, <2>1, <2>2
<1> HIDE DEF Fb, Fs, G
<1>11. CASE s = t
  <2>1. m = mb + ms /\ SignOfSum(x, y) = s
    BY <1>5, <1>11
  <2>2. v = f + g /\ (X < 0 <=> s = 1)
    BY <1>1, <1>6, <1>11 DEF Signed, Dist
  <2>3. 8 * v = Fb + G
    BY <1>1, <2>2 DEF Fb, G
  <2>4. m * p = Fb + Fs /\ (m - 1) * p = Fb + Fs - p /\ (m + 1) * p = Fb + Fs + p
    BY <1>2, <1>3, <1>4, <1>7, <2>1 DEF Fs
  <2>5. m % 2 = ms % 2
    BY <1>2, <1>4, <2>1
  <2>6. Sticky(m, 8 * v, p)
    BY <1>3, <1>7, <1>8, <2>3, <2>4, <2>5 DEF Sticky
  <2>7. n <= 3 => m * p = 8 * v
    BY <1>9, <2>3, <2>4
  <2>8. m \in Nat /\ m < 32 * H /\ m # 0 /\ 4 * H <= m
    BY <1>2, <1>3, <1>4, <1>10, <2>1
  <2>9. v \in Nat /\ v # 0
    BY <1>1, <2>2
  <2>10. SignOfSum(x, y) = IF X < 0 THEN 1 ELSE 0
    BY <1>1, <2>1, <2>2
  <2> QED
    BY <2>6, <2>7, <2>8, <2>9, <2>10 DEF m, v, n, p, H, X
<1>12. CASE s # t /\ mb >= ms
  <2>1. m = mb - ms /\ SignOfSum(x, y) = s
    BY <1>5, <1>12
  <2>2. m * p = Fb - Fs /\ (m - 1) * p = Fb - Fs - p /\ (m + 1) * p = Fb - Fs + p
    BY <1>2, <1>3, <1>4, <1>7, <2>1 DEF Fs
  <2>3. m \in Nat /\ (m # 0 => m >= 1) /\ m * p \in Nat /\ (m = 0 => m * p = 0) /\ (m # 0 => m * p >= p)
    <3>1. m \in Nat
      BY <1>2, <1>4, <1>12, <2>1
    <3>2. m * p \in Nat /\ (m = 0 => m * p = 0)
      BY <1>3, <3>1
    <3>3. m # 0 => m * p >= p
      <4> SUFFICES ASSUME m # 0 PROVE m * p >= p
        OBVIOUS
      <4>1. m >= 1
        BY <3>1
      <4>2. p * m >= p
        BY <1>3, <3>1, <4>1, Times
      <4> QED
        BY <1>3, <3>1, <4>2
    <3> QED
      BY <3>1, <3>2, <3>3
  <2>4. Fs # G => m # 0
    BY <1>1, <1>2, <1>4, <1>9, <2>1
  <2>5. Fb - G >= 0 /\ (m # 0 => Fb - G > 0) /\ (m = 0 => Fb - G = 0)
    <3> DEFINE mp == m * p
    <3>1. mp \in Nat /\ mp = Fb - Fs /\ (m = 0 => mp = 0) /\ (m # 0 => mp >= p)
      BY <2>2, <2>3
    <3> HIDE DEF mp
    <3> QED
      BY <1>3, <1>7, <1>8, <2>4, <3>1
  <2>6. f >= g /\ (m # 0 <=> f > g)
    BY <1>1, <2>5 DEF Fb, G
  <2>7. v = f - g /\ (f > g => (X < 0 <=> s = 1))
    BY <1>1, <1>6, <1>12, <2>6 DEF Signed, Dist
  <2>8. 8 * v = Fb - G
    BY <1>1, <2>7 DEF Fb, G
  <2>9. Fs # G => m % 2 = 1
    <3>1. ASSUME NEW q \in Nat, q % 2 = 1, q <= 8 * z PROVE (8 * z - q) % 2 = 1
      BY <1>4, <3>1
    <3> QED
      BY <1>2, <1>4, <1>8, <1>12, <2>1, <3>1
  <2>10. Sticky(m, 8 * v, p)
    BY <1>3, <1>7, <1>8, <2>2, <2>8, <2>9 DEF Sticky
  <2>11. n <= 3 => m * p = 8 * v
    BY <1>9, <2>2, <2>8
  <2>12. m < 32 * H /\ (n > 3 => 4 * H <= m)
    BY <1>2, <1>3, <1>4, <1>9, <2>1
  <2>13. v \in Nat /\ (m = 0 <=> v = 0)
    BY <1>1, <2>6, <2>7
  <2>14. m # 0 => SignOfSum(x, y) = IF X < 0 THEN 1 ELSE 0
    BY <1>1, <2>1, <2>6, <2>7
  <2> QED
    BY <2>3, <2>10, <2>11, <2>12, <2>13, <2>14 DEF m, v, n, p, H, X
<1>13. CASE s # t /\ ~(mb >= ms)
  <2>1. m = ms - mb /\ SignOfSum(x, y) = t /\ n = 0
    BY <1>1, <1>2, <1>4, <1>5, <1>9, <1>13
  <2>2. p = 1 /\ Fs = G /\ Fs = ms /\ Fb = mb
    BY <1>1, <1>2, <1>3, <1>4, <1>7, <1>9, <2>1 DEF Fs
  <2>3. m \in Nat /\ m # 0 /\ m = G - Fb
    BY <1>2, <1>4, <1>13, <2>1, <2>2
  <2>4. g > f
    BY <1>1, <1>7, <2>3 DEF Fb, G
  <2>5. v = g - f /\ (X < 0 <=> t = 1)
    BY <1>1, <1>6, <1>13, <2>4 DEF Signed, Dist
  <2>6. 8 * v = m /\ m * p = m
    BY <1>1, <2>2, <2>3, <2>5 DEF Fb, G
  <2>7. Sticky(m, 8 * v, p)
    BY <2>6 DEF Sticky
  <2>8. v \in Nat /\ v # 0
    BY <1>1, <2>4, <2>5
  <2>9. m < 32 * H
    BY <1>2, <1>3, <1>4, <1>10, <2>1
  <2>10. SignOfSum(x, y) = IF X < 0 THEN 1 ELSE 0
    BY <1>1, <2>1, <2>5
  <2>11. ~(n > 3)
    BY <2>1
  <2> QED
    BY <2>3, <2>6, <2>7, <2>8, <2>9, <2>10, <2>11 DEF m, v, n, p, H, X
<1> QED
  BY <1>11, <1>12, <1>13

LEMMA AddFiniteIs ==
  ASSUME NEW x, NEW y
  PROVE  AddFinite(x, y) =
           IF SumOf(x, y) = 0 THEN Zero(0)
           ELSE LET r == Normalised(SumOf(x, y))
                IN  Pack(SignOfSum(x, y), BigOf(x, y).e + r.up, r.mag \div 8,
                         RoundUp(Bit(r.mag, 2), Low(r.mag, 2) # 0, r.mag \div 8))
<1> DEFINE big   == IF x.e >= y.e THEN x ELSE y
           small == IF x.e >= y.e THEN y ELSE x
           mbe   == Sig(big) * 8
           mse   == Aligned(Sig(small), big.e - small.e)
           sum   == IF big.s = small.s THEN mbe + mse ELSE IF mbe >= mse THEN mbe - mse ELSE mse - mbe
           sign  == IF big.s = small.s \/ mbe >= mse THEN big.s ELSE small.s
           g     == Normalised(sum)
<1>1. AddFinite(x, y) = IF sum = 0 THEN Zero(0)
                        ELSE Pack(sign, big.e + g.up, g.mag \div 8,
                                  RoundUp(Bit(g.mag, 2), Low(g.mag, 2) # 0, g.mag \div 8))
  BY DEF AddFinite
<1>2. big = BigOf(x, y) /\ small = SmallOf(x, y)
  BY DEF BigOf, SmallOf
<1> HIDE DEF big, small
<1>3. sum = SumOf(x, y) /\ sign = SignOfSum(x, y)
  BY <1>2 DEF SumOf, SignOfSum, Agree, BigSig, SmallSig, ShiftBy
<1> HIDE DEF sum, sign
<1> QED
  BY <1>1, <1>2, <1>3

(* The rounding keeps a significand.                                       *)
LEMMA RoundedAtIs ==
  ASSUME NEW m \in Nat, 8 * Hidden <= m, m < 16 * Hidden
  PROVE  LET up == RoundUp(Bit(m, 2), Low(m, 2) # 0, m \div 8)
         IN  /\ m \div 8 \in Nat /\ Hidden <= m \div 8 /\ m \div 8 < 2 * Hidden
             /\ up \in {0, 1} /\ RoundedAt(m) = m \div 8 + up
             /\ \A s, e : Pack(s, e, m \div 8, up) = Finish(s, e, RoundedAt(m))
<1> DEFINE H == Hidden
           q == m \div 8
           up == RoundUp(Bit(m, 2), Low(m, 2) # 0, q)
<1>1. H \in Nat
  BY MantissaPowers
<1>2. q \in Nat /\ H <= q /\ q < 2 * H
  BY <1>1
<1>3. up \in {0, 1}
  BY DEF RoundUp, Flag
<1>4. RoundedAt(m) = q + up
  BY DEF RoundedAt
<1> HIDE DEF up, q
<1>5. \A s, e : Pack(s, e, q, up) = Finish(s, e, q + up)
  BY <1>2, <1>3, PackIs
<1> QED
  BY <1>2, <1>3, <1>4, <1>5 DEF up, q

LEMMA RoundedSumIs ==
  ASSUME NEW x \in Float, NEW y \in Float, SumOf(x, y) # 0
  PROVE  RoundedSum(x, y) = Rounded(SignOfSum(x, y), Magnitude(x, y), SmallOf(x, y).e)
<1>1. ExactSum(x, y).n # 0
  BY SumSticks, ExactSumIs DEF Magnitude, Dist
<1>2. ExactSum(x, y).e0 = SmallOf(x, y).e
  BY ExactSumIs
<1>3. SignOfSum(x, y) = IF ExactSum(x, y).n < 0 THEN 1 ELSE 0
  BY SumSticks
<1> QED
  BY <1>1, <1>2, <1>3 DEF RoundedSum, Magnitude

LEMMA SumWithoutCarry ==
  ASSUME NEW x \in Float, NEW y \in Float, ShiftBy(x, y) <= MB + 5,
         SumOf(x, y) # 0, SumOf(x, y) < 16 * Hidden
  PROVE  AddFinite(x, y) = RoundedSum(x, y)
<1> DEFINE H == Hidden
           m == SumOf(x, y)
           v == Magnitude(x, y)
           n == ShiftBy(x, y)
           t == 2^n
           l == LeadingZeros(m)
           tl == 2^l
           mag == m * tl
           s == SignOfSum(x, y)
           be == BigOf(x, y).e
           se == SmallOf(x, y).e
           e == be + (0 - l)
           up == RoundUp(Bit(mag, 2), Low(mag, 2) # 0, mag \div 8)
<1>1. /\ m \in Nat \ {0} /\ v \in Nat \ {0} /\ Sticky(m, 8 * v, t)
      /\ n <= 3 => m * t = 8 * v
      /\ n > 3 => 4 * H <= m
      /\ m < 16 * H
  BY SumSticks
<1>2. /\ MB \in Nat /\ H \in Nat \ {0} /\ 2^(MB + 3) = 8 * H /\ 2^(MB + 4) = 16 * H /\ 2^MB = H /\ 2^(MB + 1) = 2 * H
      /\ be \in Int /\ se \in Int /\ n \in Nat /\ n = be - se /\ n <= MB + 5
  BY MantissaPowers, ExactSumIs, Fields DEF BigOf, SmallOf, ShiftBy
<1> HIDE DEF m, v, n
<1>3. l \in 0 .. MB + 3 /\ mag \in Nat /\ 8 * H <= mag /\ mag < 16 * H
      /\ \A i \in Nat : i < l => m * 2^i < 8 * H
  <2>1. m < 2^(MB + 4)
    BY <1>1, <1>2
  <2>2. /\ l \in 0 .. MB + 3 /\ mag \in 2^(MB + 3) .. 2^(MB + 4) - 1
        /\ \A i \in Nat : i < l => m * 2^i < 2^(MB + 3)
    BY <1>1, <2>1, LeadingZerosAre
  <2> DEFINE lo == 2^(MB + 3)
             hi == 2^(MB + 4)
  <2>3. /\ l \in 0 .. MB + 3 /\ mag \in lo .. hi - 1
        /\ \A i \in Nat : i < l => m * 2^i < lo
    BY <2>2
  <2>4. lo = 8 * H /\ hi = 16 * H
    BY <1>2
  <2> HIDE DEF l, mag, lo, hi
  <2>5. mag \in Nat /\ 8 * H <= mag /\ mag < 16 * H
    BY <1>2, <2>3, <2>4
  <2>6. \A i \in Nat : i < l => m * 2^i < 8 * H
    <3> DEFINE w == 8 * H
    <3>1. lo = w
      BY <2>4
    <3> HIDE DEF w
    <3>2. \A i \in Nat : i < l => m * 2^i < w
      BY <2>3, <3>1, Zenon
    <3> QED
      BY <3>2 DEF w
  <2> QED
    BY <2>3, <2>5, <2>6
<1>4. Normalised(m) = [mag |-> mag, up |-> 0 - l]
  <2>1. Bit(m, MB + 4) = 0
    <3> DEFINE w == 16 * H
    <3>1. Bit(m, MB + 4) = (m \div w) % 2
      BY <1>2 DEF Bit
    <3>2. w \in Nat \ {0} /\ m < w
      BY <1>1, <1>2
    <3> HIDE DEF w
    <3>3. m \div w = 0
      BY <1>1, <3>2, Division
    <3> QED
      BY <3>1, <3>3
  <2> QED
    BY <2>1 DEF Normalised
<1> HIDE DEF l
<1>5. l \in Nat /\ tl \in Nat \ {0}
  BY <1>2, <1>3, Powers
<1> HIDE DEF mag, tl
<1>6. AddFinite(x, y) = Finish(s, e, RoundedAt(mag))
  <2>1. AddFinite(x, y) = Pack(s, e, mag \div 8, up)
    <3>1. m # 0
      BY <1>1
    <3> HIDE DEF s, be
    <3> QED
      BY <1>4, <3>1, AddFiniteIs DEF m, s, be
  <2>2. \A ss, ee : Pack(ss, ee, mag \div 8, up) = Finish(ss, ee, RoundedAt(mag))
    BY <1>3, RoundedAtIs
  <2> HIDE DEF s, e, up
  <2> QED
    BY <2>1, <2>2
<1>7. RoundedSum(x, y) = Rounded(s, v, se)
  BY RoundedSumIs DEF v
<1>8. 4 * H <= m => l <= 1
  <2> SUFFICES ASSUME 4 * H <= m, l > 1 PROVE FALSE
    BY <1>5
  <2> DEFINE i == 1
  <2>1. i \in Nat /\ i < l
    OBVIOUS
  <2> HIDE DEF i
  <2>2. m * 2^i < 8 * H
    BY <1>3, <2>1
  <2>3. 2^i = 2
    BY SmallPowers DEF i
  <2> QED
    BY <1>1, <1>2, <2>2, <2>3
<1>9. m * t = 8 * v \/ (m % 2 = 1 /\ l <= 1 /\ n > 3 /\ (m - 1) * t < 8 * v /\ 8 * v < (m + 1) * t)
  BY <1>1, <1>2, <1>8 DEF Sticky
<1>10. 2^HALVINGS \in Nat
  BY SearchAssumption, Powers
<1> HIDE DEF t, s, be, se
<1>11. CASE n > l
  <2> DEFINE d == n - l
             u == 2^d
             p == d + MB
  <2>1. d \in Nat \ {0} /\ d + l = n
    BY <1>2, <1>5, <1>11
  <2> HIDE DEF d
  <2>2. t = u * tl /\ u \in Nat \ {0}
    BY <1>5, <2>1, PowerSum, Powers DEF t, tl
  <2> HIDE DEF u
  <2>3. \/ mag * u = 8 * v
        \/ mag % 2 = 1 /\ (mag - 1) * u < 8 * v /\ 8 * v < (mag + 1) * u
        \/ mag % 4 = 2 /\ (mag - 2) * u < 8 * v /\ 8 * v < (mag + 2) * u
    <3>1. CASE m * t = 8 * v
      <4>1. (m * tl) * u = m * (u * tl)
        BY <1>1, <1>5, <2>2
      <4> QED
        BY <2>2, <3>1, <4>1 DEF mag
    <3>2. CASE m % 2 = 1 /\ l <= 1 /\ n > 3 /\ (m - 1) * t < 8 * v /\ 8 * v < (m + 1) * t
      <4>1. CASE l = 0
        <5>1. tl = 1
          BY <4>1, SmallPowers DEF tl
        <5>2. mag = m /\ u = t
          BY <1>1, <2>2, <5>1 DEF mag
        <5> QED
          BY <3>2, <5>2
      <4>2. CASE l = 1
        <5>1. tl = 2
          BY <4>2, SmallPowers DEF tl
        <5>2. mag = 2 * m /\ t = 2 * u
          BY <1>1, <2>2, <5>1 DEF mag
        <5>3. (2 * m - 2) * u = (m - 1) * (2 * u) /\ (2 * m + 2) * u = (m + 1) * (2 * u)
          BY <1>1, <2>2
        <5>4. (2 * m) % 4 = 2
          BY <1>1, <3>2
        <5> QED
          BY <3>2, <5>2, <5>3, <5>4
      <4> QED
        BY <1>5, <3>2, <4>1, <4>2
    <3> QED
      BY <1>9, <3>1, <3>2
  <2>4. v \div u = mag \div 8 /\ NearestEven(v, d) = RoundedAt(mag)
    BY <1>1, <1>3, <2>1, <2>3, StickyRounds DEF u
  <2>5. H <= v \div u /\ v \div u < 2 * H
    BY <1>3, <2>4, RoundedAtIs
  <2>6. u * H <= v /\ v < u * (2 * H)
    <3> DEFINE hh == 2 * H
    <3>1. hh \in Nat /\ v \div u < hh /\ v \in Nat /\ H \in Nat
      BY <1>1, <1>2, <2>5
    <3> HIDE DEF hh
    <3>2. u * H <= v /\ v < u * hh
      BY <2>2, <2>5, <3>1, Quotients
    <3> QED
      BY <3>2 DEF hh
  <2>7. 2^p <= v /\ v < 2^(p + 1) /\ p \in Nat
    <3>1. MB + 1 \in Nat /\ p + 1 = d + (MB + 1) /\ p \in Nat
      BY <1>2, <2>1
    <3>2. 2^(d + MB) = 2^d * 2^MB /\ 2^(d + (MB + 1)) = 2^d * 2^(MB + 1)
      BY <1>2, <2>1, <3>1, PowerSum
    <3>3. 2^(d + MB) = u * H /\ 2^(d + (MB + 1)) = u * (2 * H)
      BY <1>2, <3>2 DEF u
    <3> QED
      BY <2>6, <3>1, <3>3
  <2>8. p <= 2 * MB + 6 + 2^HALVINGS /\ p > MB /\ p - MB = d
    BY <1>2, <1>5, <1>10, <2>1
  <2>9. Rounded(s, v, se) = Finish(s, se + p - MB, IF p > MB THEN NearestEven(v, p - MB) ELSE v * 2^(MB - p))
    <3> HIDE DEF p
    <3> QED
      BY <1>1, <2>7, <2>8, RoundedIs
  <2>10. se + p - MB = e
    BY <1>2, <1>5, <2>1
  <2>11. Rounded(s, v, se) = Finish(s, e, RoundedAt(mag))
    <3> HIDE DEF p, e
    <3> QED
      BY <2>4, <2>8, <2>9, <2>10
  <2> QED
    BY <1>6, <1>7, <2>11
<1>12. CASE n <= l
  <2> DEFINE c == l - n
             u == 2^c
             p == MB - c
             w == v * u
  <2>1. c \in Nat /\ n + c = l
    BY <1>2, <1>5, <1>12
  <2> HIDE DEF c
  <2>2. tl = t * u /\ u \in Nat \ {0} /\ t \in Nat \ {0}
    BY <1>2, <2>1, PowerSum, Powers DEF t, tl
  <2> HIDE DEF u
  <2>3. m * t = 8 * v
    <3>1. ~(l <= 1 /\ n > 3)
      BY <1>2, <1>5, <1>12
    <3> QED
      BY <1>9, <3>1
  <2>4. mag = 8 * w /\ w \in Nat
    <3>1. m * (t * u) = (m * t) * u /\ (8 * v) * u = 8 * (v * u) /\ v * u \in Nat
      BY <1>1, <2>2
    <3> QED
      BY <2>2, <2>3, <3>1 DEF mag
  <2> HIDE DEF w
  <2>5. H <= w /\ w < 2 * H
    BY <1>2, <1>3, <2>4
  <2>6. RoundedAt(mag) = w
    <3>1. mag \div 8 = w /\ mag % 4 = 0 /\ (mag \div 4) % 2 = 0
      BY <2>4
    <3>2. Bit(mag, 2) = 0
      BY <3>1, SmallPowers DEF Bit
    <3>3. RoundUp(Bit(mag, 2), Low(mag, 2) # 0, w) = 0
      BY <3>2 DEF RoundUp, Flag
    <3> QED
      BY <2>4, <3>1, <3>3 DEF RoundedAt
  <2>7. c <= MB
    <3>1. u <= w
      <4> DEFINE i == v - 1
      <4>1. i \in Nat /\ v = 1 + i
        BY <1>1
      <4> HIDE DEF i
      <4>2. v * u = u + i * u /\ i * u \in Nat
        BY <2>2, <4>1
      <4> QED
        BY <2>2, <4>2 DEF w
    <3>2. 2^c < 2^(MB + 1)
      BY <1>2, <2>2, <2>4, <2>5, <3>1 DEF u
    <3>3. c < MB + 1
      BY <1>2, <2>1, <3>2, PowerLeast
    <3> QED
      BY <1>2, <2>1, <3>3
  <2>8. p \in Nat /\ p + c = MB /\ (p + 1) + c = MB + 1 /\ p + 1 \in Nat
    BY <1>2, <2>1, <2>7
  <2> HIDE DEF p
  <2>9. 2^p * u = H /\ 2^(p + 1) * u = 2 * H /\ 2^p \in Nat /\ 2^(p + 1) \in Nat
    <3>1. 2^(p + c) = 2^p * 2^c /\ 2^((p + 1) + c) = 2^(p + 1) * 2^c
      BY <2>1, <2>8, PowerSum
    <3> QED
      BY <1>2, <2>8, <3>1, Powers DEF u
  <2>10. 2^p <= v /\ v < 2^(p + 1)
    <3> DEFINE p0 == 2^p
               p1 == 2^(p + 1)
    <3>1. p0 \in Nat /\ p1 \in Nat /\ p0 * u = H /\ p1 * u = 2 * H /\ v \in Nat
      BY <1>1, <2>9
    <3> HIDE DEF p0, p1
    <3>2. ~(p0 * u > v * u) /\ p1 * u > v * u
      BY <1>2, <2>4, <2>5, <3>1 DEF w
    <3>3. ~(p0 > v) /\ p1 > v
      BY <2>2, <3>1, <3>2, Scaling
    <3>4. p0 <= v /\ v < p1
      BY <3>1, <3>3
    <3> QED
      BY <3>4 DEF p0, p1
  <2>11. p <= 2 * MB + 6 + 2^HALVINGS /\ ~(p > MB) /\ MB - p = c
    BY <1>2, <1>10, <2>1, <2>8
  <2>12. Rounded(s, v, se) = Finish(s, se + p - MB, IF p > MB THEN NearestEven(v, p - MB) ELSE v * 2^(MB - p))
    BY <1>1, <2>8, <2>10, <2>11, RoundedIs
  <2>13. se + p - MB = e
    BY <1>2, <1>5, <2>1, <2>8
  <2>14. v * 2^(MB - p) = w
    BY <2>11 DEF u, w
  <2>15. Rounded(s, v, se) = Finish(s, e, w)
    <3> HIDE DEF e
    <3> QED
      BY <2>11, <2>12, <2>13, <2>14
  <2> QED
    BY <1>6, <1>7, <2>6, <2>15
<1> QED
  BY <1>2, <1>5, <1>11, <1>12

LEMMA CarriesIs ==
  ASSUME NEW x \in Float, NEW y \in Float
  PROVE  Magnitude(x, y) >= 2 * Hidden * 2^ShiftBy(x, y) <=> SumOf(x, y) >= 16 * Hidden
<1> DEFINE H == Hidden
           m == SumOf(x, y)
           v == Magnitude(x, y)
           t == 2^ShiftBy(x, y)
           w == 16 * H
           mt == m * t
           wt == w * t
<1>1. m \in Nat /\ v \in Nat /\ Sticky(m, 8 * v, t)
  BY SumSticks
<1>2. H \in Nat \ {0} /\ t \in Nat \ {0}
  BY MantissaPowers, ExactSumIs, Powers
<1> HIDE DEF m, v, t, H
<1>3. mt \in Nat /\ wt \in Nat /\ (m - 1) * t = mt - t /\ (m + 1) * t = mt + t /\ wt = 8 * (2 * H * t) /\ 2 * H * t \in Nat
  BY <1>1, <1>2
<1>4. mt = 8 * v \/ (m % 2 = 1 /\ mt - t < 8 * v /\ 8 * v < mt + t)
  BY <1>1, <1>3 DEF Sticky
<1>5. (w > m <=> wt > mt) /\ w \in Nat
  <2>1. w \in Nat
    BY <1>2
  <2> HIDE DEF w
  <2> QED
    BY <1>1, <1>2, <2>1, Scaling
<1>6. (m % 2 = 1 /\ w <= m) => wt <= mt - t
  <2> SUFFICES ASSUME m % 2 = 1, w <= m PROVE wt <= mt - t
    OBVIOUS
  <2> DEFINE l == m - 1
  <2>1. l \in Nat /\ ~(w > l)
    BY <1>1, <1>2
  <2>2. ~(w * t > l * t) /\ l * t = mt - t
    <3>1. l * t = mt - t
      BY <1>3
    <3> HIDE DEF l, w
    <3> QED
      BY <1>2, <1>5, <2>1, <3>1, Scaling
  <2> HIDE DEF mt, l
  <2> QED
    BY <1>2, <1>3, <2>2
<1>7. (w > m) => wt >= mt + t
  <2> SUFFICES ASSUME w > m PROVE wt >= mt + t
    OBVIOUS
  <2> DEFINE l == m + 1
  <2>1. l \in Nat /\ ~(l > w)
    BY <1>1, <1>2
  <2>2. ~(l * t > w * t) /\ l * t = mt + t
    <3>1. l * t = mt + t
      BY <1>3
    <3> HIDE DEF l, w
    <3> QED
      BY <1>2, <1>5, <2>1, <3>1, Scaling
  <2> HIDE DEF mt, l
  <2> QED
    BY <1>2, <1>3, <2>2
<1> HIDE DEF mt, wt, w
<1>8. 8 * v >= wt <=> m >= w
  BY <1>1, <1>2, <1>3, <1>4, <1>5, <1>6, <1>7
<1> DEFINE y2 == 2 * H * t
<1>9. wt = 8 * y2 /\ y2 \in Nat
  BY <1>3
<1> HIDE DEF y2
<1>10. v >= y2 <=> m >= w
  BY <1>1, <1>8, <1>9
<1> QED
  BY <1>10 DEF y2, m, v, t, H, w

LEMMA SumWithCarry ==
  ASSUME NEW x \in Float, NEW y \in Float, Ordinary(x), Ordinary(y), ShiftBy(x, y) <= MB + 5,
         16 * Hidden <= SumOf(x, y)
  PROVE  LET g == AddFinite(x, y)
             q == ExactSum(x, y)
         IN  IF Ordinary(g) THEN 8 * Dist(Value(g, q.e0), q.n) <= 5 * 2^(g.e - q.e0)
             ELSE g = RoundedSum(x, y)
<1> DEFINE H == Hidden
           m == SumOf(x, y)
           v == Magnitude(x, y)
           n == ShiftBy(x, y)
           d == n + 1
           u == 2^d
           h == m \div 2
           q == m \div 16
           g == RoundedAt(h)
           s == SignOfSum(x, y)
           be == BigOf(x, y).e
           se == SmallOf(x, y).e
           e == be + 1
           sum == AddFinite(x, y)
           exact == ExactSum(x, y)
           up == RoundUp(Bit(h, 2), Low(h, 2) # 0, h \div 8)
           near == NearestEven(v, d)
<1>1. /\ m \in Nat /\ v \in Nat \ {0} /\ Sticky(m, 8 * v, 2^n)
      /\ 16 * H <= m /\ m < 32 * H
      /\ exact.e0 = se /\ exact.n \in Int /\ v = Dist(exact.n, 0)
      /\ s = IF exact.n < 0 THEN 1 ELSE 0
  <2>1. H \in Nat \ {0}
    BY MantissaPowers
  <2>2. m \in Nat /\ m # 0
    BY <2>1, SumSticks
  <2>3. exact.n \in Int
    BY ExactSumIs DEF Signed
  <2> HIDE DEF exact
  <2>4. v = Dist(exact.n, 0)
    BY DEF Magnitude, exact
  <2> QED
    BY <2>2, <2>3, <2>4, SumSticks, ExactSumIs DEF exact
<1>2. /\ MB \in Nat /\ H \in Nat \ {0} /\ 2^(MB + 4) = 16 * H /\ 2^MB = H /\ 2^(MB + 1) = 2 * H
      /\ be \in Int /\ se \in Int /\ n \in Nat /\ n = be - se /\ n <= MB + 5
      /\ 1 <= be /\ be <= EMAX - 1 /\ EMAX \in Nat
  BY MantissaPowers, ExactSumIs, Fields, Widths DEF BigOf, SmallOf, ShiftBy, Ordinary
<1> HIDE DEF m, v, n, s, be, se, exact
<1>3. Normalised(m) = [mag |-> h, up |-> 1]
  <2> DEFINE w == 16 * H
  <2>1. Bit(m, MB + 4) = (m \div w) % 2
    BY <1>2 DEF Bit
  <2> DEFINE r == m - w
             one == 1
  <2>2. w \in Nat \ {0} /\ m = w * one + r /\ r \in 0 .. w - 1 /\ one \in Int /\ m \in Int
    BY <1>1, <1>2
  <2> HIDE DEF w, r, one
  <2>3. m \div w = one
    BY <2>2, DivisionIsUnique
  <2> QED
    BY <2>1, <2>3 DEF Normalised, one
<1>4. h \in Nat /\ 8 * H <= h /\ h < 16 * H /\ h \div 8 = q /\ q \in Nat /\ H <= q /\ q < 2 * H
  BY <1>1, <1>2
<1>5. sum = Finish(s, e, g)
  <2>1. sum = Pack(s, e, h \div 8, up)
    <3>1. m # 0
      BY <1>1, <1>2
    <3> QED
      BY <1>3, <3>1, AddFiniteIs DEF m, s, be
  <2> HIDE DEF h, g
  <2>2. \A ss, ee : Pack(ss, ee, h \div 8, up) = Finish(ss, ee, RoundedAt(h))
    BY <1>4, RoundedAtIs
  <2> HIDE DEF e, up, sum
  <2> QED
    BY <2>1, <2>2 DEF g
<1>6. /\ g \in Nat /\ q <= g /\ g <= q + 1
      /\ v \div u = q
      /\ 8 * Dist(g * u, v) <= 5 * u
      /\ q % 2 = 1 => near = g
  <2>1. n \in Nat /\ v \in Nat /\ m \in Nat /\ Sticky(m, 8 * v, 2^n)
    BY <1>1, <1>2
  <2> QED
    BY <2>1, CarryRounds
<1> HIDE DEF h, g, q, near, sum
<1>7. RoundedSum(x, y) = Finish(s, e, near)
  <2> DEFINE p == d + MB
  <2>1. d \in Nat /\ p \in Nat /\ MB + 1 \in Nat /\ p + 1 = d + (MB + 1)
    BY <1>2
  <2>2. u \in Nat \ {0} /\ 2^p = u * H /\ 2^(p + 1) = u * (2 * H)
    <3> HIDE DEF d
    <3>1. 2^(d + MB) = 2^d * 2^MB /\ 2^(d + (MB + 1)) = 2^d * 2^(MB + 1)
      BY <1>2, <2>1, PowerSum
    <3> QED
      BY <1>2, <2>1, <3>1, Powers
  <2>3. u * H <= v /\ v < u * (2 * H)
    <3> DEFINE hh == 2 * H
    <3>1. hh \in Nat /\ v \div u < hh /\ H <= v \div u /\ v \in Nat /\ H \in Nat
      BY <1>1, <1>2, <1>4, <1>6
    <3> HIDE DEF hh, u
    <3>2. u * H <= v /\ v < u * hh
      BY <2>2, <3>1, Quotients
    <3> QED
      BY <3>2 DEF hh
  <2>4. 2^p <= v /\ v < 2^(p + 1)
    BY <2>2, <2>3
  <2>5. p <= 2 * MB + 6 + 2^HALVINGS /\ p > MB /\ p - MB = d
    <3>1. 2^HALVINGS \in Nat
      BY SearchAssumption, Powers
    <3> QED
      BY <1>2, <3>1
  <2>6. se + p - MB = e
    BY <1>2
  <2>7. RoundedSum(x, y) = Rounded(s, v, se)
    <3>1. SumOf(x, y) # 0
      BY <1>1, <1>2 DEF m
    <3> QED
      BY <3>1, RoundedSumIs DEF s, v, se
  <2> HIDE DEF p, d, e
  <2>8. Rounded(s, v, se) = Finish(s, se + p - MB, IF p > MB THEN NearestEven(v, p - MB) ELSE v * 2^(MB - p))
    BY <1>1, <2>1, <2>4, <2>5, RoundedIs
  <2> QED
    BY <2>5, <2>6, <2>7, <2>8 DEF near
<1>8. u \in Nat \ {0} /\ 2^(d + 1) = 2 * u
  <2>1. d \in Nat
    BY <1>2
  <2> HIDE DEF d
  <2> QED
    BY <2>1, Powers
<1>9. exact.n = Signed(s, v)
  BY <1>1 DEF Signed, Dist
<1>10. ASSUME NEW f \in Nat
       PROVE  Dist(Signed(s, f), exact.n) = Dist(f, v)
  <2> HIDE DEF s
  <2>1. s \in {0, 1}
    BY <1>1
  <2> QED
    BY <1>1, <1>9, <2>1 DEF Signed, Dist
<1>11. g * u \in Nat
  BY <1>6, <1>8
<1>12. CASE g # 2 * H
  <2>1. sum = IF e + 0 >= EMAX THEN Inf(s) ELSE IF e + 0 <= 0 THEN Zero(s)
              ELSE [s |-> s, e |-> e + 0, m |-> g - H]
    BY <1>5, <1>12 DEF Finish
  <2>2. CASE e >= EMAX
    <3>1. sum = Inf(s) /\ ~Ordinary(sum)
      BY <1>2, <2>1, <2>2 DEF Inf, Ordinary
    <3>2. Finish(s, e, near) = Inf(s)
      BY <1>2, <2>2 DEF Finish
    <3> QED
      BY <1>7, <3>1, <3>2 DEF sum
  <2>3. CASE ~(e >= EMAX)
    <3>1. sum = [s |-> s, e |-> e, m |-> g - H]
      BY <1>2, <2>1, <2>3
    <3>2. sum.s = s /\ sum.e = e /\ Sig(sum) = g
      BY <1>2, <1>6, <3>1 DEF Sig
    <3>3. Ordinary(sum)
      BY <1>2, <2>3, <3>2 DEF Ordinary
    <3>4. e - se = d
      BY <1>2
    <3> HIDE DEF d, e
    <3>5. Value(sum, se) = (IF s = 1 THEN -1 ELSE 1) * g * u
      BY <3>2, <3>4 DEF Value
    <3> HIDE DEF u
    <3>6. (-1) * g * u = 0 - g * u /\ 1 * g * u = g * u
      BY <1>6, <1>8
    <3>7. Value(sum, se) = Signed(s, g * u)
      BY <3>5, <3>6 DEF Signed
    <3> DEFINE gu == g * u
    <3>8. gu \in Nat /\ Value(sum, se) = Signed(s, gu)
      BY <1>11, <3>7
    <3> HIDE DEF gu
    <3>9. Dist(Value(sum, se), exact.n) = Dist(gu, v)
      BY <1>10, <3>8
    <3>10. 8 * Dist(Value(sum, se), exact.n) <= 5 * 2^(sum.e - se)
      BY <1>6, <3>2, <3>4, <3>9 DEF gu, u
    <3> QED
      BY <1>1, <3>3, <3>10 DEF sum, exact
  <2> QED
    BY <2>2, <2>3
<1>13. CASE g = 2 * H
  <2>1. sum = IF e + 1 >= EMAX THEN Inf(s) ELSE IF e + 1 <= 0 THEN Zero(s)
              ELSE [s |-> s, e |-> e + 1, m |-> 0]
    BY <1>5, <1>13 DEF Finish
  <2>2. near = g
    <3>1. q % 2 = 1
      BY <1>2, <1>4, <1>6, <1>13
    <3> QED
      BY <1>6, <3>1
  <2>3. CASE e + 1 >= EMAX
    <3>1. sum = Inf(s) /\ ~Ordinary(sum)
      BY <1>2, <2>1, <2>3 DEF Inf, Ordinary
    <3>2. sum = RoundedSum(x, y)
      BY <1>5, <1>7, <2>2
    <3> QED
      BY <3>1, <3>2 DEF sum
  <2>4. CASE ~(e + 1 >= EMAX)
    <3>1. sum = [s |-> s, e |-> e + 1, m |-> 0]
      BY <1>2, <2>1, <2>4
    <3>2. sum.s = s /\ sum.e = e + 1 /\ Sig(sum) = H
      BY <1>2, <3>1 DEF Sig
    <3>3. Ordinary(sum)
      BY <1>2, <2>4, <3>2 DEF Ordinary
    <3>4. (e + 1) - se = d + 1
      BY <1>2
    <3> HIDE DEF d, e
    <3> DEFINE uu == 2^(d + 1)
    <3>5. Value(sum, se) = (IF s = 1 THEN -1 ELSE 1) * H * uu
      BY <3>2, <3>4 DEF Value
    <3>6. uu = 2 * u
      BY <1>8
    <3> HIDE DEF u, uu
    <3>7. (-1) * H * uu = 0 - g * u /\ 1 * H * uu = g * u
      BY <1>2, <1>8, <1>13, <3>6
    <3>8. Value(sum, se) = Signed(s, g * u)
      BY <3>5, <3>7 DEF Signed
    <3> DEFINE gu == g * u
    <3>9. gu \in Nat /\ Value(sum, se) = Signed(s, gu)
      BY <1>11, <3>8
    <3> HIDE DEF gu
    <3>10. Dist(Value(sum, se), exact.n) = Dist(gu, v)
      BY <1>10, <3>9
    <3>11. 2^(sum.e - se) = uu
      BY <3>2, <3>4 DEF uu
    <3>12. 8 * Dist(Value(sum, se), exact.n) <= 5 * 2^(sum.e - se)
      <4>1. 8 * Dist(gu, v) <= 5 * u
        BY <1>6 DEF gu
      <4>2. Dist(gu, v) \in Int
        BY <1>1, <3>9 DEF Dist
      <4> DEFINE dd == Dist(gu, v)
      <4> HIDE DEF dd
      <4>3. 8 * dd <= 5 * uu
        BY <1>8, <3>6, <4>1, <4>2 DEF dd
      <4> QED
        BY <3>10, <3>11, <4>3 DEF dd
    <3> QED
      BY <1>1, <3>3, <3>12 DEF sum, exact
  <2> QED
    BY <2>3, <2>4
<1> QED
  BY <1>12, <1>13
------------------------------------------------------------------------------
(* The adder on ordinary operands.                                         *)
LEMMA AddIsFinite ==
  ASSUME NEW x \in Float, NEW y \in Float, Ordinary(x), Ordinary(y)
  PROVE  fp32_add(x, y) = AddFinite(x, y)
<1>1. ~is_nan(x) /\ ~is_nan(y) /\ ~is_inf(x) /\ ~is_inf(y) /\ ~is_zero(x) /\ ~is_zero(y)
  BY Widths DEF Ordinary, is_nan, is_inf, is_zero
<1> QED
  BY <1>1 DEF fp32_add

LEMMA OperandsAre ==
  ASSUME NEW x \in Float, NEW y \in Float
  PROVE  /\ ShiftBy(x, y) = Dist(x.e, y.e)
         /\ SmallOf(x, y).e = ExactSum(x, y).e0
         /\ BigOf(x, y).e = IF x.e >= y.e THEN x.e ELSE y.e
<1>1. x.e \in Int /\ y.e \in Int
  BY Fields
<1>2. BigOf(x, y).e = IF x.e >= y.e THEN x.e ELSE y.e
  BY DEF BigOf
<1>3. SmallOf(x, y).e = IF x.e >= y.e THEN y.e ELSE x.e
  BY DEF SmallOf
<1>4. ShiftBy(x, y) = Dist(x.e, y.e)
  BY <1>1, <1>2, <1>3 DEF ShiftBy, Dist
<1> QED
  BY <1>2, <1>4, ExactSumIs

LEMMA SumIsNear ==
  ASSUME NEW x \in Float, NEW y \in Float, Ordinary(x), Ordinary(y), Dist(x.e, y.e) <= MB + 5
  PROVE  LET g == fp32_add(x, y)
             q == ExactSum(x, y)
             big == IF x.e >= y.e THEN x.e ELSE y.e
         IN  IF Dist(q.n, 0) >= 2 * Hidden * 2^(big - q.e0) /\ Ordinary(g)
             THEN 8 * Dist(Value(g, q.e0), q.n) <= 5 * 2^(g.e - q.e0)
             ELSE g = RoundedSum(x, y)
<1> DEFINE g == fp32_add(x, y)
           q == ExactSum(x, y)
           big == IF x.e >= y.e THEN x.e ELSE y.e
           carries == Dist(q.n, 0) >= 2 * Hidden * 2^(big - q.e0)
           near == 8 * Dist(Value(g, q.e0), q.n) <= 5 * 2^(g.e - q.e0)
<1>1. g = AddFinite(x, y)
  BY AddIsFinite
<1>2. ShiftBy(x, y) <= MB + 5
  BY OperandsAre
<1>3. carries <=> SumOf(x, y) >= 16 * Hidden
  <2>1. ShiftBy(x, y) = big - q.e0
    BY OperandsAre DEF ShiftBy
  <2> HIDE DEF big, q
  <2>2. carries <=> Magnitude(x, y) >= 2 * Hidden * 2^ShiftBy(x, y)
    BY <2>1 DEF Magnitude, q
  <2> HIDE DEF carries
  <2> QED
    BY <2>2, CarriesIs
<1>4. SumOf(x, y) \in Nat /\ Hidden \in Nat \ {0} /\ Hidden \in Nat
  BY SumSticks, MantissaPowers
<1>5. CASE carries
  <2>1. 16 * Hidden <= SumOf(x, y)
    BY <1>3, <1>4, <1>5
  <2>2. IF Ordinary(g) THEN near ELSE g = RoundedSum(x, y)
    BY <1>1, <1>2, <2>1, SumWithCarry
  <2> HIDE DEF g, near, carries
  <2> QED
    BY <1>5, <2>2 DEF carries, near, g
<1>6. CASE ~carries
  <2>1. SumOf(x, y) < 16 * Hidden
    BY <1>3, <1>4, <1>6
  <2>2. CASE SumOf(x, y) # 0
    <3>1. g = RoundedSum(x, y)
      BY <1>1, <1>2, <2>1, <2>2, SumWithoutCarry
    <3> HIDE DEF g, near, carries
    <3> QED
      BY <1>6, <3>1 DEF carries, near, g
  <2>3. CASE SumOf(x, y) = 0
    <3>1. g = Zero(0)
      BY <1>1, <2>3, AddFiniteIs
    <3>2. q.n = 0
      BY <2>3, SumSticks, ExactSumIs DEF Magnitude, Dist, Signed
    <3>3. g = RoundedSum(x, y)
      BY <3>1, <3>2 DEF RoundedSum
    <3> HIDE DEF g, near, carries
    <3> QED
      BY <1>6, <3>3 DEF carries, near, g
  <2> QED
    BY <2>2, <2>3
<1> QED
  BY <1>5, <1>6
------------------------------------------------------------------------------
(* The golden's results, by the operation they are of.                     *)
GoldenInv ==
  /\ op = "decode" => a \in Code
  /\ Did({"mul"}) => golden = fp32_mul(a, b)
  /\ Did({"add"}) => golden = fp32_add(a, b)
  /\ Did({"round"}) => golden = fixed_to_fp32(a)
  /\ Did({"decode"}) => /\ golden = fp32_to_fp8e4m3(fp8e4m3_to_fp32(a))
                        /\ array = gen_fp32_to_fp8e4m3(fp8e4m3_to_fp32(a))

LEMMA GoldenInitInv ==
  ASSUME OpsInit \/ OpsIdle
  PROVE  GoldenInv
<1>1. ~done
  BY DEF OpsInit, OpsIdle
<1>2. op = "decode" => a \in Code
  BY DEF OpsInit, OpsIdle
<1> QED
  BY <1>1, <1>2 DEF GoldenInv, Did

LEMMA GoldenStepInv ==
  ASSUME GoldenInv, OpsNext \/ UNCHANGED opsVars
  PROVE  GoldenInv'
<1>1. CASE Multiply
  BY <1>1 DEF GoldenInv, Multiply, Pending, Did
<1>2. CASE Add
  BY <1>2 DEF GoldenInv, Add, Pending, Did
<1>3. CASE Encode
  BY <1>3 DEF GoldenInv, Encode, Pending, Did
<1>4. CASE Narrow
  BY <1>4 DEF GoldenInv, Narrow, Pending, Did
<1>5. CASE Scale
  BY <1>5 DEF GoldenInv, Scale, Pending, Did
<1>6. CASE Decode
  BY <1>6 DEF GoldenInv, Decode, Pending, Did
<1>7. CASE MultiplyCodes
  BY <1>7 DEF GoldenInv, MultiplyCodes, Pending, Did
<1>8. CASE Round
  BY <1>8 DEF GoldenInv, Round, Pending, Did
<1>9. CASE UNCHANGED opsVars
  BY <1>9 DEF GoldenInv, opsVars, Did
<1> QED
  BY <1>1, <1>2, <1>3, <1>4, <1>5, <1>6, <1>7, <1>8, <1>9 DEF OpsNext

LEMMA GoldenInvIsInvariant == NumericsSpec => []GoldenInv
<1>1. NumericsInit => GoldenInv
  BY GoldenInitInv DEF NumericsInit
<1>2. GoldenInv /\ [NumericsNext]_<<opsVars, gemmVars>> => GoldenInv'
  <2>1. [NumericsNext]_<<opsVars, gemmVars>> => OpsNext \/ UNCHANGED opsVars
    BY DEF NumericsNext
  <2> QED
    BY <2>1, GoldenStepInv
<1> QED
  BY <1>1, <1>2, PTL DEF NumericsSpec

(* The golden's product, sum, block sum and code are the nearest           *)
(* representable values, ties to even, with the flush to zero and the      *)
(* overflow; a sum that carries out of its binade is within 5/8 of a unit  *)
(* in the last place; and decoding inverts encoding: for fields of every   *)
(* width that has room for the product of two codes.                       *)
THEOREM AlwaysRoundsToNearest == NumericsSpec => []RoundsToNearest
<1>1. OpsInv /\ GoldenInv => RoundsToNearest
  <2> SUFFICES ASSUME OpsInv, GoldenInv PROVE RoundsToNearest
    OBVIOUS
  <2>1. ProductsAreRounded
    <3> SUFFICES ASSUME Did({"mul"}), Ordinary(a), Ordinary(b) PROVE golden = RoundedProduct(a, b)
      BY DEF ProductsAreRounded
    <3>1. a \in Float /\ b \in Float /\ golden = fp32_mul(a, b)
      BY DEF OpsInv, GoldenInv, Did
    <3> QED
      BY <3>1, ProductIsRounded
  <2>2. SumsAreNear
    <3> SUFFICES ASSUME Did({"add"}), Addable
                 PROVE  IF Carries /\ Ordinary(golden) THEN WithinFiveEighths ELSE golden = RoundedSum(a, b)
      BY DEF SumsAreNear
    <3>1. a \in Float /\ b \in Float /\ golden = fp32_add(a, b)
      BY DEF OpsInv, GoldenInv, Did
    <3> QED
      BY <3>1, SumIsNear DEF Addable, Carries, WithinFiveEighths
  <2>3. BlockSumsAreRounded
    <3> SUFFICES ASSUME Did({"round"}), a # 0
                 PROVE  golden = Rounded(IF a < 0 THEN 1 ELSE 0, Dist(a, 0), BIAS + MB - ACC_FRAC)
      BY DEF BlockSumsAreRounded
    <3>1. a \in Int /\ Searchable(Dist(a, 0)) /\ golden = fixed_to_fp32(a)
      BY DEF OpsInv, GoldenInv, Did
    <3> QED
      BY <3>1, BlockSumIsRounded
  <2>4. CodesAreNearest
    <3> SUFFICES ASSUME Did({"encode"}), Ordinary(a)
                 PROVE  golden.s = a.s /\ ~is_code_nan(golden) /\ CodeUnits(golden) = NearestUnits(a)
      BY DEF CodesAreNearest
    <3>1. a \in Float /\ golden = fp32_to_fp8e4m3(a)
      BY DEF OpsInv, Did
    <3> QED
      BY <3>1, EncodedIsNearest
  <2>5. DecodeInverts
    <3> SUFFICES ASSUME Did({"decode"})
                 PROVE  golden = array /\ IF is_code_nan(a) THEN golden = CodeNaN(a.s) ELSE golden = a
      BY DEF DecodeInverts
    <3>1. /\ a \in Code
          /\ golden = fp32_to_fp8e4m3(fp8e4m3_to_fp32(a))
          /\ array = gen_fp32_to_fp8e4m3(fp8e4m3_to_fp32(a))
      BY DEF GoldenInv, Did
    <3>2. /\ fp8e4m3_to_fp32(a) \in Float
          /\ golden = IF is_code_nan(a) THEN CodeNaN(a.s) ELSE a
      BY <3>1, DecodeIsInverted
    <3>3. golden = array
      BY <3>1, <3>2, EncodeIsGolden
    <3> QED
      BY <3>2, <3>3
  <2> QED
    BY <2>1, <2>2, <2>3, <2>4, <2>5 DEF RoundsToNearest
<1> QED
  BY <1>1, OpsInvIsInvariant, GoldenInvIsInvariant, PTL
------------------------------------------------------------------------------
(* Sums over a finite set: MapThenSumSet takes one element after another   *)
(* out of it.  v is the sum of F over S when it is the last of the sums of *)
(* all subsets, each the sum without any one element plus that element's.  *)
AnyOf(T) == CHOOSE i \in T : TRUE
Unrolled(S, F, g) == [T \in SUBSET S |-> IF T = {} THEN 0 ELSE F[AnyOf(T)] + g[T \ {AnyOf(T)}]]
Sums(S, F, g) == /\ g[{}] = 0
                 /\ \A T \in SUBSET S : g[T] \in Int /\ \A i \in T : g[T] = F[i] + g[T \ {i}]
IsSum(v, F, S) == \E g : Sums(S, F, g) /\ v = g[S]
HasSums(S, F) == \E g : g = Unrolled(S, F, g)

LEMMA Smaller ==
  ASSUME NEW T, IsFiniteSet(T), NEW i \in T
  PROVE  /\ IsFiniteSet(T \ {i}) /\ Cardinality(T \ {i}) = Cardinality(T) - 1
         /\ Cardinality(T) \in Nat \ {0} /\ Cardinality(T \ {i}) \in Nat
<1>1. Cardinality(T) \in Nat /\ IsFiniteSet(T \ {i}) /\ Cardinality(T \ {i}) = Cardinality(T) - 1
  BY FS_RemoveElement, FS_CardinalityType
<1>2. Cardinality(T \ {i}) \in Nat
  BY <1>1, FS_CardinalityType
<1> QED
  BY <1>1, <1>2

(* Passing over the subsets as often as the set has elements.              *)
LEMMA SumsExist ==
  ASSUME NEW S, IsFiniteSet(S), NEW F \in [S -> Int]
  PROVE  HasSums(S, F)
<1> DEFINE n == Cardinality(S) + 1
           D == [SUBSET S -> Int]
           zero == [T \in SUBSET S |-> 0]
           pass(g) == [T \in SUBSET S |-> IF T = {} THEN 0 ELSE F[AnyOf(T)] + g[T \ {AnyOf(T)}]]
           G == [l \in 1 .. n |-> [g \in D |-> pass(g)]]
<1>1. n \in Nat /\ n # 0
  BY FS_CardinalityType
<1>2. \A T \in SUBSET S : T # {} => AnyOf(T) \in T
  BY DEF AnyOf
<1>3. \A g \in D : pass(g) \in D
  <2> SUFFICES ASSUME NEW g \in D, NEW T \in SUBSET S, T # {} PROVE F[AnyOf(T)] + g[T \ {AnyOf(T)}] \in Int
    OBVIOUS
  <2>1. AnyOf(T) \in S /\ T \ {AnyOf(T)} \in SUBSET S
    BY <1>2
  <2> QED
    BY <2>1
<1>4. zero \in D
  OBVIOUS
<1> HIDE DEF n, pass
<1>5. G \in [1 .. n -> [D -> D]]
  BY <1>3
<1>6. PICK f \in [0 .. n -> D] : f[0] = zero /\ \A l \in 1 .. n : f[l] = G[l][f[l - 1]]
  <2> HIDE DEF G, D, zero
  <2>1. Iterates(n, D, zero, G)
    BY <1>1, <1>4, <1>5, Iteration
  <2> QED
    BY <2>1 DEF Iterates
<1>7. \A l \in 1 .. n : f[l - 1] \in D /\ f[l] = pass(f[l - 1])
  <2> SUFFICES ASSUME NEW l \in 1 .. n PROVE f[l - 1] \in D /\ f[l] = pass(f[l - 1])
    OBVIOUS
  <2>1. l - 1 \in 0 .. n
    BY <1>1
  <2>2. f[l - 1] \in D
    BY <2>1
  <2> HIDE DEF D
  <2> QED
    BY <1>6, <2>2
<1> HIDE DEF G, D
<1> DEFINE Settled(c) == \A T \in SUBSET S : \A l \in 1 .. n :
                           (Cardinality(T) = c /\ c < l) => f[l][T] = pass(f[l])[T]
           Cs == {c \in Nat : c < n => Settled(c)}
<1>8. ASSUME NEW c \in Nat, \A d \in Nat : d < c => d \in Cs PROVE c \in Cs
  <2> SUFFICES ASSUME c < n, NEW T \in SUBSET S, NEW l \in 1 .. n, Cardinality(T) = c, c < l
               PROVE  f[l][T] = pass(f[l])[T]
    OBVIOUS
  <2>1. f[l] = pass(f[l - 1])
    BY <1>7
  <2>2. CASE T = {}
    BY <2>1, <2>2 DEF pass
  <2>3. CASE T # {}
    <3> DEFINE i == AnyOf(T)
               U == T \ {i}
    <3>1. i \in T /\ U \in SUBSET S /\ IsFiniteSet(T)
      BY <1>2, <2>3, FS_Subset
    <3>2. Cardinality(U) = c - 1 /\ c - 1 \in Nat
      <4> HIDE DEF i
      <4> QED
        BY <3>1, Smaller
    <3>3. l - 1 \in 1 .. n /\ c - 1 < l - 1 /\ c - 1 < c /\ c - 1 < n
      BY <3>2, <1>1
    <3>4. Settled(c - 1)
      <4> HIDE DEF Settled
      <4>1. c - 1 \in Cs
        BY <1>8, <3>2, <3>3
      <4> QED
        BY <4>1, <3>3
    <3> HIDE DEF i
    <3>5. f[l - 1][U] = pass(f[l - 1])[U]
      BY <3>1, <3>2, <3>3, <3>4
    <3>6. f[l - 1][U] = f[l][U]
      BY <2>1, <3>5
    <3>7. f[l][T] = F[i] + f[l - 1][U] /\ pass(f[l])[T] = F[i] + f[l][U]
      BY <2>1, <2>3 DEF pass, i
    <3> HIDE DEF U
    <3> QED
      BY <3>6, <3>7
  <2> QED
    BY <2>2, <2>3
<1>9. Cs = Nat
  <2>1. Cs \in SUBSET Nat
    OBVIOUS
  <2> HIDE DEF Cs
  <2> QED
    BY <1>8, <2>1, NatSets
<1> DEFINE g == f[n]
<1>10. \A T \in SUBSET S : g[T] = pass(g)[T]
  <2> SUFFICES ASSUME NEW T \in SUBSET S PROVE g[T] = pass(g)[T]
    OBVIOUS
  <2> DEFINE c == Cardinality(T)
  <2>1. c \in Nat /\ c <= Cardinality(S)
    BY FS_Subset, FS_CardinalityType
  <2>2. c < n /\ n \in 1 .. n
    BY <1>1, <2>1, FS_CardinalityType DEF n
  <2>3. Settled(c)
    <3> HIDE DEF Settled, c
    <3> QED
      BY <1>9, <2>1, <2>2
  <2> QED
    BY <2>2, <2>3
<1>11. g = pass(g)
  <2>1. g = pass(f[n - 1])
    BY <1>1, <1>7
  <2> HIDE DEF g
  <2>2. g = [T \in SUBSET S |-> g[T]]
    BY <2>1 DEF pass
  <2> QED
    BY <1>10, <2>2 DEF pass
<1>12. g = Unrolled(S, F, g)
  BY <1>11 DEF pass, Unrolled
<1> QED
  BY <1>12 DEF HasSums

(* It does not matter which element is taken out first.                    *)
LEMMA UnrolledIsSum ==
  ASSUME NEW S, IsFiniteSet(S), NEW F \in [S -> Int], NEW g, g = Unrolled(S, F, g)
  PROVE  Sums(S, F, g)
<1> DEFINE Good(T) == g[T] \in Int /\ \A i \in T : g[T] = F[i] + g[T \ {i}]
           Cs == {c \in Nat : \A T \in SUBSET S : Cardinality(T) = c => Good(T)}
<1>1. g[{}] = 0
  <2>1. {} \in SUBSET S
    OBVIOUS
  <2> QED
    BY <2>1 DEF Unrolled
<1>2. \A T \in SUBSET S : T # {} => AnyOf(T) \in T /\ g[T] = F[AnyOf(T)] + g[T \ {AnyOf(T)}]
  <2> SUFFICES ASSUME NEW T \in SUBSET S, T # {} PROVE AnyOf(T) \in T /\ g[T] = F[AnyOf(T)] + g[T \ {AnyOf(T)}]
    OBVIOUS
  <2>1. AnyOf(T) \in T
    BY DEF AnyOf
  <2>2. Unrolled(S, F, g)[T] = F[AnyOf(T)] + g[T \ {AnyOf(T)}]
    BY DEF Unrolled
  <2> QED
    BY <2>1, <2>2
<1>3. ASSUME NEW c \in Nat, \A d \in Nat : d < c => d \in Cs PROVE c \in Cs
  <2> SUFFICES ASSUME NEW T \in SUBSET S, Cardinality(T) = c PROVE Good(T)
    OBVIOUS
  <2>1. CASE T = {}
    BY <1>1, <2>1
  <2>2. CASE T # {}
    <3> DEFINE h == AnyOf(T)
               U == T \ {h}
    <3>1. h \in T /\ g[T] = F[h] + g[U] /\ IsFiniteSet(T)
      BY <1>2, <2>2, FS_Subset
    <3> HIDE DEF h
    <3>2. \A i \in T : IsFiniteSet(T \ {i}) /\ Cardinality(T \ {i}) = c - 1 /\ c - 1 \in Nat /\ c - 1 < c
      BY <3>1, Smaller
    <3>3. \A i \in T : T \ {i} \in SUBSET S /\ Good(T \ {i})
      <4> SUFFICES ASSUME NEW i \in T PROVE Good(T \ {i})
        OBVIOUS
      <4> HIDE DEF Good
      <4>1. c - 1 \in Cs
        BY <1>3, <3>2
      <4> QED
        BY <3>2, <4>1
    <3>4. g[U] \in Int /\ F[h] \in Int
      BY <3>1, <3>3
    <3>5. ASSUME NEW i \in T PROVE g[T] = F[i] + g[T \ {i}]
      <4>1. CASE i = h
        BY <3>1, <4>1
      <4>2. CASE i # h
        <5> DEFINE V == U \ {i}
                   W == T \ {i}
        <5>1. i \in U /\ h \in W /\ W \ {h} = V
          BY <3>1, <4>2
        <5>2. g[U] = F[i] + g[V]
          BY <3>1, <3>3, <5>1
        <5>3. g[W] = F[h] + g[W \ {h}] /\ g[W] \in Int
          BY <3>3, <5>1
        <5>4. g[V] \in Int /\ F[i] \in Int
          <6>1. Good(W)
            BY <3>3
          <6>2. /\ IsFiniteSet(V) /\ Cardinality(V) = c - 2 /\ c - 2 \in Nat /\ c - 2 < c
                /\ V \in SUBSET S
            <7>1. IsFiniteSet(W) /\ Cardinality(W) = c - 1
              BY <3>2
            <7>2. V \in SUBSET S
              BY <3>1
            <7> HIDE DEF W, V
            <7>3. IsFiniteSet(V) /\ Cardinality(V) = (c - 1) - 1 /\ Cardinality(V) \in Nat
              BY <5>1, <7>1, Smaller
            <7> QED
              BY <7>2, <7>3
          <6>3. Good(V)
            <7> HIDE DEF Good, V
            <7>1. c - 2 \in Cs
              BY <1>3, <6>2
            <7> QED
              BY <6>2, <7>1
          <6> QED
            BY <6>3
        <5> HIDE DEF U, V, W
        <5>5. g[W] = F[h] + g[V]
          BY <5>1, <5>3
        <5>6. g[T] = F[i] + g[W]
          BY <3>1, <3>4, <5>2, <5>4, <5>5
        <5> QED
          BY <5>6 DEF W
      <4> QED
        BY <4>1, <4>2
    <3>6. g[T] \in Int
      BY <3>1, <3>4
    <3> QED
      BY <3>5, <3>6
  <2> QED
    BY <2>1, <2>2
<1>4. Cs = Nat
  <2>1. Cs \in SUBSET Nat
    OBVIOUS
  <2> HIDE DEF Cs
  <2> QED
    BY <1>3, <2>1, NatSets
<1>5. ASSUME NEW T \in SUBSET S PROVE Good(T)
  <2>1. Cardinality(T) \in Nat
    BY FS_Subset, FS_CardinalityType
  <2> HIDE DEF Good
  <2> QED
    BY <1>4, <2>1
<1> QED
  BY <1>1, <1>5 DEF Sums

(* The sum is unique, grows by what an element adds, and is bounded by the *)
(* number of its elements.                                                 *)
LEMMA SumIsUnique ==
  ASSUME NEW S, IsFiniteSet(S), NEW F, NEW G, \A i \in S : F[i] = G[i],
         NEW v, NEW w, IsSum(v, F, S), IsSum(w, G, S)
  PROVE  v = w
<1>1. PICK f : Sums(S, F, f) /\ v = f[S]
  BY DEF IsSum
<1>2. PICK g : Sums(S, G, g) /\ w = g[S]
  BY DEF IsSum
<1> DEFINE Cs == {c \in Nat : \A T \in SUBSET S : Cardinality(T) = c => f[T] = g[T]}
<1>3. ASSUME NEW c \in Nat, \A d \in Nat : d < c => d \in Cs PROVE c \in Cs
  <2> SUFFICES ASSUME NEW T \in SUBSET S, Cardinality(T) = c PROVE f[T] = g[T]
    OBVIOUS
  <2>1. CASE T = {}
    BY <1>1, <1>2, <2>1 DEF Sums
  <2>2. CASE T # {}
    <3>1. PICK i : i \in T
      BY <2>2
    <3> DEFINE U == T \ {i}
    <3>2. IsFiniteSet(T) /\ U \in SUBSET S /\ i \in S
      BY <3>1, FS_Subset
    <3>3. Cardinality(U) = c - 1 /\ c - 1 \in Nat /\ c - 1 < c
      <4>1. Cardinality(T \ {i}) = Cardinality(T) - 1 /\ Cardinality(T \ {i}) \in Nat
        BY <3>1, <3>2, Smaller
      <4> QED
        BY <4>1
    <3>4. f[U] = g[U]
      <4> HIDE DEF U
      <4>1. c - 1 \in Cs
        BY <1>3, <3>3
      <4> QED
        BY <3>2, <3>3, <4>1
    <3>5. f[T] = F[i] + f[U] /\ g[T] = G[i] + g[U]
      BY <1>1, <1>2, <3>1 DEF Sums
    <3> QED
      BY <3>2, <3>4, <3>5
  <2> QED
    BY <2>1, <2>2
<1>4. Cs = Nat
  <2>1. Cs \in SUBSET Nat
    OBVIOUS
  <2> HIDE DEF Cs
  <2> QED
    BY <1>3, <2>1, NatSets
<1>5. Cardinality(S) \in Nat /\ S \in SUBSET S
  BY FS_CardinalityType
<1> QED
  BY <1>1, <1>2, <1>4, <1>5

LEMMA SumOfNone ==
  ASSUME NEW F
  PROVE  IsSum(0, F, {})
<1> DEFINE g == [T \in SUBSET {} |-> 0]
<1>1. g[{}] = 0 /\ \A T \in SUBSET {} : T = {} /\ g[T] \in Int
  OBVIOUS
<1> HIDE DEF g
<1>2. Sums({}, F, g)
  BY <1>1 DEF Sums
<1> QED
  BY <1>1, <1>2 DEF IsSum

LEMMA SumGrows ==
  ASSUME NEW S, IsFiniteSet(S), NEW i, i \notin S, NEW F \in [S \cup {i} -> Int],
         NEW G, \A l \in S : G[l] = F[l], NEW v, IsSum(v, G, S)
  PROVE  IsSum(v + F[i], F, S \cup {i})
<1> DEFINE T == S \cup {i}
<1>1. IsFiniteSet(T) /\ S \in SUBSET T /\ i \in T /\ T \ {i} = S /\ T \in SUBSET T
  BY FS_AddElement
<1>2. PICK g : g = Unrolled(T, F, g)
  BY <1>1, SumsExist DEF HasSums
<1> HIDE DEF T
<1>3. Sums(T, F, g)
  BY <1>1, <1>2, UnrolledIsSum DEF T
<1>4. Sums(S, F, g)
  BY <1>1, <1>3 DEF Sums
<1>5. IsSum(g[S], F, S)
  BY <1>4 DEF IsSum
<1>6. v = g[S]
  BY <1>5, SumIsUnique
<1>7. g[T] = F[i] + g[S] /\ g[S] \in Int
  BY <1>1, <1>3 DEF Sums
<1>8. F[i] \in Int
  BY <1>1 DEF T
<1>9. v + F[i] = g[T]
  BY <1>6, <1>7, <1>8
<1> QED
  BY <1>3, <1>9 DEF IsSum, T

LEMMA SumIsBounded ==
  ASSUME NEW S, IsFiniteSet(S), NEW F \in [S -> Int], NEW M \in Nat,
         \A i \in S : Dist(F[i], 0) <= M, NEW v, IsSum(v, F, S)
  PROVE  v \in Int /\ Dist(v, 0) <= Cardinality(S) * M
<1>1. PICK g : Sums(S, F, g) /\ v = g[S]
  BY DEF IsSum
<1> DEFINE Cs == {c \in Nat : \A T \in SUBSET S : Cardinality(T) = c => Dist(g[T], 0) <= c * M}
<1>2. ASSUME NEW c \in Nat, \A d \in Nat : d < c => d \in Cs PROVE c \in Cs
  <2> SUFFICES ASSUME NEW T \in SUBSET S, Cardinality(T) = c PROVE Dist(g[T], 0) <= c * M
    OBVIOUS
  <2>1. CASE T = {}
    <3>1. g[T] = 0 /\ c = 0
      BY <1>1, <2>1, FS_EmptySet DEF Sums
    <3> QED
      BY <3>1 DEF Dist
  <2>2. CASE T # {}
    <3>1. PICK i : i \in T
      BY <2>2
    <3> DEFINE U == T \ {i}
    <3>2. IsFiniteSet(T) /\ U \in SUBSET S /\ i \in S
      BY <3>1, FS_Subset
    <3>3. Cardinality(U) = c - 1 /\ c - 1 \in Nat /\ c - 1 < c
      <4>1. Cardinality(T \ {i}) = Cardinality(T) - 1 /\ Cardinality(T \ {i}) \in Nat
        BY <3>1, <3>2, Smaller
      <4> QED
        BY <4>1
    <3>4. Dist(g[U], 0) <= (c - 1) * M
      <4> HIDE DEF U
      <4>1. c - 1 \in Cs
        BY <1>2, <3>3
      <4> QED
        BY <3>2, <3>3, <4>1
    <3>5. g[T] = F[i] + g[U] /\ g[U] \in Int
      BY <1>1, <3>1, <3>2 DEF Sums
    <3>6. F[i] \in Int /\ Dist(F[i], 0) <= M
      BY <3>2
    <3> DEFINE cm == c * M
               fi == F[i]
               gu == g[U]
    <3>7. cm \in Int /\ (c - 1) * M = cm - M
      OBVIOUS
    <3> HIDE DEF U, cm, fi, gu
    <3>8. fi \in Int /\ gu \in Int /\ Dist(fi, 0) <= M /\ Dist(gu, 0) <= cm - M /\ g[T] = fi + gu
      BY <3>4, <3>5, <3>6, <3>7 DEF fi, gu
    <3>9. Dist(fi + gu, 0) <= cm
      BY <3>7, <3>8 DEF Dist
    <3> QED
      BY <3>8, <3>9 DEF cm
  <2> QED
    BY <2>1, <2>2
<1>3. Cs = Nat
  <2>1. Cs \in SUBSET Nat
    OBVIOUS
  <2> HIDE DEF Cs
  <2> QED
    BY <1>2, <2>1, NatSets
<1>4. Cardinality(S) \in Nat /\ S \in SUBSET S
  BY FS_CardinalityType
<1> QED
  BY <1>1, <1>3, <1>4 DEF Sums
------------------------------------------------------------------------------
(* What the arithmetic returns: floats whose only value of exponent 0 is a *)
(* zero and whose only NaN is the canonical one.                           *)
Clean(x) == x \in Float /\ (x.e = 0 => x.m = 0) /\ (is_nan(x) => x = QNaN)

LEMMA Constants ==
  /\ Clean(QNaN)
  /\ \A s \in {0, 1} : Clean(Inf(s)) /\ Clean(Zero(s))
<1>1. EMAX \in Nat /\ EMAX # 0 /\ 0 \in 0 .. EMAX /\ EMAX \in 0 .. EMAX /\ 0 \in 0 .. Hidden - 1
  BY Widths
<1>2. 2^(MB - 1) \in 0 .. Hidden - 1
  <2> DEFINE n == MB - 1
  <2>1. n \in Nat /\ n + 1 = MB
    BY WidthAssumption
  <2> HIDE DEF n
  <2>2. 2^n \in Nat \ {0} /\ 2^MB = 2 * 2^n
    BY <2>1, Powers
  <2> QED
    BY <2>2 DEF Hidden, n
<1> HIDE DEF EMAX, Hidden
<1>3. QNaN \in Float /\ QNaN.e # 0
  BY <1>1, <1>2 DEF QNaN, Float
<1>4. \A s \in {0, 1} : /\ Inf(s) \in Float /\ Inf(s).e # 0 /\ Inf(s).m = 0
                        /\ Zero(s) \in Float /\ Zero(s).e # EMAX /\ Zero(s).m = 0
  BY <1>1 DEF Inf, Zero, Float
<1> QED
  BY <1>3, <1>4 DEF Clean, is_nan

LEMMA PackIsClean ==
  ASSUME NEW s \in {0, 1}, NEW e \in Int, NEW m \in Nat, NEW u \in {0, 1}
  PROVE  Clean(Pack(s, e, m, u))
<1> DEFINE t == Bit(m + u, MB + 1)
           w == 2^t
           q == (m + u) \div w
           f == [s |-> s, e |-> e + t, m |-> q % Hidden]
<1>1. m + u \in Nat /\ MB + 1 \in Nat
  BY WidthAssumption
<1>2. t \in {0, 1} /\ q \in Nat
  <2>1. t \in {0, 1}
    BY <1>1, Bits
  <2> HIDE DEF t
  <2> QED
    BY <1>1, <2>1, Bits
<1>3. Pack(s, e, m, u) = IF e + t >= EMAX THEN Inf(s) ELSE IF e + t <= 0 THEN Zero(s) ELSE f
  BY DEF Pack
<1> HIDE DEF t, q
<1>4. q % Hidden \in 0 .. Hidden - 1
  BY <1>2, Widths
<1>5. CASE e + t >= EMAX \/ e + t <= 0
  BY <1>3, <1>5, Constants
<1>6. CASE ~(e + t >= EMAX) /\ ~(e + t <= 0)
  <2>1. e + t \in 0 .. EMAX /\ e + t # 0 /\ e + t # EMAX
    BY <1>2, <1>6, Widths
  <2>2. f \in Float /\ f.e # 0 /\ f.e # EMAX
    BY <1>4, <2>1 DEF Float
  <2> QED
    BY <1>3, <1>6, <2>2 DEF Clean, is_nan
<1> QED
  BY <1>5, <1>6

LEMMA RoundUpIs ==
  ASSUME NEW g, NEW below, NEW m
  PROVE  RoundUp(g, below, m) \in {0, 1}
BY DEF RoundUp, Flag

LEMMA SignIs ==
  ASSUME NEW x \in Float, NEW y \in Float
  PROVE  SignOf(x, y) \in {0, 1}
BY Fields DEF SignOf

LEMMA ProductIsClean ==
  ASSUME NEW x \in Float, NEW y \in Float
  PROVE  Clean(fp32_mul(x, y))
<1> DEFINE s    == SignOf(x, y)
           prod == Sig(x) * Sig(y)
           top  == Bit(prod, 2 * MB + 1)
           cut  == MB + top
           mant == prod \div 2^cut
           up   == RoundUp(Bit(prod, cut - 1), Low(prod, cut - 1) # 0, mant)
<1>1. s \in {0, 1} /\ up \in {0, 1}
  BY SignIs, RoundUpIs
<1>2. prod \in Nat
  <2>1. Sig(x) \in Nat /\ Sig(y) \in Nat
    BY Fields
  <2> QED
    BY <2>1
<1> HIDE DEF prod
<1>3. top \in {0, 1}
  <2>1. 2 * MB + 1 \in Nat
    BY WidthAssumption
  <2> QED
    BY <1>2, <2>1, Bits
<1> HIDE DEF top
<1>4. mant \in Nat
  <2>1. cut \in Nat
    BY <1>3, WidthAssumption
  <2> HIDE DEF cut
  <2> QED
    BY <1>2, <2>1, Bits
<1>5. x.e + y.e - BIAS + top \in Int
  BY <1>3, Fields, Widths
<1>6. fp32_mul(x, y) =
        IF is_nan(x) \/ is_nan(y) THEN QNaN
        ELSE IF is_inf(x) \/ is_inf(y) THEN IF is_zero(x) \/ is_zero(y) THEN QNaN ELSE Inf(s)
        ELSE IF is_zero(x) \/ is_zero(y) THEN Zero(s)
        ELSE Pack(s, x.e + y.e - BIAS + top, mant, up)
  BY DEF fp32_mul, top, prod
<1> HIDE DEF s, mant, up, cut
<1>7. Clean(Pack(s, x.e + y.e - BIAS + top, mant, up))
  BY <1>1, <1>4, <1>5, PackIsClean
<1> QED
  BY <1>1, <1>6, <1>7, Constants

LEMMA SumIsClean ==
  ASSUME NEW x \in Float, NEW y \in Float, Clean(x), Clean(y)
  PROVE  Clean(fp32_add(x, y))
<1>1. x.s \in {0, 1} /\ y.s \in {0, 1}
  BY Fields
<1>2. Clean(AddFinite(x, y))
  <2> DEFINE v == SumOf(x, y)
             n == Normalised(v)
             mant == n.mag \div 8
             up == RoundUp(Bit(n.mag, 2), Low(n.mag, 2) # 0, mant)
             s == SignOfSum(x, y)
             big == BigOf(x, y)
  <2>1. AddFinite(x, y) = IF v = 0 THEN Zero(0) ELSE Pack(s, big.e + n.up, mant, up)
    BY AddFiniteIs
  <2>2. v \in Nat /\ v < 32 * Hidden
    BY SumSticks
  <2>3. s \in {0, 1} /\ big.e \in Int
    BY Fields DEF SignOfSum, BigOf, SmallOf
  <2> HIDE DEF v, s, big
  <2>4. ASSUME v # 0 PROVE n.mag \in Nat /\ n.up \in Int
    <3>1. CASE Bit(v, MB + 4) = 1
      BY <2>2, <3>1 DEF Normalised
    <3>2. CASE Bit(v, MB + 4) # 1
      <4> DEFINE l == LeadingZeros(v)
      <4>1. v < 2^(MB + 4)
        <5> DEFINE w == 16 * Hidden
        <5>1. Bit(v, MB + 4) = (v \div w) % 2 /\ w \in Nat \ {0}
          BY MantissaPowers DEF Bit
        <5>2. v < 2 * w
          BY <2>2, MantissaPowers
        <5> HIDE DEF w
        <5> DEFINE r == v - w
                   one == 1
        <5>3. CASE v >= w
          <6>1. v = w * one + r /\ r \in 0 .. w - 1 /\ one \in Int /\ v \in Int
            BY <2>2, <5>1, <5>2, <5>3
          <6> HIDE DEF r, one
          <6>2. v \div w = one
            BY <5>1, <6>1, DivisionIsUnique
          <6> QED
            BY <3>2, <5>1, <6>2 DEF one
        <5>4. CASE ~(v >= w)
          BY <2>2, <5>1, <5>4, MantissaPowers DEF w
        <5> QED
          BY <5>3, <5>4
      <4>2. l \in Nat /\ v * 2^l \in Nat
        <5>1. l \in 0 .. MB + 3
          BY <2>2, <2>4, <4>1, LeadingZerosAre
        <5>2. l \in Nat
          BY <5>1, WidthAssumption
        <5> HIDE DEF l
        <5>3. 2^l \in Nat
          BY <5>2, Powers
        <5> QED
          BY <2>2, <5>2, <5>3
      <4>3. n = [mag |-> v * 2^l, up |-> 0 - l]
        BY <3>2 DEF Normalised
      <4> HIDE DEF l, n
      <4> QED
        BY <4>2, <4>3
    <3> QED
      BY <3>1, <3>2
  <2>5. up \in {0, 1}
    BY RoundUpIs
  <2>6. CASE v = 0
    BY <2>1, <2>6, Constants
  <2>7. CASE v # 0
    <3>1. mant \in Nat /\ big.e + n.up \in Int
      BY <2>3, <2>4, <2>7
    <3> HIDE DEF mant, up, n
    <3>2. Clean(Pack(s, big.e + n.up, mant, up))
      BY <2>3, <2>5, <3>1, PackIsClean
    <3> QED
      BY <2>1, <2>7, <3>2
  <2> QED
    BY <2>6, <2>7
<1>3. Flag(x.s = 1 /\ y.s = 1) \in {0, 1}
  BY DEF Flag
<1> QED
  BY <1>1, <1>2, <1>3, Constants DEF fp32_add

LEMMA BlockSumIsClean ==
  ASSUME NEW x \in Int, Searchable(Dist(x, 0))
  PROVE  Clean(fixed_to_fp32(x))
<1> DEFINE s   == Flag(x < 0)
           mag == Signed(s, x)
           p   == Log2(mag)
           cut == p - MB
           e   == p - ACC_FRAC + BIAS
           mant == mag \div 2^cut
           up   == RoundUp(Bit(mag, cut - 1), Low(mag, cut - 1) # 0, mant)
<1>1. CASE x = 0
  BY <1>1, Constants DEF fixed_to_fp32
<1>2. CASE x # 0
  <2>1. s \in {0, 1} /\ up \in {0, 1}
    BY RoundUpIs DEF Flag
  <2>2. mag \in Nat \ {0} /\ Word(mag)
    BY <1>2 DEF Flag, Signed, Dist, Searchable
  <2>3. fixed_to_fp32(x) = IF cut <= 0 THEN Pack(s, e, mag * 2^(0 - cut), 0) ELSE Pack(s, e, mant, up)
    BY <1>2 DEF fixed_to_fp32
  <2> HIDE DEF mag, s
  <2>4. p \in Nat
    BY <2>2, Log2Is
  <2> HIDE DEF p
  <2>5. e \in Int /\ cut \in Int
    BY <2>4, CodecAssumption, WidthAssumption, Widths
  <2> HIDE DEF cut, e
  <2>6. CASE cut <= 0
    <3> DEFINE d == 0 - cut
    <3>1. d \in Nat
      BY <2>5, <2>6
    <3> HIDE DEF d
    <3>2. 2^d \in Nat
      BY <3>1, Powers
    <3>3. mag * 2^d \in Nat
      BY <2>2, <3>2
    <3>4. Clean(Pack(s, e, mag * 2^d, 0))
      BY <2>1, <2>5, <3>3, PackIsClean
    <3> QED
      BY <2>3, <2>6, <3>4 DEF d
  <2>7. CASE ~(cut <= 0)
    <3>1. cut \in Nat
      BY <2>5, <2>7
    <3>2. mant \in Nat
      BY <2>2, <3>1, Bits
    <3> HIDE DEF mant, up
    <3>3. Clean(Pack(s, e, mant, up))
      BY <2>1, <2>5, <3>2, PackIsClean
    <3> QED
      BY <2>3, <2>7, <3>3
  <2> QED
    BY <2>6, <2>7
<1> QED
  BY <1>1, <1>2

LEMMA ScaledIsFloat ==
  ASSUME NEW x \in Float, NEW n \in Int
  PROVE  /\ fp32_scale_pow2(x, n) \in Float
         /\ ~is_nan(x) => ~is_nan(fp32_scale_pow2(x, n))
<1>1. x.e \in Int /\ x.s \in {0, 1} /\ x = [s |-> x.s, e |-> x.e, m |-> x.m] /\ x.m \in 0 .. Hidden - 1
  BY Fields
<1>2. CASE x.e = EMAX
  BY <1>2 DEF fp32_scale_pow2
<1>3. CASE x.e # EMAX /\ (x.e = 0 \/ x.e + n <= 0)
  BY <1>1, <1>3, Constants, Widths DEF fp32_scale_pow2, Clean, Zero, is_nan
<1>4. CASE x.e # EMAX /\ ~(x.e = 0 \/ x.e + n <= 0) /\ x.e + n >= EMAX
  BY <1>1, <1>4, Constants DEF fp32_scale_pow2, Clean, Inf, is_nan
<1>5. CASE x.e # EMAX /\ ~(x.e = 0 \/ x.e + n <= 0) /\ ~(x.e + n >= EMAX)
  <2> DEFINE e == x.e + n
  <2>1. fp32_scale_pow2(x, n) = [x EXCEPT !.e = e]
    BY <1>5 DEF fp32_scale_pow2
  <2>2. [x EXCEPT !.e = e] = [s |-> x.s, e |-> e, m |-> x.m]
    BY <1>1
  <2>3. e \in 0 .. EMAX /\ e # EMAX
    BY <1>1, <1>5, Widths
  <2> HIDE DEF e
  <2> QED
    BY <1>1, <2>1, <2>2, <2>3 DEF Float, is_nan
<1> QED
  BY <1>2, <1>3, <1>4, <1>5

(* The code of a word that is not a NaN is one of the numbers.             *)
LEMMA EncodedIsNumber ==
  ASSUME NEW x \in Float, ~is_nan(x)
  PROVE  fp32_to_fp8e4m3(x) \in Code /\ ~is_code_nan(fp32_to_fp8e4m3(x))
<1> DEFINE E == x.e - BIAS
           s == x.s
<1>1. E \in Int /\ s \in {0, 1} /\ x.m \in Nat /\ Sig(x) \in Nat /\ Sig(x) < 2 * Hidden
  BY Fields, Widths
<1>2. CodeMax(s) \in Code /\ ~is_code_nan(CodeMax(s)) /\ CodeZero(s) \in Code /\ ~is_code_nan(CodeZero(s))
  BY <1>1 DEF CodeMax, CodeZero, Code, is_code_nan
<1>3. fp32_to_fp8e4m3(x) =
        IF x.e = EMAX THEN CodeMax(s)
        ELSE IF x.e = 0 \/ E <= -11 THEN CodeZero(s)
        ELSE IF E >= -6 THEN EncodeNormal(s, E, x.m) ELSE EncodeSubnormal(s, E, Sig(x))
  BY DEF fp32_to_fp8e4m3, is_nan
<1> HIDE DEF E, s
<1>4. ASSUME E >= -6
      PROVE  EncodeNormal(s, E, x.m) \in Code /\ ~is_code_nan(EncodeNormal(s, E, x.m))
  <2> DEFINE cut == MB - 3
             h == x.m \div 2^cut
             r == h + RoundUp(Bit(x.m, cut - 1), Low(x.m, cut - 1) # 0, h)
             e == E + 7 + r \div 8
  <2>1. cut \in Nat
    BY CodecAssumption, WidthAssumption
  <2> HIDE DEF cut
  <2>2. h \in Nat
    BY <1>1, <2>1, Bits
  <2>3. r \in Nat
    <3>1. RoundUp(Bit(x.m, cut - 1), Low(x.m, cut - 1) # 0, h) \in {0, 1}
      BY RoundUpIs
    <3> QED
      BY <2>2, <3>1
  <2>4. EncodeNormal(s, E, x.m) =
          IF e > 15 \/ (e = 15 /\ r % 8 = 7) THEN CodeMax(s) ELSE [s |-> s, e |-> e, m |-> r % 8]
    BY DEF EncodeNormal, cut
  <2> HIDE DEF r
  <2>5. e \in Nat /\ r % 8 \in 0 .. 7
    BY <1>1, <1>4, <2>3
  <2> HIDE DEF e
  <2> DEFINE m == r % 8
  <2> HIDE DEF m
  <2>6. CASE e > 15 \/ (e = 15 /\ m = 7)
    BY <1>2, <2>4, <2>6 DEF m
  <2>7. CASE ~(e > 15 \/ (e = 15 /\ m = 7))
    <3>1. EncodeNormal(s, E, x.m) = [s |-> s, e |-> e, m |-> m]
      BY <2>4, <2>7 DEF m
    <3>2. e \in 0 .. 15 /\ m \in 0 .. 7
      BY <2>5, <2>7 DEF m
    <3> QED
      BY <1>1, <2>7, <3>1, <3>2 DEF Code, is_code_nan
  <2> QED
    BY <2>6, <2>7
<1>5. ASSUME E < -6, E > -11
      PROVE  EncodeSubnormal(s, E, Sig(x)) \in Code /\ ~is_code_nan(EncodeSubnormal(s, E, Sig(x)))
  <2> DEFINE cut == MB - 9 - E
             n == Sig(x)
             h == n \div 2^cut
             q == h + RoundUp(Bit(n, cut - 1), Low(n, cut - 1) # 0, h)
  <2>1. cut \in Nat /\ cut + 3 \in Nat /\ MB + 1 <= cut + 3 /\ MB + 1 \in Nat
    BY <1>1, <1>5, CodecAssumption, WidthAssumption
  <2> DEFINE three == 3
  <2>2. h \in Nat /\ h < 8
    <3>1. n < 2^(cut + three)
      <4>1. 2^(MB + 1) = 2 * Hidden /\ 2^(MB + 1) <= 2^(cut + 3) /\ 2^(cut + 3) \in Nat /\ Hidden \in Nat
        BY <2>1, PowerOrder, MantissaPowers, Powers
      <4> QED
        BY <1>1, <4>1
    <3>2. three \in Nat /\ n \in Nat /\ 2^three = 8
      BY <1>1, SmallPowers
    <3> HIDE DEF three, n, cut
    <3>3. n \div 2^cut \in Nat
      BY <2>1, <3>2, Bits
    <3>4. n \div 2^cut < 2^three
      BY <2>1, <3>1, <3>2, BelowPower
    <3> QED
      BY <3>2, <3>3, <3>4
  <2> HIDE DEF cut
  <2>3. q \in 0 .. 8
    <3>1. RoundUp(Bit(n, cut - 1), Low(n, cut - 1) # 0, h) \in {0, 1}
      BY RoundUpIs
    <3> QED
      BY <2>2, <3>1
  <2>4. EncodeSubnormal(s, E, n) = [s |-> s, e |-> q \div 8, m |-> q % 8]
    BY DEF EncodeSubnormal, cut
  <2> HIDE DEF q, n
  <2>5. q \div 8 \in 0 .. 1 /\ q % 8 \in 0 .. 7
    BY <2>3
  <2> DEFINE e == q \div 8
             m == q % 8
  <2>6. e \in 0 .. 15 /\ e # 15 /\ m \in 0 .. 7
    BY <2>5
  <2> HIDE DEF e, m
  <2>7. [s |-> s, e |-> e, m |-> m] \in Code /\ ~is_code_nan([s |-> s, e |-> e, m |-> m])
    BY <1>1, <2>6 DEF Code, is_code_nan
  <2> QED
    BY <2>4, <2>7 DEF e, m, n
<1> QED
  BY <1>1, <1>2, <1>3, <1>4, <1>5

(* The largest of them is 448, in units of 2^-9.                           *)
LEMMA NumberIsBounded ==
  ASSUME NEW c \in Code, ~is_code_nan(c)
  PROVE  /\ e4m3_to_signed_sig(c) \in Int
         /\ Dist(e4m3_to_signed_sig(c), 0) = CodeSig(c) * 2^CodePow(c)
         /\ CodeSig(c) * 2^CodePow(c) \in Nat
         /\ CodeSig(c) * 2^CodePow(c) <= 448 * 512
<1> DEFINE u == CodeSig(c) * 2^CodePow(c)
<1>1. c.s \in {0, 1} /\ c.e \in 0 .. 15 /\ c.m \in 0 .. 7
  BY DEF Code
<1>2. /\ CodeSig(c) \in Nat /\ CodeSig(c) <= 15 /\ CodePow(c) \in Nat /\ CodePow(c) <= 14
      /\ e4m3_to_signed_sig(c) = Signed(c.s, u)
  BY CodeParts
<1>3. /\ CodePow(c) = 14 => CodeSig(c) <= 14
  BY <1>1 DEF CodePow, CodeSig, is_code_nan
<1> DEFINE p == 2^CodePow(c)
<1>4. p \in Nat \ {0} /\ (CodePow(c) <= 13 => p <= 8192) /\ p <= 16384
  <2>1. 2^13 = 8192 /\ 2^14 = 16384
    OBVIOUS
  <2> DEFINE thirteen == 13
             fourteen == 14
             l == CodePow(c)
  <2>2. thirteen \in Nat /\ fourteen \in Nat /\ l \in Nat /\ l <= fourteen
    BY <1>2
  <2> HIDE DEF thirteen, fourteen, l
  <2>3. 2^l \in Nat \ {0} /\ 2^l <= 2^fourteen /\ (l <= thirteen => 2^l <= 2^thirteen)
    BY <2>2, PowerOrder, Powers
  <2> QED
    BY <2>1, <2>3 DEF thirteen, fourteen, l
<1> HIDE DEF p
<1>5. u \in Nat /\ u <= 448 * 512
  <2> DEFINE g == CodeSig(c)
  <2>1. g \in 0 .. 15
    BY CodeParts
  <2>2. u = g * p
    BY DEF p
  <2> HIDE DEF g
  <2>3. g * p <= g * 16384 /\ g * p \in Nat /\ (p <= 8192 => g * p <= g * 8192)
    <3>1. \A n \in Nat : p <= n => g * p <= g * n
      <4> SUFFICES ASSUME NEW n \in Nat, p <= n PROVE g * p <= g * n
        OBVIOUS
      <4> DEFINE d == n - p
      <4>1. d \in Nat /\ n = p + d
        BY <1>4
      <4> HIDE DEF d
      <4>2. g * n = g * p + g * d /\ g * d \in Nat /\ g * p \in Nat
        BY <1>4, <2>1, <4>1
      <4> QED
        BY <4>2
    <3> QED
      BY <1>4, <2>1, <3>1
  <2>4. CASE CodePow(c) = 14
    <3>1. g <= 14
      BY <1>3, <2>4 DEF g
    <3> QED
      BY <2>1, <2>2, <2>3, <3>1
  <2>5. CASE CodePow(c) # 14
    BY <1>2, <1>4, <2>1, <2>2, <2>3, <2>5
  <2> QED
    BY <2>4, <2>5
<1> HIDE DEF u
<1>6. Signed(c.s, u) \in Int /\ Dist(Signed(c.s, u), 0) = u
  BY <1>1, <1>5 DEF Signed, Dist
<1> QED
  BY <1>2, <1>5, <1>6 DEF u

(* The sign of a zero survives neither an addition nor a rounding.         *)
LEMMA FirstTerm ==
  ASSUME NEW x \in Float, Clean(x)
  PROVE  SameUpToZeroSign(fp32_add(Zero(0), x), x)
<1>1. /\ Zero(0).e = 0 /\ Zero(0).m = 0 /\ Zero(0).s = 0 /\ EMAX # 0
      /\ x = [s |-> x.s, e |-> x.e, m |-> x.m]
  BY Fields, Widths DEF Zero
<1>2. ~is_nan(Zero(0)) /\ ~is_inf(Zero(0)) /\ is_zero(Zero(0))
  BY <1>1 DEF is_nan, is_inf, is_zero
<1>3. fp32_add(Zero(0), x) = IF is_nan(x) THEN QNaN ELSE IF is_inf(x) THEN Inf(x.s)
                             ELSE IF is_zero(x) THEN Zero(Flag(Zero(0).s = 1 /\ x.s = 1)) ELSE x
  BY <1>2 DEF fp32_add
<1>4. CASE is_nan(x)
  BY <1>3, <1>4 DEF SameUpToZeroSign, Clean
<1>5. CASE ~is_nan(x) /\ is_inf(x)
  BY <1>1, <1>3, <1>5 DEF SameUpToZeroSign, is_inf, Inf
<1>6. CASE ~is_nan(x) /\ ~is_inf(x) /\ is_zero(x)
  BY <1>3, <1>6 DEF SameUpToZeroSign, is_zero, Clean, Zero
<1>7. CASE ~is_nan(x) /\ ~is_inf(x) /\ ~is_zero(x)
  BY <1>3, <1>7 DEF SameUpToZeroSign
<1> QED
  BY <1>4, <1>5, <1>6, <1>7

LEMMA AddKeepsSame ==
  ASSUME NEW x \in Float, NEW y \in Float, NEW z \in Float, SameUpToZeroSign(x, y)
  PROVE  SameUpToZeroSign(fp32_add(x, z), fp32_add(y, z))
<1>1. CASE x = y
  BY <1>1 DEF SameUpToZeroSign
<1>2. CASE x # y
  <2>1. x.e = 0 /\ y.e = 0 /\ EMAX # 0
    BY <1>2, Widths DEF SameUpToZeroSign
  <2>2. /\ ~is_nan(x) /\ ~is_inf(x) /\ is_zero(x)
        /\ ~is_nan(y) /\ ~is_inf(y) /\ is_zero(y)
    BY <2>1 DEF is_nan, is_inf, is_zero
  <2> DEFINE sum(w) == IF is_nan(z) THEN QNaN ELSE IF is_inf(z) THEN Inf(z.s)
                       ELSE IF is_zero(z) THEN Zero(Flag(w.s = 1 /\ z.s = 1)) ELSE z
  <2>3. fp32_add(x, z) = sum(x) /\ fp32_add(y, z) = sum(y)
    BY <2>2 DEF fp32_add
  <2>4. \A s, t : SameUpToZeroSign(Zero(s), Zero(t))
    BY DEF SameUpToZeroSign, Zero
  <2>5. sum(x) = sum(y) \/ \E s, t : sum(x) = Zero(s) /\ sum(y) = Zero(t)
    OBVIOUS
  <2> HIDE DEF sum
  <2> QED
    BY <2>3, <2>4, <2>5 DEF SameUpToZeroSign
<1> QED
  BY <1>1, <1>2

LEMMA NarrowKeepsSame ==
  ASSUME NEW x \in Float, NEW y \in Float, NEW n \in Int, SameUpToZeroSign(x, y)
  PROVE  SameUpToZeroSign(fp32_to_bf16(fp32_scale_pow2(x, n)), fp32_to_bf16(fp32_scale_pow2(y, n)))
<1>1. CASE x = y
  BY <1>1 DEF SameUpToZeroSign
<1>2. CASE x # y
  <2>1. x.e = 0 /\ y.e = 0 /\ EMAX # 0
    BY <1>2, Widths DEF SameUpToZeroSign
  <2>2. fp32_scale_pow2(x, n) = Zero(x.s) /\ fp32_scale_pow2(y, n) = Zero(y.s)
    BY <2>1 DEF fp32_scale_pow2
  <2>3. ASSUME NEW s PROVE fp32_to_bf16(Zero(s)).e = 0 /\ fp32_to_bf16(Zero(s)).m = 0
    <3> DEFINE D == MB - BM
               w == 2^D
               v == 2^BM
               up == RoundUp(Bit(0, D - 1), Low(0, D - 1) # 0, 0 \div w)
               sum == 0 * v + 0 \div w + up
    <3>1. D \in Nat /\ D - 1 \in Nat /\ BM \in Nat
      BY WidthAssumption
    <3>2. w \in Nat \ {0} /\ v \in Nat \ {0} /\ 2^(D - 1) \in Nat \ {0}
      <4> HIDE DEF D
      <4> QED
        BY <3>1, Powers
    <3>3. Zero(s).e = 0 /\ Zero(s).m = 0 /\ Zero(s).s = s
      BY DEF Zero
    <3>4. fp32_to_bf16(Zero(s)) = IF sum \div v = EMAX THEN [s |-> s, e |-> EMAX, m |-> 0]
                                  ELSE [s |-> s, e |-> sum \div v, m |-> Low(sum, BM)]
      BY <2>1, <3>3 DEF fp32_to_bf16
    <3>5. \A d \in Nat \ {0} : 0 \div d = 0 /\ 0 % d = 0
      <4> SUFFICES ASSUME NEW d \in Nat \ {0} PROVE 0 \div d = 0 /\ 0 % d = 0
        OBVIOUS
      <4> DEFINE nil == 0
      <4>1. nil \in Nat /\ nil < d
        OBVIOUS
      <4> HIDE DEF nil
      <4>2. nil \div d = 0 /\ nil % d = nil
        BY <4>1, Division
      <4> QED
        BY <4>2 DEF nil
    <3>6. Bit(0, D - 1) = 0
      <4> DEFINE h == 2^(D - 1)
      <4>1. 0 \div h = 0
        BY <3>2, <3>5
      <4> QED
        BY <4>1 DEF Bit
    <3>7. up = 0
      BY <3>6 DEF RoundUp, Flag
    <3>8. 0 \div w = 0 /\ 0 * v = 0
      BY <3>2, <3>5
    <3> HIDE DEF up
    <3>9. sum = 0
      BY <3>7, <3>8
    <3> HIDE DEF sum
    <3>10. sum \div v = 0 /\ Low(sum, BM) = 0
      BY <3>2, <3>5, <3>9 DEF Low
    <3> HIDE DEF v
    <3> QED
      BY <2>1, <3>4, <3>10
  <2> QED
    BY <2>2, <2>3 DEF SameUpToZeroSign
<1> QED
  BY <1>1, <1>2
------------------------------------------------------------------------------
(* Blocks of the contraction.                                              *)
InBlock(n, z) == {i \in 1 .. n : BlockOf(i) = z}

LEMMA BlockOfIs ==
  ASSUME NEW i \in Nat \ {0}
  PROVE  LET q == (i - 1) \div blk
         IN  /\ q \in Nat /\ BlockOf(i) = q + 1
             /\ blk * q <= i - 1 /\ i - 1 <= blk * q + blk - 1
<1> DEFINE l == i - 1
           q == l \div blk
           r == l % blk
<1>1. l \in Nat /\ blk \in Nat \ {0}
  BY BlockAssumption
<1>2. q \in Nat /\ r \in 0 .. blk - 1 /\ l = blk * q + r
  <2> HIDE DEF l
  <2> QED
    BY <1>1, Division
<1>3. BlockOf(i) = q + 1
  BY DEF BlockOf
<1> DEFINE v == blk * q
<1>4. v \in Nat
  BY <1>1, <1>2
<1> HIDE DEF q, r
<1>5. l = v + r /\ r \in Nat /\ r <= blk - 1
  BY <1>1, <1>2
<1> HIDE DEF v
<1>6. v <= l /\ l <= v + blk - 1
  BY <1>1, <1>4, <1>5
<1> QED
  BY <1>2, <1>3, <1>6 DEF v, q

LEMMA BlockOfIsBlock ==
  ASSUME NEW n \in Nat, NEW i \in 1 .. n
  PROVE  BlockOf(i) \in 1 .. (n + blk - 1) \div blk
<1> DEFINE q == (i - 1) \div blk
           m == n + blk - 1
           t == q + 1
           v == blk * q
<1>1. i \in Nat \ {0} /\ blk \in Nat \ {0} /\ m \in Nat
  BY BlockAssumption
<1>2. q \in Nat /\ BlockOf(i) = q + 1 /\ v <= i - 1
  BY <1>1, BlockOfIs
<1> HIDE DEF q
<1>3. blk * t = v + blk /\ v \in Nat /\ t \in Nat
  BY <1>1, <1>2
<1> HIDE DEF v
<1>4. blk * t <= m
  BY <1>1, <1>2, <1>3
<1> HIDE DEF t, m
<1>5. t <= m \div blk /\ m \div blk \in Nat
  BY <1>1, <1>3, <1>4, Quotients, Division
<1> QED
  BY <1>2, <1>5 DEF t, m

LEMMA BlockIsSmall ==
  ASSUME NEW n \in Nat, NEW z \in Nat \ {0}
  PROVE  IsFiniteSet(InBlock(n, z)) /\ Cardinality(InBlock(n, z)) <= blk /\ Cardinality(InBlock(n, z)) \in Nat
<1> DEFINE v == blk * (z - 1)
           low == v + 1
           high == v + blk
<1>1. blk \in Nat \ {0} /\ v \in Nat
  BY BlockAssumption
<1>2. ASSUME NEW i \in InBlock(n, z) PROVE i \in low .. high
  <2>1. i \in Nat \ {0} /\ BlockOf(i) = z
    BY DEF InBlock
  <2> DEFINE q == (i - 1) \div blk
  <2>2. q \in Nat /\ z = q + 1 /\ blk * q <= i - 1 /\ i - 1 <= blk * q + blk - 1
    BY <2>1, BlockOfIs
  <2> HIDE DEF q
  <2>3. q = z - 1
    BY <2>2
  <2>4. v <= i - 1 /\ i - 1 <= v + blk - 1
    BY <2>2, <2>3
  <2> HIDE DEF v
  <2> QED
    BY <1>1, <2>1, <2>4
<1> HIDE DEF v
<1>3. low \in Int /\ high \in Int /\ high - low + 1 = blk /\ low <= high
  BY <1>1
<1> HIDE DEF low, high
<1>4. IsFiniteSet(low .. high) /\ Cardinality(low .. high) = blk
  BY <1>3, FS_Interval
<1>5. InBlock(n, z) \subseteq low .. high
  BY <1>2
<1> QED
  BY <1>4, <1>5, FS_Subset, FS_CardinalityType
------------------------------------------------------------------------------
(* Block sums.                                                             *)
Numbers(q) == q \in Seq(Code) /\ \A i \in 1 .. Len(q) : ~is_code_nan(q[i])
Sigs(q) == [i \in DOMAIN q |-> e4m3_to_signed_sig(q[i])]
Dots(q, col, S) == [i \in S |-> e4m3_to_signed_sig(q[i]) * e4m3_to_signed_sig(col[i])]

LEMMA DotsAre ==
  ASSUME NEW q, Numbers(q), NEW col, Numbers(col), Len(col) = Len(q), NEW S \in SUBSET (1 .. Len(q))
  PROVE  /\ Dots(q, col, S) \in [S -> Int]
         /\ \A i \in 1 .. Len(q) : /\ e4m3_to_signed_sig(q[i]) \in Int /\ e4m3_to_signed_sig(col[i]) \in Int
                                   /\ q[i] \in Code /\ col[i] \in Code
                                   /\ ~is_code_nan(q[i]) /\ ~is_code_nan(col[i])
<1>1. ASSUME NEW i \in 1 .. Len(q)
      PROVE  /\ q[i] \in Code /\ col[i] \in Code
             /\ ~is_code_nan(q[i]) /\ ~is_code_nan(col[i])
  BY DEF Numbers
<1>2. ASSUME NEW i \in 1 .. Len(q)
      PROVE  e4m3_to_signed_sig(q[i]) \in Int /\ e4m3_to_signed_sig(col[i]) \in Int
  BY <1>1, NumberIsBounded
<1>3. \A i \in S : e4m3_to_signed_sig(q[i]) * e4m3_to_signed_sig(col[i]) \in Int
  <2> SUFFICES ASSUME NEW i \in S PROVE e4m3_to_signed_sig(q[i]) * e4m3_to_signed_sig(col[i]) \in Int
    OBVIOUS
  <2>1. e4m3_to_signed_sig(q[i]) \in Int /\ e4m3_to_signed_sig(col[i]) \in Int
    BY <1>2
  <2> QED
    BY <2>1
<1> QED
  BY <1>1, <1>2, <1>3 DEF Dots

LEMMA BlockSumIs ==
  ASSUME NEW q, Numbers(q), NEW col, Numbers(col), Len(col) = Len(q), NEW z \in Nat \ {0}
  PROVE  IsSum(BlockSum(Sigs(q), Sigs(col), z), Dots(q, col, InBlock(Len(q), z)), InBlock(Len(q), z))
<1> DEFINE S == InBlock(Len(q), z)
           F == Dots(q, col, S)
           av == Sigs(q)
           wv == Sigs(col)
           R == {i \in DOMAIN av : BlockOf(i) = z}
           Body(g) == [T \in SUBSET R |-> IF T = {} THEN 0
                         ELSE av[CHOOSE i \in T : TRUE] * wv[CHOOSE i \in T : TRUE] + g[T \ {CHOOSE i \in T : TRUE}]]
           h == CHOOSE g : g = Body(g)
<1>1. BlockSum(av, wv, z) = h[R]
  <2> HIDE DEF av, wv
  <2> QED
    BY DEF BlockSum, MapThenSumSet, MapThenFoldSet
<1>2. Len(q) \in Nat /\ DOMAIN q = 1 .. Len(q) /\ DOMAIN col = 1 .. Len(q)
  BY DEF Numbers
<1>3. R = S
  BY <1>2 DEF InBlock, Sigs
<1>4. F \in [S -> Int] /\ IsFiniteSet(S)
  BY <1>2, DotsAre, BlockIsSmall DEF InBlock
<1>5. \A i \in S : F[i] = av[i] * wv[i]
  BY <1>2 DEF Dots, Sigs, InBlock
<1> HIDE DEF F, av, wv, R, S
<1>6. \A g : Body(g) = Unrolled(S, F, g)
  <2> SUFFICES ASSUME NEW g PROVE Body(g) = Unrolled(S, F, g)
    OBVIOUS
  <2>1. \A T \in SUBSET S : T # {} => AnyOf(T) \in S
    BY DEF AnyOf
  <2>2. Body(g) = [T \in SUBSET S |-> IF T = {} THEN 0 ELSE av[AnyOf(T)] * wv[AnyOf(T)] + g[T \ {AnyOf(T)}]]
    BY <1>3 DEF AnyOf
  <2> QED
    BY <1>5, <2>1, <2>2 DEF Unrolled
<1>7. PICK g : g = Unrolled(S, F, g)
  BY <1>4, SumsExist DEF HasSums
<1>8. h = Unrolled(S, F, h)
  <2>1. g = Body(g)
    BY <1>6, <1>7
  <2> HIDE DEF Body
  <2>2. h = Body(h)
    BY <2>1
  <2> QED
    BY <1>6, <2>2
<1> HIDE DEF h
<1>9. Sums(S, F, h)
  BY <1>4, <1>8, UnrolledIsSum
<1> QED
  BY <1>1, <1>3, <1>9 DEF IsSum, F, S, av, wv

(* The same for the sum the accumulator is compared with.                  *)
DotSum(q, col, S) == MapThenSumSet(LAMBDA i : e4m3_to_signed_sig(q[i]) * e4m3_to_signed_sig(col[i]), S)

LEMMA DotSumIs ==
  ASSUME NEW q, Numbers(q), NEW col, Numbers(col), Len(col) = Len(q),
         NEW S \in SUBSET (1 .. Len(q)), IsFiniteSet(S)
  PROVE  IsSum(DotSum(q, col, S), Dots(q, col, S), S)
<1> DEFINE F == Dots(q, col, S)
           term(i) == e4m3_to_signed_sig(q[i]) * e4m3_to_signed_sig(col[i])
           Body(g) == [T \in SUBSET S |-> IF T = {} THEN 0
                         ELSE term(CHOOSE i \in T : TRUE) + g[T \ {CHOOSE i \in T : TRUE}]]
           h == CHOOSE g : g = Body(g)
<1>1. DotSum(q, col, S) = h[S]
  BY DEF DotSum, MapThenSumSet, MapThenFoldSet
<1>2. F \in [S -> Int] /\ \A i \in S : F[i] = term(i)
  BY DotsAre DEF Dots
<1> HIDE DEF F, term
<1>3. \A g : Body(g) = Unrolled(S, F, g)
  <2> SUFFICES ASSUME NEW g PROVE Body(g) = Unrolled(S, F, g)
    OBVIOUS
  <2>1. \A T \in SUBSET S : T # {} => AnyOf(T) \in S
    BY DEF AnyOf
  <2>2. Body(g) = [T \in SUBSET S |-> IF T = {} THEN 0 ELSE term(AnyOf(T)) + g[T \ {AnyOf(T)}]]
    BY DEF AnyOf
  <2> QED
    BY <1>2, <2>1, <2>2 DEF Unrolled
<1>4. PICK g : g = Unrolled(S, F, g)
  BY <1>2, SumsExist DEF HasSums
<1>5. h = Unrolled(S, F, h)
  <2>1. g = Body(g)
    BY <1>3, <1>4
  <2> HIDE DEF Body
  <2>2. h = Body(h)
    BY <2>1
  <2> QED
    BY <1>3, <2>2
<1> HIDE DEF h
<1>6. Sums(S, F, h)
  BY <1>2, <1>5, UnrolledIsSum
<1> QED
  BY <1>1, <1>6 DEF IsSum, F
------------------------------------------------------------------------------
(* The operands of a column, and the quantised row.                        *)
Row(row) == row \in Seq(BFloat) \ {<< >>} /\ \A i \in 1 .. Len(row) : Finite(row[i])
Fits(row, col, scales) ==
  /\ Row(row)
  /\ col \in Seq(Code) /\ Len(col) = Len(row)
  /\ \A i \in 1 .. Len(row) :
       /\ ~is_code_nan(col[i])
       /\ (blk * (448 * 512 * (CodeSig(col[i]) * 2^CodePow(col[i])))) \div 2^(2^HALVINGS - 2) <= 1
  /\ scales \in Seq(BFloat) /\ Len(scales) = Blocks(row)
Quantised(row, n) == [i \in DOMAIN row |-> fp32_to_fp8e4m3(fp32_scale_pow2(bf16_to_fp32(row[i]), n))]

LEMMA QuantisedIs ==
  ASSUME NEW row, Row(row), NEW n \in Int
  PROVE  /\ Numbers(Quantised(row, n)) /\ Len(Quantised(row, n)) = Len(row)
         /\ Len(row) \in Nat \ {0} /\ DOMAIN row = 1 .. Len(row) /\ DOMAIN Quantised(row, n) = 1 .. Len(row)
         /\ [i \in DOMAIN row |->
               e4m3_to_signed_sig(xp_fp32_to_fp8e4m3(xp_fp32_scale_pow2(bf16_to_fp32(row[i]), n)))]
              = Sigs(Quantised(row, n))
         /\ [i \in DOMAIN row |->
               SignedSig(fp32_to_fp8e4m3(fp32_scale_pow2(bf16_to_fp32(row[i]), n)))]
              = Sigs(Quantised(row, n))
<1> DEFINE word(i) == fp32_scale_pow2(bf16_to_fp32(row[i]), n)
           q == Quantised(row, n)
<1>1. DOMAIN row = 1 .. Len(row) /\ Len(row) \in Nat \ {0} /\ \A i \in 1 .. Len(row) : row[i] \in BFloat
  BY DEF Row
<1>2. ASSUME NEW i \in 1 .. Len(row)
      PROVE  /\ word(i) \in Float /\ ~is_nan(word(i))
             /\ xp_fp32_scale_pow2(bf16_to_fp32(row[i]), n) = word(i)
  <2>1. bf16_to_fp32(row[i]) \in Float /\ bf16_to_fp32(row[i]).e = row[i].e
    BY <1>1, Widened
  <2>2. ~is_nan(bf16_to_fp32(row[i]))
    BY <1>1, <2>1, BFields DEF Row, Finite, is_nan
  <2> QED
    BY <2>1, <2>2, ScaledIsFloat, ScaleIsGolden
<1> HIDE DEF word
<1>3. ASSUME NEW i \in 1 .. Len(row)
      PROVE  /\ fp32_to_fp8e4m3(word(i)) \in Code /\ ~is_code_nan(fp32_to_fp8e4m3(word(i)))
             /\ xp_fp32_to_fp8e4m3(word(i)) = fp32_to_fp8e4m3(word(i))
  BY <1>2, EncodedIsNumber, EncodeIsGolden
<1>4. q = [i \in 1 .. Len(row) |-> fp32_to_fp8e4m3(word(i))]
  BY <1>1 DEF Quantised, word
<1> HIDE DEF q
<1>5. q \in Seq(Code) /\ Len(q) = Len(row) /\ DOMAIN q = 1 .. Len(row)
      /\ \A i \in 1 .. Len(row) : q[i] = fp32_to_fp8e4m3(word(i))
  <2>1. q \in [1 .. Len(row) -> Code]
    BY <1>3, <1>4
  <2> QED
    BY <1>1, <1>4, <2>1
<1>6. Numbers(q)
  BY <1>3, <1>5 DEF Numbers
<1>7. ASSUME NEW i \in 1 .. Len(row)
      PROVE  e4m3_to_signed_sig(xp_fp32_to_fp8e4m3(xp_fp32_scale_pow2(bf16_to_fp32(row[i]), n)))
               = e4m3_to_signed_sig(q[i])
  BY <1>2, <1>3, <1>5
<1>8. ASSUME NEW i \in 1 .. Len(row)
      PROVE  SignedSig(fp32_to_fp8e4m3(fp32_scale_pow2(bf16_to_fp32(row[i]), n))) = e4m3_to_signed_sig(q[i])
  <2>1. q[i] \in Code
    BY <1>3, <1>5
  <2>2. SignedSig(q[i]) = e4m3_to_signed_sig(q[i])
    BY <2>1, CodeParts DEF SignedSig
  <2> QED
    BY <1>5, <2>2 DEF word
<1>9. Sigs(q) = [i \in 1 .. Len(row) |-> e4m3_to_signed_sig(q[i])]
  BY <1>5 DEF Sigs
<1> QED
  BY <1>1, <1>5, <1>6, <1>7, <1>8, <1>9 DEF q

LEMMA ColumnIs ==
  ASSUME NEW row, NEW col, NEW scales, Fits(row, col, scales)
  PROVE  /\ Numbers(col) /\ Len(col) = Len(row) /\ DOMAIN col = 1 .. Len(row)
         /\ [i \in DOMAIN col |-> SignedSig(col[i])] = Sigs(col)
         /\ Blocks(row) \in Nat \ {0}
         /\ \A l \in 1 .. Blocks(row) : scales[l] \in BFloat
<1>1. Numbers(col) /\ Len(col) = Len(row) /\ DOMAIN col = 1 .. Len(row) /\ \A i \in 1 .. Len(row) : col[i] \in Code
  BY DEF Fits, Numbers
<1>2. \A i \in 1 .. Len(row) : SignedSig(col[i]) = e4m3_to_signed_sig(col[i])
  BY <1>1, CodeParts DEF SignedSig
<1>3. Blocks(row) \in Nat \ {0}
  <2>1. Len(row) \in Nat /\ 1 \in 1 .. Len(row)
    BY DEF Fits, Row
  <2>2. BlockOf(1) \in 1 .. Blocks(row)
    BY <2>1, BlockOfIsBlock DEF Blocks
  <2>3. Blocks(row) \in Int
    <3> DEFINE m == Len(row) + blk - 1
    <3>1. m \in Nat /\ blk \in Nat \ {0}
      BY <2>1, BlockAssumption
    <3> HIDE DEF m
    <3>2. m \div blk \in Nat
      BY <3>1, Division
    <3> QED
      BY <3>2 DEF Blocks, m
  <2> QED
    BY <2>2, <2>3
<1>4. \A l \in 1 .. Blocks(row) : scales[l] \in BFloat
  BY DEF Fits
<1> QED
  BY <1>1, <1>2, <1>3, <1>4 DEF Sigs

(* No block sum reaches the end of the search for its top bit.             *)
LEMMA BlockSumFits ==
  ASSUME NEW row, NEW col, NEW scales, Fits(row, col, scales), NEW q, Numbers(q), Len(q) = Len(row),
         NEW z \in Nat \ {0}
  PROVE  LET v == BlockSum(Sigs(q), Sigs(col), z)
         IN  v \in Int /\ Searchable(Dist(v, 0))
<1> DEFINE v == BlockSum(Sigs(q), Sigs(col), z)
           S == InBlock(Len(q), z)
           F == Dots(q, col, S)
           c == Cardinality(S)
           W == 2^(2^HALVINGS - 2)
           top == 2 * W - 1
           M == top \div blk
<1>1. Numbers(col) /\ Len(col) = Len(q) /\ Len(q) \in Nat
  BY ColumnIs DEF Numbers
<1>2. IsSum(v, F, S)
  BY <1>1, BlockSumIs
<1>3. IsFiniteSet(S) /\ c \in Nat /\ c <= blk /\ F \in [S -> Int] /\ S \subseteq 1 .. Len(q)
  BY <1>1, BlockIsSmall, DotsAre DEF InBlock
<1>4. W \in Nat \ {0} /\ blk \in Nat \ {0}
  <2> DEFINE h == 2^HALVINGS
  <2>1. h \in Nat /\ h >= 2
    <3> DEFINE t == 1
    <3>1. t \in Nat /\ HALVINGS \in Nat /\ t <= HALVINGS
      BY SearchAssumption
    <3> HIDE DEF t
    <3>2. 2^t <= h /\ h \in Nat
      BY <3>1, PowerOrder, Powers
    <3> HIDE DEF h
    <3> QED
      BY <3>2, SmallPowers DEF t
  <2> DEFINE l == h - 2
  <2>2. l \in Nat
    BY <2>1
  <2> HIDE DEF l
  <2>3. 2^l \in Nat \ {0}
    BY <2>2, Powers
  <2> QED
    BY <2>3, BlockAssumption DEF l
<1> HIDE DEF W
<1>5. top \in Nat
  BY <1>4
<1> HIDE DEF top
<1>6. M \in Nat
  BY <1>4, <1>5, Division
<1>7. ASSUME NEW i \in S PROVE Dist(F[i], 0) <= M
  <2> DEFINE x == e4m3_to_signed_sig(q[i])
             y == e4m3_to_signed_sig(col[i])
             ux == CodeSig(q[i]) * 2^CodePow(q[i])
             uy == CodeSig(col[i]) * 2^CodePow(col[i])
             p == 448 * 512 * uy
             t == blk * p
             two == 2
  <2>1. i \in 1 .. Len(q) /\ i \in 1 .. Len(row)
    BY <1>3
  <2>2. q[i] \in Code /\ ~is_code_nan(q[i]) /\ col[i] \in Code /\ ~is_code_nan(col[i])
    BY <1>1, <1>3, <2>1, DotsAre
  <2>3. x \in Int /\ Dist(x, 0) = ux /\ ux \in Nat /\ ux <= 448 * 512
    BY <2>2, NumberIsBounded
  <2>4. y \in Int /\ Dist(y, 0) = uy /\ uy \in Nat
    BY <2>2, NumberIsBounded
  <2>5. F[i] = x * y
    BY DEF Dots
  <2>6. t \div W <= 1
    BY <2>1 DEF Fits, W
  <2> HIDE DEF x, y, ux, uy
  <2>7. p \in Nat /\ ux * uy <= p
    <3> DEFINE big == 448 * 512
               d == big - ux
    <3>1. d \in Nat /\ big = ux + d
      BY <2>3
    <3>2. p = big * uy
      OBVIOUS
    <3> HIDE DEF d, big
    <3>3. big * uy = ux * uy + d * uy /\ d * uy \in Nat /\ ux * uy \in Nat
      BY <2>3, <2>4, <3>1
    <3> QED
      BY <3>2, <3>3
  <2>8. Dist(F[i], 0) = ux * uy
    <3>1. (x = ux \/ x = 0 - ux) /\ (y = uy \/ y = 0 - uy)
      BY <2>3, <2>4 DEF Dist
    <3> DEFINE xy == ux * uy
    <3>2. xy \in Nat /\ (0 - ux) * uy = 0 - xy /\ ux * (0 - uy) = 0 - xy /\ (0 - ux) * (0 - uy) = xy
      BY <2>3, <2>4
    <3>3. F[i] = xy \/ F[i] = 0 - xy
      BY <2>5, <3>1, <3>2
    <3> HIDE DEF xy
    <3>4. Dist(F[i], 0) = xy
      BY <3>2, <3>3 DEF Dist
    <3> QED
      BY <3>4 DEF xy
  <2> HIDE DEF p
  <2>9. t \in Nat
    BY <1>4, <2>7
  <2>10. t <= top
    <3> HIDE DEF t, two
    <3>1. t \div W \in Nat /\ two \in Nat
      BY <1>4, <2>9, Division DEF two
    <3>2. t \div W < two
      BY <2>6, <3>1 DEF two
    <3>3. t < W * two
      BY <1>4, <2>9, <3>1, <3>2, Quotients
    <3> QED
      BY <1>4, <2>9, <3>3 DEF top, two
  <2>11. p <= M
    BY <1>4, <1>5, <2>7, <2>10, Quotients
  <2> HIDE DEF M
  <2> QED
    BY <1>6, <2>3, <2>4, <2>7, <2>8, <2>11
<1> HIDE DEF M, F, S, c
<1>8. v \in Int /\ Dist(v, 0) <= Cardinality(S) * M
  BY <1>2, <1>3, <1>6, <1>7, SumIsBounded
<1> HIDE DEF v
<1> DEFINE n == Dist(v, 0)
<1>9. n \in Nat /\ n <= c * M
  BY <1>8 DEF Dist, c
<1> HIDE DEF n
<1>10. c * M <= blk * M /\ blk * M <= top
  <2> DEFINE d == blk - c
  <2>1. d \in Nat /\ blk = c + d
    BY <1>3, <1>4
  <2> HIDE DEF d
  <2>2. blk * M = c * M + d * M /\ c * M \in Nat /\ d * M \in Nat
    BY <1>3, <1>6, <2>1
  <2>3. blk * M <= top
    BY <1>4, <1>5, <1>6, Quotients DEF M
  <2> QED
    BY <2>2, <2>3
<1>11. n <= top
  <2> DEFINE cm == c * M
             bm == blk * M
  <2>1. cm \in Nat /\ bm \in Nat
    BY <1>3, <1>4, <1>6
  <2>2. n <= cm /\ cm <= bm /\ bm <= top
    BY <1>9, <1>10
  <2> HIDE DEF cm, bm
  <2> QED
    BY <1>5, <1>9, <2>1, <2>2
<1>12. n \div W <= 1
  <2> DEFINE two == 2
  <2>1. n < W * two
    BY <1>4, <1>9, <1>11 DEF top
  <2>2. two \in Nat
    OBVIOUS
  <2> HIDE DEF two
  <2>3. n \div W < two /\ n \div W \in Nat
    BY <1>4, <1>9, <2>1, <2>2, Quotients, Division
  <2> QED
    BY <2>3 DEF two
<1>13. Searchable(n)
  BY <1>9, <1>12, SumsAreSearchable DEF W
<1> QED
  BY <1>8, <1>13 DEF n, v
------------------------------------------------------------------------------
(* The folds of a column's blocks: the golden's from +0, the array's from  *)
(* the first block.                                                        *)
Terms(q, col, scales, n) ==
  [z \in 1 .. n |-> fp32_mul(fixed_to_fp32(BlockSum(Sigs(q), Sigs(col), z)), bf16_to_fp32(scales[z]))]
Folded(f, n, t) == /\ f \in [0 .. n -> Float] /\ f[0] = Zero(0)
                   /\ \A z \in 1 .. n : f[z] = fp32_add(f[z - 1], t[z])
Narrowed(f, n) == fp32_to_bf16(fp32_scale_pow2(f, 0 - n))
IsColumn(v, row, col, scales, n) ==
  \E f : /\ Folded(f, Blocks(row), Terms(Quantised(row, n), col, scales, Blocks(row)))
         /\ v = Narrowed(f[Blocks(row)], n)

LEMMA TermsAre ==
  ASSUME NEW row, NEW col, NEW scales, Fits(row, col, scales), NEW n \in Int
  PROVE  \A z \in 1 .. Blocks(row) :
           LET t == Terms(Quantised(row, n), col, scales, Blocks(row))[z]
               v == BlockSum(Sigs(Quantised(row, n)), Sigs(col), z)
           IN  /\ t \in Float /\ Clean(t)
               /\ xp_fp32_mul(xp_fixed_to_fp32(v), bf16_to_fp32(scales[z])) = t
               /\ t = fp32_mul(fixed_to_fp32(v), bf16_to_fp32(scales[z]))
<1> SUFFICES ASSUME NEW z \in 1 .. Blocks(row)
             PROVE  LET t == Terms(Quantised(row, n), col, scales, Blocks(row))[z]
                        v == BlockSum(Sigs(Quantised(row, n)), Sigs(col), z)
                    IN  /\ t \in Float /\ Clean(t)
                        /\ xp_fp32_mul(xp_fixed_to_fp32(v), bf16_to_fp32(scales[z])) = t
                        /\ t = fp32_mul(fixed_to_fp32(v), bf16_to_fp32(scales[z]))
  OBVIOUS
<1> DEFINE q == Quantised(row, n)
           v == BlockSum(Sigs(q), Sigs(col), z)
           x == fixed_to_fp32(v)
           y == bf16_to_fp32(scales[z])
           t == Terms(q, col, scales, Blocks(row))[z]
<1>1. Numbers(q) /\ Len(q) = Len(row)
  BY QuantisedIs DEF Fits
<1>2. z \in Nat \ {0} /\ scales[z] \in BFloat
  BY ColumnIs
<1> HIDE DEF q
<1>3. v \in Int /\ Searchable(Dist(v, 0))
  BY <1>1, <1>2, BlockSumFits
<1>4. t = fp32_mul(x, y)
  BY DEF Terms
<1> HIDE DEF v, t
<1>5. x \in Float /\ xp_fixed_to_fp32(v) = x /\ y \in Float
  BY <1>2, <1>3, BlockSumIsClean, RoundIsGolden, Widened DEF Clean
<1> HIDE DEF x, y
<1>6. t \in Float /\ Clean(t) /\ xp_fp32_mul(x, y) = t
  BY <1>4, <1>5, ProductIsClean, MultiplyIsGolden DEF Clean
<1> QED
  BY <1>4, <1>5, <1>6 DEF t, v, q, x, y

(* The fold exists, is unique and stays clean.                             *)
HasFold(n, t) == \E f : Folded(f, n, t)

LEMMA FoldIs ==
  ASSUME NEW n \in Nat, NEW t, \A z \in 1 .. n : t[z] \in Float /\ Clean(t[z])
  PROVE  HasFold(n, t)
<1> DEFINE D == {x \in Float : Clean(x)}
           F == [z \in 1 .. n |-> [x \in D |-> fp32_add(x, t[z])]]
<1>1. Zero(0) \in D
  BY Constants DEF Clean
<1>2. F \in [1 .. n -> [D -> D]]
  <2>1. \A z \in 1 .. n : \A x \in D : fp32_add(x, t[z]) \in D
    BY SumIsClean DEF Clean
  <2> QED
    BY <2>1
<1>3. PICK f \in [0 .. n -> D] : f[0] = Zero(0) /\ \A z \in 1 .. n : f[z] = F[z][f[z - 1]]
  <2> HIDE DEF D, F
  <2>1. Iterates(n, D, Zero(0), F)
    BY <1>1, <1>2, Iteration
  <2> QED
    BY <2>1 DEF Iterates
<1>4. \A z \in 1 .. n : f[z] = fp32_add(f[z - 1], t[z])
  <2> SUFFICES ASSUME NEW z \in 1 .. n PROVE f[z] = fp32_add(f[z - 1], t[z])
    OBVIOUS
  <2>1. z - 1 \in 0 .. n
    OBVIOUS
  <2>2. f[z - 1] \in D
    BY <2>1
  <2> HIDE DEF D
  <2> QED
    BY <1>3, <2>2
<1>5. f \in [0 .. n -> Float]
  OBVIOUS
<1> QED
  BY <1>3, <1>4, <1>5 DEF HasFold, Folded

LEMMA FoldIsClean ==
  ASSUME NEW n \in Nat, NEW t, \A z \in 1 .. n : t[z] \in Float /\ Clean(t[z]),
         NEW f, Folded(f, n, t)
  PROVE  \A z \in 0 .. n : f[z] \in Float /\ Clean(f[z])
<1> DEFINE S == {z \in Nat : z <= n => f[z] \in Float /\ Clean(f[z])}
<1>1. ASSUME NEW z \in Nat, \A l \in Nat : l < z => l \in S PROVE z \in S
  <2>1. CASE z = 0
    BY <2>1, Constants DEF Folded, Clean
  <2>2. CASE z # 0 /\ z <= n
    <3>1. z - 1 \in Nat /\ z - 1 < z /\ z \in 1 .. n /\ z - 1 <= n
      BY <2>2
    <3>2. f[z - 1] \in Float /\ Clean(f[z - 1])
      BY <1>1, <3>1
    <3>3. f[z] = fp32_add(f[z - 1], t[z])
      BY <3>1 DEF Folded
    <3>4. f[z] \in Float /\ Clean(f[z])
      BY <3>1, <3>2, <3>3, SumIsClean DEF Clean
    <3> QED
      BY <3>4
  <2> QED
    BY <2>1, <2>2
<1>2. S = Nat
  <2>1. S \in SUBSET Nat
    OBVIOUS
  <2> HIDE DEF S
  <2> QED
    BY <1>1, <2>1, NatSets
<1> QED
  BY <1>2

LEMMA FoldIsUnique ==
  ASSUME NEW n \in Nat, NEW t, NEW f, Folded(f, n, t), NEW g,
         g[0] = Zero(0), NEW m \in Nat, m <= n, \A z \in 1 .. m : g[z] = fp32_add(g[z - 1], t[z])
  PROVE  g[m] = f[m]
<1> DEFINE S == {z \in Nat : z <= m => g[z] = f[z]}
<1>1. ASSUME NEW z \in Nat, \A l \in Nat : l < z => l \in S PROVE z \in S
  <2>1. CASE z = 0
    BY <2>1 DEF Folded
  <2>2. CASE z # 0 /\ z <= m
    <3>1. z - 1 \in Nat /\ z - 1 < z /\ z \in 1 .. n /\ z \in 1 .. m /\ z - 1 <= m
      BY <2>2
    <3>2. g[z - 1] = f[z - 1]
      BY <1>1, <3>1
    <3> QED
      BY <3>1, <3>2 DEF Folded
  <2> QED
    BY <2>1, <2>2
<1>2. S = Nat
  <2>1. S \in SUBSET Nat
    OBVIOUS
  <2> HIDE DEF S
  <2> QED
    BY <1>1, <2>1, NatSets
<1> QED
  BY <1>2

(* The scalar fallback returns the golden's fold.                          *)
LEMMA ScalarIsColumn ==
  ASSUME NEW row, NEW col, NEW scales, Fits(row, col, scales), NEW n \in Int
  PROVE  IsColumn(py_block_fp8_gemm(row, col, scales, n), row, col, scales, n)
<1> DEFINE av == [i \in DOMAIN row |->
                    SignedSig(fp32_to_fp8e4m3(fp32_scale_pow2(bf16_to_fp32(row[i]), n)))]
           wv == [i \in DOMAIN col |-> SignedSig(col[i])]
           q == Quantised(row, n)
           top == Blocks(row)
           t == Terms(q, col, scales, top)
           Body(f) == [z \in 0 .. top |->
                         IF z = 0 THEN Zero(0)
                         ELSE fp32_add(f[z - 1],
                                fp32_mul(fixed_to_fp32(BlockSum(av, wv, z)), bf16_to_fp32(scales[z])))]
           h == CHOOSE f : f = Body(f)
<1>1. py_block_fp8_gemm(row, col, scales, n) = Narrowed(h[top], n)
  BY DEF py_block_fp8_gemm, Narrowed
<1>2. av = Sigs(q) /\ wv = Sigs(col) /\ top \in Nat \ {0}
  BY QuantisedIs, ColumnIs DEF Fits
<1> HIDE DEF av, wv
<1>3. \A z \in 1 .. top : /\ t[z] \in Float /\ Clean(t[z])
                          /\ t[z] = fp32_mul(fixed_to_fp32(BlockSum(av, wv, z)), bf16_to_fp32(scales[z]))
  BY <1>2, TermsAre
<1> HIDE DEF t, q, top
<1>4. PICK g : Folded(g, top, t)
  BY <1>2, <1>3, FoldIs DEF HasFold
<1>5. g = Body(g)
  <2>1. \A z \in 0 .. top : g[z] = IF z = 0 THEN Zero(0)
                ELSE fp32_add(g[z - 1],
                       fp32_mul(fixed_to_fp32(BlockSum(av, wv, z)), bf16_to_fp32(scales[z])))
    BY <1>2, <1>3, <1>4 DEF Folded
  <2>2. g = [z \in 0 .. top |-> g[z]]
    BY <1>4 DEF Folded
  <2> QED
    BY <2>1, <2>2
<1>6. h = Body(h)
  <2> HIDE DEF Body
  <2> QED
    BY <1>5
<1> HIDE DEF h
<1>7. h[0] = Zero(0) /\ \A z \in 1 .. top : h[z] = fp32_add(h[z - 1], t[z])
  <2> DEFINE term(z) == fp32_mul(fixed_to_fp32(BlockSum(av, wv, z)), bf16_to_fp32(scales[z]))
  <2>1. \A z \in 0 .. top : Body(h)[z] = IF z = 0 THEN Zero(0) ELSE fp32_add(h[z - 1], term(z))
    OBVIOUS
  <2> HIDE DEF Body
  <2>2. \A z \in 0 .. top : h[z] = IF z = 0 THEN Zero(0) ELSE fp32_add(h[z - 1], term(z))
    BY <1>6, <2>1
  <2>3. \A z \in 1 .. top : term(z) = t[z]
    BY <1>3
  <2> HIDE DEF term
  <2> QED
    BY <1>2, <2>2, <2>3
<1> HIDE DEF Body
<1>8. h[top] = g[top]
  BY <1>2, <1>4, <1>7, FoldIsUnique
<1> QED
  BY <1>1, <1>4, <1>8 DEF IsColumn, t, q, top

(* The array backend returns it up to the sign of a zero.                  *)
LEMMA ArrayIsColumn ==
  ASSUME NEW row, NEW col, NEW scales, Fits(row, col, scales), NEW n \in Int,
         NEW v, IsColumn(v, row, col, scales, n)
  PROVE  SameUpToZeroSign(v, xp_block_fp8_gemm(row, col, scales, n))
<1> DEFINE av == [i \in DOMAIN row |->
                    e4m3_to_signed_sig(xp_fp32_to_fp8e4m3(xp_fp32_scale_pow2(bf16_to_fp32(row[i]), n)))]
           wv == [i \in DOMAIN col |-> e4m3_to_signed_sig(col[i])]
           q == Quantised(row, n)
           top == Blocks(row)
           t == Terms(q, col, scales, top)
           term(z) == xp_fp32_mul(xp_fixed_to_fp32(BlockSum(av, wv, z)), bf16_to_fp32(scales[z]))
           Body(f) == [z \in 1 .. top |-> IF z = 1 THEN term(1) ELSE xp_fp32_add(f[z - 1], term(z))]
           h == CHOOSE f : f = Body(f)
<1>1. xp_block_fp8_gemm(row, col, scales, n) = xp_fp32_to_bf16(xp_fp32_scale_pow2(h[top], 0 - n))
  BY DEF xp_block_fp8_gemm
<1>2. av = Sigs(q) /\ wv = Sigs(col) /\ top \in Nat \ {0}
  BY QuantisedIs, ColumnIs DEF Fits, Sigs
<1> HIDE DEF av, wv
<1>3. \A z \in 1 .. top : t[z] \in Float /\ Clean(t[z]) /\ term(z) = t[z]
  BY <1>2, TermsAre
<1>4. PICK f : Folded(f, top, t) /\ v = Narrowed(f[top], n)
  BY DEF IsColumn
<1> HIDE DEF t, q, top, term
<1>5. \A z \in 0 .. top : f[z] \in Float /\ Clean(f[z])
  BY <1>2, <1>3, <1>4, FoldIsClean
<1> DEFINE D == {x \in Float : Clean(x)}
           F == [z \in 1 .. top |-> [x \in D |-> IF z = 1 THEN t[z] ELSE fp32_add(x, t[z])]]
<1>6. PICK g \in [0 .. top -> D] : g[0] = Zero(0) /\ \A z \in 1 .. top : g[z] = F[z][g[z - 1]]
  <2>1. Zero(0) \in D
    BY Constants DEF Clean
  <2>2. F \in [1 .. top -> [D -> D]]
    <3>1. \A z \in 1 .. top : \A x \in D : t[z] \in D /\ fp32_add(x, t[z]) \in D
      BY <1>3, SumIsClean DEF Clean
    <3> QED
      BY <3>1
  <2> HIDE DEF D, F
  <2>3. Iterates(top, D, Zero(0), F)
    BY <1>2, <2>1, <2>2, Iteration
  <2> QED
    BY <2>3 DEF Iterates
<1>7. \A z \in 1 .. top : /\ g[z] \in Float /\ Clean(g[z])
                          /\ g[z] = IF z = 1 THEN t[z] ELSE fp32_add(g[z - 1], t[z])
  <2> SUFFICES ASSUME NEW z \in 1 .. top
               PROVE  /\ g[z] \in Float /\ Clean(g[z])
                      /\ g[z] = IF z = 1 THEN t[z] ELSE fp32_add(g[z - 1], t[z])
    OBVIOUS
  <2>1. z - 1 \in 0 .. top /\ z \in 0 .. top
    BY <1>2
  <2>2. g[z - 1] \in D /\ g[z] \in D
    BY <2>1
  <2>3. g[z] \in Float /\ Clean(g[z])
    BY <2>2
  <2> HIDE DEF D
  <2> QED
    BY <1>6, <2>2, <2>3
<1> HIDE DEF F, D
<1> DEFINE gg == [z \in 1 .. top |-> g[z]]
<1>8. gg = Body(gg)
  <2> SUFFICES ASSUME NEW z \in 1 .. top
               PROVE  g[z] = IF z = 1 THEN term(1) ELSE xp_fp32_add(gg[z - 1], term(z))
    OBVIOUS
  <2>1. CASE z = 1
    BY <1>3, <1>7, <2>1
  <2>2. CASE z # 1
    <3>1. z - 1 \in 1 .. top
      BY <1>2, <2>2
    <3>2. g[z] = fp32_add(g[z - 1], t[z]) /\ g[z - 1] \in Float /\ t[z] \in Float /\ gg[z - 1] = g[z - 1]
      BY <1>3, <1>7, <2>2, <3>1
    <3>3. xp_fp32_add(g[z - 1], t[z]) = fp32_add(g[z - 1], t[z])
      BY <3>2, AddIsGolden
    <3> QED
      BY <1>3, <2>2, <3>2, <3>3
  <2> QED
    BY <2>1, <2>2
<1>9. h = Body(h)
  <2> HIDE DEF Body, gg
  <2> QED
    BY <1>8
<1> HIDE DEF h, gg
<1>10. \A z \in 1 .. top : h[z] = IF z = 1 THEN t[1] ELSE xp_fp32_add(h[z - 1], t[z])
  <2>1. \A z \in 1 .. top : Body(h)[z] = IF z = 1 THEN term(1) ELSE xp_fp32_add(h[z - 1], term(z))
    OBVIOUS
  <2> HIDE DEF Body
  <2>2. \A z \in 1 .. top : h[z] = IF z = 1 THEN term(1) ELSE xp_fp32_add(h[z - 1], term(z))
    BY <1>9, <2>1
  <2> QED
    BY <1>2, <1>3, <2>2
<1> HIDE DEF Body
<1> DEFINE S == {z \in Nat : z \in 1 .. top => h[z] \in Float /\ SameUpToZeroSign(f[z], h[z])}
<1>11. ASSUME NEW z \in Nat, \A l \in Nat : l < z => l \in S PROVE z \in S
  <2> SUFFICES ASSUME z \in 1 .. top PROVE h[z] \in Float /\ SameUpToZeroSign(f[z], h[z])
    OBVIOUS
  <2>1. f[z] = fp32_add(f[z - 1], t[z]) /\ t[z] \in Float /\ Clean(t[z])
    BY <1>3, <1>4 DEF Folded
  <2>2. CASE z = 1
    <3>1. f[z] = fp32_add(Zero(0), t[z]) /\ h[z] = t[z]
      BY <1>4, <1>10, <2>1, <2>2 DEF Folded
    <3> QED
      BY <2>1, <3>1, FirstTerm
  <2>3. CASE z # 1
    <3>1. z - 1 \in Nat /\ z - 1 < z /\ z - 1 \in 1 .. top /\ z - 1 \in 0 .. top
      BY <1>2, <2>3
    <3>2. h[z - 1] \in Float /\ SameUpToZeroSign(f[z - 1], h[z - 1])
      BY <1>11, <3>1
    <3>3. h[z] = xp_fp32_add(h[z - 1], t[z])
      BY <1>10, <2>3
    <3>4. h[z] = fp32_add(h[z - 1], t[z])
      BY <2>1, <3>2, <3>3, AddIsGolden
    <3>5. f[z - 1] \in Float /\ f[z] \in Float /\ Clean(f[z - 1]) /\ Clean(f[z])
      BY <1>5, <3>1
    <3>6. SameUpToZeroSign(f[z], h[z])
      BY <2>1, <3>2, <3>4, <3>5, AddKeepsSame
    <3>7. Clean(h[z - 1])
      BY <3>2, <3>5 DEF SameUpToZeroSign, Clean, is_nan
    <3>8. h[z] \in Float
      BY <2>1, <3>2, <3>4, <3>7, SumIsClean DEF Clean
    <3> QED
      BY <3>6, <3>8
  <2> QED
    BY <2>2, <2>3
<1>12. S = Nat
  <2>1. S \in SUBSET Nat
    OBVIOUS
  <2> HIDE DEF S
  <2> QED
    BY <1>11, <2>1, NatSets
<1>13. h[top] \in Float /\ SameUpToZeroSign(f[top], h[top]) /\ f[top] \in Float
  <2>1. top \in Nat /\ top \in 1 .. top /\ top \in 0 .. top
    BY <1>2
  <2> QED
    BY <1>5, <1>12, <2>1
<1>14. xp_fp32_to_bf16(xp_fp32_scale_pow2(h[top], 0 - n)) = Narrowed(h[top], n)
  <2> DEFINE d == 0 - n
  <2>1. d \in Int
    OBVIOUS
  <2> HIDE DEF d
  <2>2. xp_fp32_scale_pow2(h[top], d) = fp32_scale_pow2(h[top], d) /\ fp32_scale_pow2(h[top], d) \in Float
    BY <1>13, <2>1, ScaleIsGolden, ScaledIsFloat
  <2>3. xp_fp32_to_bf16(fp32_scale_pow2(h[top], d)) = fp32_to_bf16(fp32_scale_pow2(h[top], d))
    BY <2>2, NarrowIsGolden
  <2> QED
    BY <2>2, <2>3 DEF Narrowed, d
<1>15. SameUpToZeroSign(Narrowed(f[top], n), Narrowed(h[top], n))
  <2> DEFINE d == 0 - n
  <2>1. d \in Int
    OBVIOUS
  <2> HIDE DEF d
  <2>2. SameUpToZeroSign(fp32_to_bf16(fp32_scale_pow2(f[top], d)), fp32_to_bf16(fp32_scale_pow2(h[top], d)))
    BY <1>13, <2>1, NarrowKeepsSame
  <2> QED
    BY <2>2 DEF Narrowed, d
<1> QED
  BY <1>1, <1>4, <1>14, <1>15
------------------------------------------------------------------------------
(* The array's maximum of the magnitudes is the golden's largest element.  *)
LEMMA MagnitudeOrder ==
  ASSUME NEW x \in BFloat, NEW y \in BFloat
  PROVE  /\ MagBits(x) \in Nat
         /\ MagBits(x) <= MagBits(y) <=> AtMost(x, y)
         /\ MagBits(x) = 0 <=> x.e = 0 /\ x.m = 0
<1> DEFINE w == 2^BM
<1>1. w \in Nat \ {0}
  BY Widths, WidthAssumption
<1>2. /\ x.e \in Nat /\ x.m \in 0 .. w - 1
      /\ y.e \in Nat /\ y.m \in 0 .. w - 1
  BY BFields
<1> HIDE DEF w
<1>3. MagBits(x) = x.e * w + x.m /\ MagBits(y) = y.e * w + y.m
  BY DEF MagBits, w
<1> DEFINE d == x.e - y.e
           xw == x.e * w
           yw == y.e * w
           dw == w * d
<1>4. d \in Int /\ xw \in Nat /\ yw \in Nat /\ dw \in Int /\ xw = yw + dw
  BY <1>1, <1>2
<1>5. (d >= 1 => dw >= w) /\ (d <= -1 => dw <= -w) /\ (d = 0 => dw = 0)
  BY <1>1, <1>4, Times
<1>6. (x.e < y.e <=> d <= -1) /\ (x.e = y.e <=> d = 0) /\ (x.e > y.e <=> d >= 1) /\ x.m \in Nat /\ y.m \in Nat
  BY <1>1, <1>2
<1>7. x.e = 0 => xw = 0
  BY <1>1
<1>8. x.e # 0 => xw >= w
  BY <1>1, <1>2, Times
<1> HIDE DEF d, xw, yw, dw
<1>9. MagBits(x) = xw + x.m /\ MagBits(y) = yw + y.m
  BY <1>3 DEF xw, yw
<1>10. MagBits(x) <= MagBits(y) <=> AtMost(x, y)
  BY <1>1, <1>2, <1>4, <1>5, <1>6, <1>9 DEF AtMost
<1>11. MagBits(x) \in Nat /\ (MagBits(x) = 0 <=> x.e = 0 /\ x.m = 0)
  BY <1>1, <1>2, <1>4, <1>6, <1>7, <1>8, <1>9
<1> QED
  BY <1>10, <1>11

LEMMA DeriveIsGolden ==
  ASSUME NEW row, Row(row)
  PROVE  xp_derive_a_shift(row) = derive_a_shift(row)
<1> DEFINE P(i) == \A l \in DOMAIN row : MagBits(row[l]) <= MagBits(row[i])
           amax == CHOOSE i \in DOMAIN row : P(i)
           big == row[amax]
<1>1. row \in Seq(BFloat) /\ Len(row) \in Nat \ {0} /\ DOMAIN row = 1 .. Len(row)
      /\ \A i \in 1 .. Len(row) : row[i] \in BFloat
  BY DEF Row
<1>2. PICK top : TopOfRow(row, top)
  BY <1>1, DeriveIs DEF HasTop
<1>3. /\ top \in BFloat /\ \A i \in DOMAIN row : MagBits(row[i]) <= MagBits(top)
      /\ top.e \in Nat /\ top.m \in Nat
  BY <1>1, <1>2, MagnitudeOrder, BFields DEF TopOfRow
<1>4. \E i \in DOMAIN row : P(i)
  <2>1. CASE \E i \in 1 .. Len(row) : top = row[i]
    BY <1>1, <1>3, <2>1
  <2>2. CASE top = BZero
    <3>1. MagBits(top) = 0
      BY <1>3, <2>2, MagnitudeOrder DEF BZero
    <3>2. \A i \in DOMAIN row : MagBits(row[i]) = 0
      BY <1>1, <1>3, <3>1, MagnitudeOrder
    <3> QED
      BY <1>1, <3>2
  <2> QED
    BY <1>2, <2>1, <2>2 DEF TopOfRow
<1>5. amax \in DOMAIN row /\ P(amax)
  BY <1>4
<1>6. xp_derive_a_shift(row) = IF MagBits(big) = 0 THEN 0 ELSE ShiftOf(big)
  BY DEF xp_derive_a_shift
<1> HIDE DEF amax
<1>7. big \in BFloat /\ MagBits(big) <= MagBits(top) /\ MagBits(big) \in Nat /\ MagBits(top) \in Nat
  BY <1>1, <1>3, <1>5, MagnitudeOrder
<1>8. MagBits(top) <= MagBits(big)
  <2>1. CASE \E i \in 1 .. Len(row) : top = row[i]
    BY <1>1, <1>5, <2>1
  <2>2. CASE top = BZero
    <3>1. MagBits(top) = 0
      BY <1>3, <2>2, MagnitudeOrder DEF BZero
    <3> QED
      BY <1>7, <3>1
  <2> QED
    BY <1>2, <2>1, <2>2 DEF TopOfRow
<1>9. AtMost(big, top) /\ AtMost(top, big)
  BY <1>3, <1>7, <1>8, MagnitudeOrder
<1>10. big.e = top.e /\ big.m = top.m
  <2>1. big.e \in Nat /\ big.m \in Nat
    BY <1>7, BFields
  <2> QED
    BY <1>3, <1>9, <2>1 DEF AtMost
<1>11. ShiftOf(big) = ShiftOf(top)
  BY <1>10 DEF ShiftOf
<1>12. MagBits(big) = 0 <=> top.e = 0 /\ top.m = 0
  BY <1>7, <1>10, MagnitudeOrder
<1> QED
  BY <1>2, <1>6, <1>11, <1>12 DEF TopOfRow
------------------------------------------------------------------------------
(* The state of the matrix product: what is accumulated, folded, finished. *)
ColOf(i) == tile.W[i]
ScalesOf(i) == tile.WS[BlockOf(i)]
GemmTypeInv ==
  /\ pc \in {"idle", "quantize", "mac", "fold", "done"}
  /\ pc # "idle" => tile \in Tile /\ ash \in Int
  /\ pc \in {"idle", "quantize"} => C = << >>
  /\ pc = "quantize" => /\ j = 1 /\ k = 1 /\ bj = 0 /\ total = Zero(0)
                        /\ acc = [z \in 1 .. Blocks(tile.A) |-> 0]
  /\ pc \in {"mac", "fold"} => j \in 1 .. Len(tile.W)
  /\ pc \in {"mac", "fold", "done"} => a_q = Quantised(tile.A, ash)
  /\ pc \in {"mac", "fold"} => acc \in [1 .. Blocks(tile.A) -> Int]
  /\ pc = "mac" => k \in 1 .. Len(tile.A) /\ bj = 0 /\ total = Zero(0)
  /\ pc = "fold" => bj \in 0 .. Blocks(tile.A)
Taken == IF pc = "mac" THEN k - 1 ELSE Len(tile.A)
AccInv == pc \in {"mac", "fold"} =>
  \A z \in 1 .. Blocks(tile.A) :
    IsSum(acc[z], Dots(a_q, ColOf(j), InBlock(Taken, z)), InBlock(Taken, z))
FoldInv == pc = "fold" =>
  \E f : /\ Folded(f, Blocks(tile.A), Terms(a_q, ColOf(j), ScalesOf(j), Blocks(tile.A)))
         /\ total = f[bj]
ColumnInv ==
  /\ C \in Seq({fp32_to_bf16(f) : f \in Float})
  /\ pc \in {"mac", "fold"} => Len(C) = j - 1
  /\ pc = "done" => Len(C) = Len(tile.W)
  /\ pc # "idle" => \A i \in 1 .. Len(C) : IsColumn(C[i], tile.A, ColOf(i), ScalesOf(i), ash)
GemmInv == GemmTypeInv /\ AccInv /\ FoldInv /\ ColumnInv

LEMMA TileFits ==
  ASSUME tile \in Tile
  PROVE  /\ Row(tile.A) /\ Len(tile.W) \in Nat \ {0}
         /\ \A i \in 1 .. Len(tile.W) : Fits(tile.A, ColOf(i), ScalesOf(i))
<1>1. Row(tile.A) /\ Len(tile.W) \in Nat \ {0}
  BY TileAssumption DEF Row
<1>2. ASSUME NEW i \in 1 .. Len(tile.W) PROVE Fits(tile.A, ColOf(i), ScalesOf(i))
  <2> DEFINE col == tile.W[i]
             scales == tile.WS[BlockOf(i)]
  <2>1. /\ col \in Seq(Code) /\ Len(col) = Len(tile.A)
        /\ \A l \in 1 .. Len(tile.A) :
             /\ ~is_code_nan(col[l])
             /\ (blk * (448 * 512 * (CodeSig(col[l]) * 2^CodePow(col[l])))) \div 2^(2^HALVINGS - 2) <= 1
        /\ scales \in Seq(BFloat) /\ Len(scales) = Blocks(tile.A)
    BY TileAssumption
  <2> HIDE DEF col, scales
  <2>2. Fits(tile.A, col, scales)
    BY <1>1, <2>1 DEF Fits
  <2> QED
    BY <2>2 DEF ColOf, ScalesOf, col, scales
<1> QED
  BY <1>1, <1>2

LEMMA ShiftIsInt ==
  ASSUME NEW row, Row(row)
  PROVE  derive_a_shift(row) \in Int
<1>1. PICK top : TopOfRow(row, top)
  BY DeriveIs DEF HasTop, Row
<1>2. top \in BFloat
  BY <1>1 DEF TopOfRow
<1>3. CASE top.e # 0
  <2>1. ShiftOf(top) \in Int
    BY <1>2, <1>3, ShiftOfNormal, BFields, Widths DEF Flag
  <2> QED
    BY <1>1, <2>1 DEF TopOfRow
<1>4. CASE top.e = 0 /\ top.m # 0
  <2> DEFINE p == Log2(top.m)
  <2>1. top.m \in Nat \ {0} /\ Word(top.m)
    <3>1. top.m \in Nat /\ top.m < 2^BM
      BY <1>2, BFields, Widths, WidthAssumption
    <3>2. 2^BM <= 2^(MB + 63) /\ 2^BM \in Nat /\ 2^(MB + 63) \in Nat
      <4> DEFINE n == MB + 63
      <4>1. BM \in Nat /\ n \in Nat /\ BM <= n
        BY WidthAssumption
      <4> HIDE DEF n
      <4>2. 2^BM <= 2^n /\ 2^BM \in Nat /\ 2^n \in Nat
        BY <4>1, PowerOrder, Powers
      <4> QED
        BY <4>2 DEF n
    <3> QED
      BY <1>4, <3>1, <3>2 DEF Word
  <2>2. p \in Nat
    BY <2>1, Log2Is
  <2>3. ShiftOf(top) = 8 - (p + (1 - BIAS - BM)) - Flag(4 * top.m > 7 * 2^p)
    BY <1>4 DEF ShiftOf, PowerInto448
  <2> HIDE DEF p
  <2>4. ShiftOf(top) \in Int
    BY <2>2, <2>3, WidthAssumption, Widths DEF Flag
  <2> QED
    BY <1>1, <2>4 DEF TopOfRow
<1>5. CASE top.e = 0 /\ top.m = 0
  BY <1>1, <1>5 DEF TopOfRow
<1> QED
  BY <1>3, <1>4, <1>5

LEMMA GemmInitInv ==
  ASSUME GemmInit \/ GemmIdle
  PROVE  GemmInv
<1>1. CASE GemmIdle
  <2>1. GemmTypeInv /\ AccInv /\ FoldInv
    BY <1>1 DEF GemmIdle, GemmTypeInv, AccInv, FoldInv
  <2>2. ColumnInv
    BY <1>1 DEF GemmIdle, ColumnInv
  <2> QED
    BY <2>1, <2>2 DEF GemmInv
<1>2. CASE GemmInit
  <2>1. tile \in Tile /\ ash \in Int
    <3>1. tile \in Tile /\ ash \in {derive_a_shift(tile.A)} \cup GivenShift
      BY <1>2 DEF GemmInit
    <3>2. derive_a_shift(tile.A) \in Int
      BY <3>1, TileFits, ShiftIsInt
    <3>3. GivenShift \subseteq Int
      BY TileAssumption
    <3> QED
      BY <3>1, <3>2, <3>3
  <2>2. GemmTypeInv /\ AccInv /\ FoldInv
    BY <1>2, <2>1 DEF GemmInit, GemmTypeInv, AccInv, FoldInv
  <2>3. ColumnInv
    BY <1>2 DEF GemmInit, ColumnInv
  <2> QED
    BY <2>2, <2>3 DEF GemmInv
<1> QED
  BY <1>1, <1>2

LEMMA NothingSummed ==
  ASSUME NEW q, NEW col, NEW z
  PROVE  IsSum(0, Dots(q, col, InBlock(0, z)), InBlock(0, z))
<1>1. InBlock(0, z) = {}
  BY DEF InBlock
<1> QED
  BY <1>1, SumOfNone

(* One more product goes to the block it is in, and to no other.           *)
LEMMA OneMore ==
  ASSUME NEW q, Numbers(q), NEW col, Numbers(col), Len(col) = Len(q),
         NEW n \in 1 .. Len(q), NEW z \in Nat \ {0}, NEW v \in Int,
         IsSum(v, Dots(q, col, InBlock(n - 1, z)), InBlock(n - 1, z))
  PROVE  LET p == e4m3_to_signed_sig(q[n]) * e4m3_to_signed_sig(col[n])
         IN  IsSum(IF BlockOf(n) = z THEN v + p ELSE v, Dots(q, col, InBlock(n, z)), InBlock(n, z))
<1> DEFINE S == InBlock(n - 1, z)
           T == InBlock(n, z)
           F == Dots(q, col, T)
           G == Dots(q, col, S)
           p == e4m3_to_signed_sig(q[n]) * e4m3_to_signed_sig(col[n])
<1>1. Len(q) \in Nat /\ n \in Nat \ {0} /\ n - 1 \in Nat
  BY DEF Numbers
<1>2. CASE BlockOf(n) = z
  <2>1. T = S \cup {n} /\ n \notin S /\ n \in T
    BY <1>1, <1>2 DEF InBlock
  <2>2. IsFiniteSet(S)
    BY <1>1, BlockIsSmall
  <2>3. F \in [T -> Int]
    BY <1>1, DotsAre DEF InBlock
  <2>4. F[n] = p /\ \A l \in S : G[l] = F[l]
    BY <2>1 DEF Dots
  <2> HIDE DEF F, G, S, T, p
  <2>5. F \in [S \cup {n} -> Int]
    BY <2>1, <2>3
  <2>6. IsSum(v, G, S)
    BY DEF G, S
  <2>7. IsSum(v + F[n], F, S \cup {n})
    BY <2>1, <2>2, <2>4, <2>5, <2>6, SumGrows
  <2>8. IsSum(v + p, F, T)
    BY <2>1, <2>4, <2>7
  <2> QED
    BY <1>2, <2>8 DEF F, T, p
<1>3. CASE BlockOf(n) # z
  <2>1. T = S
    BY <1>1, <1>3 DEF InBlock
  <2> QED
    BY <1>3, <2>1
<1> QED
  BY <1>2, <1>3

LEMMA QuantizeInv ==
  ASSUME GemmInv, Quantize
  PROVE  GemmInv'
<1>1. /\ pc = "quantize" /\ tile \in Tile /\ ash \in Int /\ j = 1 /\ k = 1 /\ bj = 0 /\ total = Zero(0)
      /\ acc = [z \in 1 .. Blocks(tile.A) |-> 0] /\ C = << >>
  BY DEF GemmInv, GemmTypeInv, Quantize
<1>2. /\ pc' = "mac" /\ a_q' = Quantised(tile.A, ash)
      /\ UNCHANGED << tile, ash, j, k, acc, bj, total, C >>
  BY DEF Quantize, Quantised
<1>3. Len(tile.W) \in Nat \ {0} /\ Len(tile.A) \in Nat \ {0}
  BY <1>1, TileFits DEF Row
<1>4. GemmTypeInv'
  BY <1>1, <1>2, <1>3 DEF GemmTypeInv
<1>5. AccInv'
  <2> SUFFICES ASSUME NEW z \in 1 .. Blocks(tile.A)
               PROVE  IsSum(acc'[z], Dots(a_q', ColOf(j)', InBlock(Taken', z)), InBlock(Taken', z))
    BY <1>2 DEF AccInv
  <2>1. acc'[z] = 0 /\ Taken' = 0
    BY <1>1, <1>2 DEF Taken
  <2> QED
    BY <2>1, NothingSummed
<1>6. FoldInv'
  BY <1>2 DEF FoldInv
<1>7. ColumnInv'
  <2>1. C' = << >> /\ j' = 1 /\ pc' = "mac"
    BY <1>1, <1>2
  <2> QED
    BY <2>1 DEF ColumnInv
<1> QED
  BY <1>4, <1>5, <1>6, <1>7 DEF GemmInv

LEMMA AccumulateInv ==
  ASSUME GemmInv, Accumulate
  PROVE  GemmInv'
<1> DEFINE row == tile.A
           top == Blocks(row)
           col == ColOf(j)
           p == e4m3_to_signed_sig(a_q[k]) * e4m3_to_signed_sig(col[k])
<1>1. /\ pc = "mac" /\ tile \in Tile /\ ash \in Int /\ j \in 1 .. Len(tile.W) /\ k \in 1 .. Len(row)
      /\ a_q = Quantised(row, ash) /\ acc \in [1 .. top -> Int] /\ bj = 0 /\ total = Zero(0)
      /\ ColumnInv /\ AccInv
  BY DEF GemmInv, GemmTypeInv, Accumulate
<1>2. Fits(row, col, ScalesOf(j)) /\ Row(row)
  BY <1>1, TileFits
<1>3. Numbers(a_q) /\ Len(a_q) = Len(row) /\ Len(row) \in Nat \ {0}
  BY <1>1, <1>2, QuantisedIs
<1>4. Numbers(col) /\ Len(col) = Len(row) /\ top \in Nat \ {0}
  BY <1>2, ColumnIs
<1>5. /\ acc' = [acc EXCEPT ![BlockOf(k)] = acc[BlockOf(k)] + fp32_to_fixed(fp8_mul(a_q[k], tile.W[j][k]))]
      /\ k' = k + 1 /\ pc' = IF k = Len(a_q) THEN "fold" ELSE "mac"
      /\ UNCHANGED << tile, ash, a_q, j, bj, total, C >>
  BY DEF Accumulate
<1>6. fp32_to_fixed(fp8_mul(a_q[k], tile.W[j][k])) = p /\ p \in Int
  <2>1. {} \in SUBSET (1 .. Len(a_q)) /\ k \in 1 .. Len(a_q) /\ Len(col) = Len(a_q)
    BY <1>1, <1>3, <1>4
  <2>2. /\ a_q[k] \in Code /\ ~is_code_nan(a_q[k]) /\ col[k] \in Code /\ ~is_code_nan(col[k])
        /\ e4m3_to_signed_sig(a_q[k]) \in Int /\ e4m3_to_signed_sig(col[k]) \in Int
    BY <1>3, <1>4, <2>1, DotsAre
  <2>3. p \in Int
    BY <2>2
  <2> QED
    BY <2>2, <2>3, MultiplyCodesIsGolden DEF ColOf
<1>7. BlockOf(k) \in 1 .. top
  BY <1>1, <1>3, BlockOfIsBlock DEF Blocks
<1> HIDE DEF p, top
<1>8. /\ acc' \in [1 .. top -> Int]
      /\ \A z \in 1 .. top : acc'[z] = IF BlockOf(k) = z THEN acc[z] + p ELSE acc[z]
  BY <1>1, <1>5, <1>6, <1>7
<1>9. Taken' = k
  <2>1. CASE k = Len(a_q)
    BY <1>3, <1>5, <2>1 DEF Taken
  <2>2. CASE k # Len(a_q)
    <3>1. pc' = "mac" /\ k' = k + 1 /\ k \in Int
      BY <1>1, <1>5, <2>2
    <3> QED
      BY <3>1 DEF Taken
  <2> QED
    BY <2>1, <2>2
<1>10. pc' \in {"mac", "fold"}
  BY <1>5
<1>11. GemmTypeInv'
  <2>1. top' = top
    BY <1>5 DEF top
  <2>2. pc' = "mac" => k' \in 1 .. Len(row)
    BY <1>1, <1>3, <1>5
  <2>3. 0 \in 0 .. top
    BY <1>4
  <2> QED
    BY <1>1, <1>5, <1>8, <1>10, <2>1, <2>2, <2>3 DEF GemmTypeInv, top
<1>12. ASSUME NEW z \in 1 .. top
       PROVE  IsSum(acc'[z], Dots(a_q, col, InBlock(k, z)), InBlock(k, z))
  <2>1. IsSum(acc[z], Dots(a_q, col, InBlock(k - 1, z)), InBlock(k - 1, z))
    BY <1>1 DEF AccInv, Taken, top
  <2>2. z \in Nat \ {0} /\ acc[z] \in Int /\ k \in 1 .. Len(a_q) /\ Len(col) = Len(a_q)
    BY <1>1, <1>3, <1>4
  <2> HIDE DEF col
  <2>3. IsSum(IF BlockOf(k) = z THEN acc[z] + p ELSE acc[z], Dots(a_q, col, InBlock(k, z)), InBlock(k, z))
    BY <1>3, <1>4, <2>1, <2>2, OneMore DEF p
  <2> QED
    BY <1>8, <2>3
<1>13. AccInv'
  <2>1. a_q' = a_q /\ ColOf(j)' = col /\ tile' = tile
    BY <1>5 DEF ColOf
  <2> QED
    BY <1>9, <1>10, <1>12, <2>1 DEF AccInv, top
<1>14. FoldInv'
  <2> DEFINE t == Terms(a_q, col, ScalesOf(j), top)
  <2>1. \A z \in 1 .. top : t[z] \in Float /\ Clean(t[z])
    BY <1>1, <1>2, TermsAre DEF top
  <2> HIDE DEF t
  <2>2. PICK f : Folded(f, top, t)
    BY <1>4, <2>1, FoldIs DEF HasFold
  <2>3. total' = f[bj']
    BY <1>1, <1>5, <2>2 DEF Folded
  <2>4. a_q' = a_q /\ ColOf(j)' = col /\ ScalesOf(j)' = ScalesOf(j) /\ tile' = tile
    BY <1>5 DEF ColOf, ScalesOf
  <2> QED
    BY <2>2, <2>3, <2>4 DEF FoldInv, t, top
<1>15. ColumnInv'
  <2>1. \A i : ColOf(i)' = ColOf(i) /\ ScalesOf(i)' = ScalesOf(i)
    BY <1>5 DEF ColOf, ScalesOf
  <2> QED
    BY <1>1, <1>5, <1>10, <2>1 DEF ColumnInv
<1> QED
  BY <1>11, <1>13, <1>14, <1>15 DEF GemmInv
------------------------------------------------------------------------------
(* What the accumulators hold when a column's products are all in.         *)
LEMMA ColumnSums ==
  ASSUME GemmInv, pc = "fold"
  PROVE  /\ Fits(tile.A, ColOf(j), ScalesOf(j)) /\ ash \in Int /\ a_q = Quantised(tile.A, ash)
         /\ Blocks(tile.A) \in Nat \ {0} /\ Len(acc) = Blocks(tile.A)
         /\ \A z \in 1 .. Blocks(tile.A) : acc[z] = BlockSum(Sigs(a_q), Sigs(ColOf(j)), z)
<1> DEFINE row == tile.A
           col == ColOf(j)
           top == Blocks(row)
<1>1. /\ tile \in Tile /\ ash \in Int /\ j \in 1 .. Len(tile.W) /\ a_q = Quantised(row, ash)
      /\ acc \in [1 .. top -> Int] /\ AccInv
  BY DEF GemmInv, GemmTypeInv
<1>2. Fits(row, col, ScalesOf(j)) /\ Row(row)
  BY <1>1, TileFits
<1>3. Numbers(a_q) /\ Len(a_q) = Len(row) /\ Len(row) \in Nat
  BY <1>1, <1>2, QuantisedIs
<1>4. Numbers(col) /\ Len(col) = Len(row) /\ top \in Nat \ {0}
  BY <1>2, ColumnIs
<1>5. ASSUME NEW z \in 1 .. top PROVE acc[z] = BlockSum(Sigs(a_q), Sigs(col), z)
  <2> DEFINE S == InBlock(Len(row), z)
             v == acc[z]
             w == BlockSum(Sigs(a_q), Sigs(col), z)
             F == Dots(a_q, col, S)
  <2>1. z \in Nat \ {0} /\ Taken = Len(row)
    BY <1>4 DEF Taken
  <2>2. IsSum(v, F, S)
    BY <1>1, <2>1 DEF AccInv
  <2>3. IsSum(w, F, S)
    BY <1>3, <1>4, <2>1, BlockSumIs
  <2>4. IsFiniteSet(S)
    BY <1>3, <2>1, BlockIsSmall
  <2> HIDE DEF v, w, F, S
  <2>5. v = w
    BY <2>2, <2>3, <2>4, SumIsUnique
  <2> QED
    BY <2>5 DEF v, w
<1>6. Len(acc) = top
  <2> HIDE DEF top
  <2>1. acc = [z \in 1 .. top |-> acc[z]]
    BY <1>1
  <2>2. acc \in Seq(Int) /\ DOMAIN acc = 1 .. top
    BY <1>1, <1>4, <2>1
  <2> QED
    BY <1>4, <2>2
<1> QED
  BY <1>1, <1>2, <1>4, <1>5, <1>6

LEMMA FoldStep ==
  ASSUME GemmInv, Fold
  PROVE  GemmInv'
<1> DEFINE row == tile.A
           col == ColOf(j)
           scales == ScalesOf(j)
           top == Blocks(row)
           t == Terms(a_q, col, scales, top)
           l == bj + 1
<1>1. pc = "fold" /\ GemmTypeInv /\ AccInv /\ FoldInv /\ ColumnInv /\ bj \in 0 .. top
  BY DEF GemmInv, GemmTypeInv, Fold
<1>2. /\ Fits(row, col, scales) /\ ash \in Int /\ a_q = Quantised(row, ash)
      /\ top \in Nat \ {0} /\ Len(acc) = top
      /\ \A z \in 1 .. top : acc[z] = BlockSum(Sigs(a_q), Sigs(col), z)
  BY <1>1, ColumnSums
<1>3. /\ bj < Len(acc) /\ bj' = bj + 1
      /\ total' = fp32_add(total, fp32_mul(fixed_to_fp32(acc[bj + 1]), bf16_to_fp32(scales[bj + 1])))
      /\ UNCHANGED << tile, ash, pc, a_q, j, k, acc, C >>
  BY DEF Fold, ScalesOf
<1>4. l \in 1 .. top /\ l - 1 = bj /\ bj' = l /\ l \in 0 .. top
  BY <1>1, <1>2, <1>3
<1>5. total' = fp32_add(total, t[l])
  <2>1. t[l] = fp32_mul(fixed_to_fp32(BlockSum(Sigs(a_q), Sigs(col), l)), bf16_to_fp32(scales[l]))
    BY <1>2, <1>4 DEF Terms
  <2>2. acc[l] = BlockSum(Sigs(a_q), Sigs(col), l)
    BY <1>2, <1>4
  <2>3. total' = fp32_add(total, fp32_mul(fixed_to_fp32(acc[l]), bf16_to_fp32(scales[l])))
    BY <1>3
  <2> QED
    BY <2>1, <2>2, <2>3
<1>6. PICK f : Folded(f, top, t) /\ total = f[bj]
  BY <1>1 DEF FoldInv
<1>7. total' = f[bj']
  <2> HIDE DEF t, l, top
  <2>1. f[l] = fp32_add(f[l - 1], t[l])
    BY <1>4, <1>6 DEF Folded
  <2> QED
    BY <1>4, <1>5, <1>6, <2>1
<1>8. \A i : ColOf(i)' = ColOf(i) /\ ScalesOf(i)' = ScalesOf(i)
  BY <1>3 DEF ColOf, ScalesOf
<1>9. ColOf(j)' = col /\ ScalesOf(j)' = scales /\ Taken' = Taken
  BY <1>3 DEF ColOf, ScalesOf, Taken
<1>10. GemmTypeInv'
  BY <1>1, <1>3, <1>4 DEF GemmTypeInv
<1>11. AccInv'
  BY <1>1, <1>3, <1>9 DEF AccInv
<1>12. FoldInv'
  BY <1>3, <1>6, <1>7, <1>9 DEF FoldInv
<1>13. ColumnInv'
  BY <1>1, <1>3, <1>8 DEF ColumnInv
<1> QED
  BY <1>10, <1>11, <1>12, <1>13 DEF GemmInv

LEMMA ColumnStep ==
  ASSUME GemmInv, Column
  PROVE  GemmInv'
<1> DEFINE row == tile.A
           col == ColOf(j)
           scales == ScalesOf(j)
           top == Blocks(row)
           t == Terms(a_q, col, scales, top)
           v == Narrowed(total, ash)
           W == {fp32_to_bf16(f) : f \in Float}
<1>1. /\ pc = "fold" /\ GemmTypeInv /\ FoldInv /\ ColumnInv /\ bj \in 0 .. top
      /\ tile \in Tile /\ j \in 1 .. Len(tile.W) /\ acc \in [1 .. top -> Int]
  BY DEF GemmInv, GemmTypeInv, Column
<1>2. /\ Fits(row, col, scales) /\ ash \in Int /\ a_q = Quantised(row, ash)
      /\ top \in Nat \ {0} /\ Len(acc) = top
  BY <1>1, ColumnSums
<1>3. /\ bj = Len(acc) /\ C' = Append(C, v) /\ j' = j + 1 /\ k' = 1 /\ bj' = 0
      /\ acc' = [z \in DOMAIN acc |-> 0] /\ total' = Zero(0)
      /\ pc' = IF j = Len(tile.W) THEN "done" ELSE "mac"
      /\ UNCHANGED << tile, ash, a_q >>
  BY DEF Column, Narrowed
<1>4. PICK f : Folded(f, top, t) /\ total = f[top]
  BY <1>1, <1>2, <1>3 DEF FoldInv
<1>5. IsColumn(v, row, col, scales, ash)
  BY <1>2, <1>4 DEF IsColumn
<1>6. v \in W
  <2>1. fp32_scale_pow2(total, 0 - ash) \in Float
    <3> DEFINE d == 0 - ash
    <3>1. d \in Int
      BY <1>2
    <3>2. total \in Float
      <4> HIDE DEF t, top
      <4>1. top \in 0 .. top
        BY <1>2
      <4> QED
        BY <1>4, <4>1 DEF Folded
    <3> HIDE DEF d
    <3>3. fp32_scale_pow2(total, d) \in Float
      BY <3>1, <3>2, ScaledIsFloat
    <3> QED
      BY <3>3 DEF d
  <2> QED
    BY <2>1 DEF Narrowed
<1> HIDE DEF v, W
<1>7. /\ C \in Seq(W) /\ Len(C) = j - 1 /\ Len(tile.W) \in Nat \ {0}
      /\ \A i \in 1 .. Len(C) : IsColumn(C[i], row, ColOf(i), ScalesOf(i), ash)
  BY <1>1, TileFits DEF ColumnInv, W
<1>8. C' \in Seq(W) /\ Len(C') = j /\ C'[j] = v /\ \A i \in 1 .. Len(C) : C'[i] = C[i]
  BY <1>1, <1>3, <1>6, <1>7
<1>9. acc' = [z \in 1 .. top |-> 0] /\ pc' \in {"mac", "done"} /\ (pc' = "mac" => j' \in 1 .. Len(tile.W))
  BY <1>1, <1>3, <1>7
<1>10. GemmTypeInv'
  <2>1. Len(row) \in Nat \ {0}
    BY <1>1, TileFits DEF Row
  <2>2. 1 \in 1 .. Len(row) /\ acc' \in [1 .. top -> Int]
    BY <1>9, <2>1
  <2> QED
    BY <1>1, <1>2, <1>3, <1>9, <2>2 DEF GemmTypeInv
<1>11. AccInv'
  <2> SUFFICES ASSUME pc' = "mac", NEW z \in 1 .. top
               PROVE  IsSum(acc'[z], Dots(a_q', ColOf(j)', InBlock(Taken', z)), InBlock(Taken', z))
    BY <1>3, <1>9 DEF AccInv
  <2>1. acc'[z] = 0
    BY <1>9
  <2>2. Taken' = 0
    BY <1>3 DEF Taken
  <2> QED
    BY <2>1, <2>2, NothingSummed
<1>12. FoldInv'
  BY <1>9 DEF FoldInv
<1>13. ColumnInv'
  <2>1. \A i : ColOf(i)' = ColOf(i) /\ ScalesOf(i)' = ScalesOf(i)
    BY <1>3 DEF ColOf, ScalesOf
  <2>2. ASSUME NEW i \in 1 .. Len(C') PROVE IsColumn(C'[i], row, ColOf(i), ScalesOf(i), ash)
    <3>1. CASE i = j
      BY <1>5, <1>8, <3>1
    <3>2. CASE i # j
      <4>1. i \in 1 .. Len(C)
        BY <1>1, <1>7, <1>8, <3>2
      <4> QED
        BY <1>7, <1>8, <4>1
    <3> QED
      BY <3>1, <3>2
  <2>3. pc' = "mac" => Len(C') = j' - 1
    BY <1>1, <1>3, <1>8
  <2>4. pc' = "done" => Len(C') = Len(tile'.W)
    BY <1>3, <1>8
  <2> QED
    BY <1>3, <1>8, <1>9, <2>1, <2>2, <2>3, <2>4 DEF ColumnInv, W
<1> QED
  BY <1>10, <1>11, <1>12, <1>13 DEF GemmInv

LEMMA GemmStepInv ==
  ASSUME GemmInv, GemmNext \/ UNCHANGED gemmVars
  PROVE  GemmInv'
<1>1. CASE UNCHANGED gemmVars
  <2>1. UNCHANGED << tile, ash, pc, a_q, j, k, acc, bj, total, C >>
    BY <1>1 DEF gemmVars
  <2>2. \A i : ColOf(i)' = ColOf(i) /\ ScalesOf(i)' = ScalesOf(i)
    BY <2>1 DEF ColOf, ScalesOf
  <2>3. ColOf(j)' = ColOf(j) /\ ScalesOf(j)' = ScalesOf(j) /\ Taken' = Taken
    BY <2>1 DEF ColOf, ScalesOf, Taken
  <2>4. GemmTypeInv'
    BY <2>1 DEF GemmInv, GemmTypeInv
  <2>5. AccInv'
    BY <2>1, <2>3 DEF GemmInv, AccInv
  <2>6. FoldInv'
    BY <2>1, <2>3 DEF GemmInv, FoldInv
  <2>7. ColumnInv'
    BY <2>1, <2>2 DEF GemmInv, ColumnInv
  <2> QED
    BY <2>4, <2>5, <2>6, <2>7 DEF GemmInv
<1> QED
  BY <1>1, QuantizeInv, AccumulateInv, FoldStep, ColumnStep DEF GemmNext

LEMMA GemmInvIsInvariant == NumericsSpec => []GemmInv
<1>1. NumericsInit => GemmInv
  BY GemmInitInv DEF NumericsInit
<1>2. GemmInv /\ [NumericsNext]_<<opsVars, gemmVars>> => GemmInv'
  <2>1. [NumericsNext]_<<opsVars, gemmVars>> => GemmNext \/ UNCHANGED gemmVars
    BY DEF NumericsNext
  <2> QED
    BY <2>1, GemmStepInv
<1> QED
  BY <1>1, <1>2, PTL DEF NumericsSpec

LEMMA ExactOnTheWay ==
  ASSUME GemmInv
  PROVE  AccIsExact
<1> SUFFICES ASSUME pc = "mac", NEW z \in DOMAIN acc
             PROVE  acc[z] = DotSum(a_q, tile.W[j], {i \in 1 .. k - 1 : BlockOf(i) = z})
  BY DEF AccIsExact, DotSum
<1> DEFINE row == tile.A
           col == tile.W[j]
           S == InBlock(k - 1, z)
           F == Dots(a_q, col, S)
           v == acc[z]
           w == DotSum(a_q, col, S)
<1>1. /\ tile \in Tile /\ ash \in Int /\ j \in 1 .. Len(tile.W) /\ k \in 1 .. Len(row)
      /\ a_q = Quantised(row, ash) /\ z \in 1 .. Blocks(row) /\ AccInv
  BY DEF GemmInv, GemmTypeInv
<1>2. Fits(row, col, ScalesOf(j)) /\ Row(row)
  BY <1>1, TileFits DEF ColOf
<1>3. Numbers(a_q) /\ Len(a_q) = Len(row) /\ Len(row) \in Nat
  BY <1>1, <1>2, QuantisedIs
<1>4. Numbers(col) /\ Len(col) = Len(row) /\ z \in Nat \ {0}
  BY <1>1, <1>2, ColumnIs
<1>5. k - 1 \in Nat /\ S \in SUBSET (1 .. Len(a_q)) /\ IsFiniteSet(S)
  <2>1. k - 1 \in Nat /\ k - 1 <= Len(a_q)
    BY <1>1, <1>3
  <2>2. IsFiniteSet(S)
    BY <1>4, <2>1, BlockIsSmall
  <2> QED
    BY <1>3, <2>1, <2>2 DEF InBlock
<1>6. IsSum(v, F, S)
  BY <1>1 DEF AccInv, Taken, ColOf
<1>7. IsSum(w, F, S)
  BY <1>3, <1>4, <1>5, DotSumIs
<1> HIDE DEF v, w, F, S
<1>8. v = w
  BY <1>5, <1>6, <1>7, SumIsUnique
<1> QED
  BY <1>8 DEF v, w, S, InBlock

LEMMA SameColumn ==
  ASSUME NEW row, NEW col, NEW scales, Fits(row, col, scales), NEW n \in Int,
         NEW v, IsColumn(v, row, col, scales, n), NEW w, IsColumn(w, row, col, scales, n)
  PROVE  v = w
<1> DEFINE top == Blocks(row)
           t == Terms(Quantised(row, n), col, scales, top)
<1>1. top \in Nat
  BY ColumnIs
<1>2. PICK f : Folded(f, top, t) /\ v = Narrowed(f[top], n)
  BY DEF IsColumn
<1>3. PICK g : Folded(g, top, t) /\ w = Narrowed(g[top], n)
  BY DEF IsColumn
<1> HIDE DEF t, top
<1>4. g[0] = Zero(0) /\ \A z \in 1 .. top : g[z] = fp32_add(g[z - 1], t[z])
  BY <1>3 DEF Folded
<1>5. g[top] = f[top]
  BY <1>1, <1>2, <1>4, FoldIsUnique
<1> QED
  BY <1>2, <1>3, <1>5

(* The block-scaled product: on the way every accumulator holds the exact  *)
(* dot product of the significands seen so far; every finished column is   *)
(* the word the contract's scalar fallback returns and, up to the sign of  *)
(* a zero, the word of its array backend, which sums a block at once and   *)
(* folds from the first block; and both derive one scale: for every width, *)
(* block size, row, weight and scale within the assumptions, and every     *)
(* number of columns.                                                      *)
THEOREM AlwaysContractIsGolden == NumericsSpec => []ContractIsGolden
<1>1. GemmInv => ContractIsGolden
  <2> SUFFICES ASSUME GemmInv PROVE ContractIsGolden
    OBVIOUS
  <2>1. AccIsExact
    BY ExactOnTheWay
  <2>2. ASSUME NEW c \in DOMAIN C
        PROVE  /\ C[c] = Contract(c, {})
               /\ SameUpToZeroSign(C[c], Contract(c, {"numpy"}))
               /\ xp_derive_a_shift(tile.A) = derive_a_shift(tile.A)
    <3> DEFINE row == tile.A
               col == ColOf(c)
               scales == ScalesOf(c)
    <3>1. GemmTypeInv /\ ColumnInv /\ c \in 1 .. Len(C) /\ C # << >>
      <4>1. C \in Seq({fp32_to_bf16(f) : f \in Float}) /\ GemmTypeInv /\ ColumnInv
        BY DEF GemmInv, ColumnInv
      <4> QED
        BY <4>1
    <3>2. /\ pc \in {"mac", "fold", "done"} /\ tile \in Tile /\ ash \in Int /\ c \in 1 .. Len(tile.W)
      <4>1. pc \in {"mac", "fold", "done"} /\ tile \in Tile /\ ash \in Int
        BY <3>1 DEF GemmTypeInv
      <4>2. Len(tile.W) \in Nat /\ (pc # "done" => j \in 1 .. Len(tile.W) /\ Len(C) = j - 1)
            /\ (pc = "done" => Len(C) = Len(tile.W))
        BY <3>1, <4>1, TileFits DEF GemmTypeInv, ColumnInv
      <4> QED
        BY <3>1, <4>1, <4>2
    <3>3. Fits(row, col, scales) /\ Row(row)
      BY <3>2, TileFits
    <3>4. IsColumn(C[c], row, col, scales, ash)
      BY <3>1, <3>2 DEF ColumnInv
    <3>5. Contract(c, {}) = py_block_fp8_gemm(row, col, scales, ash)
      BY DEF Contract, contract_block_fp8_gemm, pick_backend, ColOf, ScalesOf
    <3>6. Contract(c, {"numpy"}) = xp_block_fp8_gemm(row, col, scales, ash)
      BY DEF Contract, contract_block_fp8_gemm, pick_backend, ColOf, ScalesOf
    <3> HIDE DEF row, col, scales
    <3>7. C[c] = Contract(c, {})
      BY <3>2, <3>3, <3>4, <3>5, ScalarIsColumn, SameColumn
    <3>8. SameUpToZeroSign(C[c], Contract(c, {"numpy"}))
      BY <3>2, <3>3, <3>4, <3>6, ArrayIsColumn
    <3>9. xp_derive_a_shift(row) = derive_a_shift(row)
      BY <3>3, DeriveIsGolden
    <3> QED
      BY <3>7, <3>8, <3>9 DEF row
  <2> QED
    BY <2>1, <2>2 DEF ContractIsGolden
<1> QED
  BY <1>1, GemmInvIsInvariant, PTL
=============================================================================
