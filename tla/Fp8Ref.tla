-------------------------------- MODULE Fp8Ref --------------------------------
(***************************************************************************)
(* The primitives of the golden FP8 contract, glm_fp8_ref: multiply, add,  *)
(* scaling by a power of two and the conversions to and from bf16, with    *)
(* subnormal inputs and results flushed to zero; the E4M3 codec, the exact *)
(* product of two codes, and the fixed-point form a block of products is   *)
(* summed in.  A number is the record of the three fields the code shifts  *)
(* and masks out of a word; the widths of fp32 are constants, 8 and 23 in  *)
(* the code.  An E4M3 code has one sign, four exponent and three mantissa  *)
(* bits, no infinity and one NaN.                                          *)
(***************************************************************************)
EXTENDS Integers

CONSTANTS
  EB,      \* width of the exponent field
  MB,      \* width of the mantissa field
  BM,      \* width of bf16's mantissa field
  ACC_FRAC \* fraction bits of the block accumulator, 18 in the code

ASSUME WidthAssumption ==
  /\ EB \in Nat \ {0, 1}
  /\ MB \in Nat \ {0} /\ BM \in 1 .. MB - 1

EMAX == 2 ^ EB - 1
BIAS == 2 ^ (EB - 1) - 1
Hidden == 2 ^ MB

Float == [s : {0, 1}, e : 0 .. EMAX, m : 0 .. Hidden - 1]
BFloat == [s : {0, 1}, e : 0 .. EMAX, m : 0 .. 2 ^ BM - 1]

QNaN    == [s |-> 0, e |-> EMAX, m |-> 2 ^ (MB - 1)]
Inf(s)  == [s |-> s, e |-> EMAX, m |-> 0]
Zero(s) == [s |-> s, e |-> 0, m |-> 0]

is_nan(f)  == f.e = EMAX /\ f.m # 0
is_inf(f)  == f.e = EMAX /\ f.m = 0
is_zero(f) == f.e = 0                    \* a subnormal counts as zero
Sig(f) == Hidden + f.m

Bit(n, i) == (n \div 2 ^ i) % 2
Low(n, i) == n % 2 ^ i
Flag(P)   == IF P THEN 1 ELSE 0
SignOf(a, b) == (a.s + b.s) % 2

(* The tail of every operation: add the rounding bit, renormalise on its   *)
(* carry, then overflow to infinity or flush to zero.                      *)
Pack(s, exp, mant, up) ==
  LET carry == Bit(mant + up, MB + 1)
      e == exp + carry
  IN  IF e >= EMAX THEN Inf(s)
      ELSE IF e <= 0 THEN Zero(s)
      ELSE [s |-> s, e |-> e, m |-> ((mant + up) \div 2 ^ carry) % Hidden]

(* Round to nearest even: up when the guard bit is set and something below *)
(* it, or the last kept bit, is.                                           *)
RoundUp_half(guard, below, mant) == guard     \* mutation: ties always up
RoundUp(guard, below, mant) == Flag(guard = 1 /\ (below \/ Bit(mant, 0) = 1))

fp32_mul(a, b) ==
  LET s    == SignOf(a, b)
      prod == Sig(a) * Sig(b)
      top  == Bit(prod, 2 * MB + 1)              \* the product is in [2,4)
      cut  == MB + top
      mant == prod \div 2 ^ cut
      up   == RoundUp(Bit(prod, cut - 1), Low(prod, cut - 1) # 0, mant)
  IN  IF is_nan(a) \/ is_nan(b) THEN QNaN
      ELSE IF is_inf(a) \/ is_inf(b)
           THEN IF is_zero(a) \/ is_zero(b) THEN QNaN ELSE Inf(s)
      ELSE IF is_zero(a) \/ is_zero(b) THEN Zero(s)
      ELSE Pack(s, a.e + b.e - BIAS + top, mant, up)

(* The smaller significand moved under the larger one, three bits wider,   *)
(* what falls off kept as a sticky bit.                                    *)
Aligned(sig, shamt) ==
  LET full == sig * 8
      kept == full \div 2 ^ shamt
  IN  IF shamt >= MB + 4 THEN 1
      ELSE IF shamt > 3 /\ Low(full, shamt) # 0 THEN kept + Flag(Bit(kept, 0) = 0)
      ELSE kept

(* The magnitude brought to MB+4 bits.  A carry drops its lowest bit.      *)
LeadingZeros(mag) == CHOOSE k \in 0 .. MB + 4 : mag * 2 ^ k \in 2 ^ (MB + 3) .. 2 ^ (MB + 4) - 1
Normalised(mag) ==
  IF Bit(mag, MB + 4) = 1 THEN [mag |-> mag \div 2, up |-> 1]
  ELSE [mag |-> mag * 2 ^ LeadingZeros(mag), up |-> 0 - LeadingZeros(mag)]

AddFinite(a, b) ==
  LET big   == IF a.e >= b.e THEN a ELSE b
      small == IF a.e >= b.e THEN b ELSE a
      mb    == Sig(big) * 8
      ms    == Aligned(Sig(small), big.e - small.e)
      sum   == IF big.s = small.s THEN mb + ms ELSE IF mb >= ms THEN mb - ms ELSE ms - mb
      s     == IF big.s = small.s \/ mb >= ms THEN big.s ELSE small.s
      n     == Normalised(sum)
      mant  == n.mag \div 8
  IN  IF sum = 0 THEN Zero(0)
      ELSE Pack(s, big.e + n.up, mant, RoundUp(Bit(n.mag, 2), Low(n.mag, 2) # 0, mant))

fp32_add(a, b) ==
  IF is_nan(a) \/ is_nan(b) THEN QNaN
  ELSE IF is_inf(a) \/ is_inf(b) THEN
       IF is_inf(a) /\ is_inf(b) /\ a.s # b.s THEN QNaN
       ELSE IF is_inf(a) THEN Inf(a.s) ELSE Inf(b.s)
  ELSE IF is_zero(a) /\ is_zero(b) THEN Zero(Flag(a.s = 1 /\ b.s = 1))
  ELSE IF is_zero(a) THEN b
  ELSE IF is_zero(b) THEN a
  ELSE AddFinite(a, b)

fp32_scale_pow2(f, k) ==
  IF f.e = EMAX THEN f
  ELSE IF f.e = 0 \/ f.e + k <= 0 THEN Zero(f.s)
  ELSE IF f.e + k >= EMAX THEN Inf(f.s)
  ELSE [f EXCEPT !.e = f.e + k]

(* bf16 keeps the high mantissa bits; a carry out of them runs on into the *)
(* exponent.                                                               *)
bf16_to_fp32(b) == [b EXCEPT !.m = b.m * 2 ^ (MB - BM)]

fp32_to_bf16(f) ==
  LET D   == MB - BM
      up  == RoundUp(Bit(f.m, D - 1), Low(f.m, D - 1) # 0, f.m \div 2 ^ D)
      sum == f.e * 2 ^ BM + f.m \div 2 ^ D + up
  IN  IF f.e = EMAX
      THEN [s |-> f.s, e |-> EMAX, m |-> IF f.m = 0 THEN 0 ELSE 2 ^ (BM - 1)]
      ELSE IF sum \div 2 ^ BM = EMAX THEN [s |-> f.s, e |-> EMAX, m |-> 0]
      ELSE [s |-> f.s, e |-> sum \div 2 ^ BM, m |-> Low(sum, BM)]
------------------------------------------------------------------------------
(* Room for every product of two codes: its exponent is at least -18, the  *)
(* accumulator's last bit, and its mantissa has at most eight bits.        *)
ASSUME CodecAssumption == EB >= 6 /\ MB >= 7 /\ ACC_FRAC = 18

Code == [s : {0, 1}, e : 0 .. 15, m : 0 .. 7]
CodeNaN(s) == [s |-> s, e |-> 15, m |-> 7]
CodeMax(s) == [s |-> s, e |-> 15, m |-> 6]      \* 448, where overflow saturates
CodeZero(s) == [s |-> s, e |-> 0, m |-> 0]
is_code_nan(c) == c.e = 15 /\ c.m = 7

(* Round to nearest even at the last of three mantissa bits; below 2^-6    *)
(* the grid is fixed and the whole significand shifts down to it.          *)
EncodeNormal(s, E, m) ==
  LET cut == MB - 3
      r   == m \div 2 ^ cut + RoundUp(Bit(m, cut - 1), Low(m, cut - 1) # 0, m \div 2 ^ cut)
      e   == E + 7 + r \div 8
  IN  IF e > 15 \/ (e = 15 /\ r % 8 = 7) THEN CodeMax(s) ELSE [s |-> s, e |-> e, m |-> r % 8]

EncodeSubnormal(s, E, sig) ==
  LET cut == MB - 9 - E
      q   == sig \div 2 ^ cut + RoundUp(Bit(sig, cut - 1), Low(sig, cut - 1) # 0, sig \div 2 ^ cut)
  IN  [s |-> s, e |-> q \div 8, m |-> q % 8]

fp32_to_fp8e4m3(f) ==
  LET E == f.e - BIAS IN
  IF f.e = EMAX THEN (IF f.m # 0 THEN CodeNaN(f.s) ELSE CodeMax(f.s))
  ELSE IF f.e = 0 \/ E <= -11 THEN CodeZero(f.s)
  ELSE IF E >= -6 THEN EncodeNormal(f.s, E, f.m)
  ELSE EncodeSubnormal(f.s, E, Sig(f))

Log2(n) == CHOOSE p \in 0 .. MB + 62 : 2 ^ p <= n /\ n \div 2 ^ p < 2     \* 0 < n < 2^(MB+63)

fp8e4m3_to_fp32(c) ==
  IF is_code_nan(c) THEN [QNaN EXCEPT !.s = c.s]
  ELSE IF c.e = 0 /\ c.m = 0 THEN Zero(c.s)
  ELSE IF c.e = 0
  THEN [s |-> c.s, e |-> BIAS - 9 + Log2(c.m), m |-> (c.m * 2 ^ (MB - Log2(c.m))) % Hidden]
  ELSE [s |-> c.s, e |-> BIAS - 7 + c.e, m |-> c.m * 2 ^ (MB - 3)]

(* A code is +-CodeSig * 2^(CodePow - 9).                                  *)
CodeSig(c) == IF c.e = 0 THEN c.m ELSE 8 + c.m
CodePow(c) == IF c.e = 0 THEN 0 ELSE c.e - 1

fp8_mul(a, b) ==
  LET prod == CodeSig(a) * CodeSig(b)
      p    == Log2(prod)
  IN  IF is_code_nan(a) \/ is_code_nan(b) THEN QNaN
      ELSE IF prod = 0 THEN Zero(SignOf(a, b))
      ELSE [s |-> SignOf(a, b), e |-> p + CodePow(a) + CodePow(b) + BIAS - 18,
            m |-> (prod * 2 ^ (MB - p)) % Hidden]

Signed(s, n) == IF s = 1 THEN 0 - n ELSE n

(* A product as a multiple of 2^-ACC_FRAC.                                 *)
fp32_to_fixed(f) ==
  LET sh == f.e - BIAS - MB + ACC_FRAC IN
  IF f.e = 0 THEN 0
  ELSE Signed(f.s, IF sh >= 0 THEN Sig(f) * 2 ^ sh ELSE Sig(f) \div 2 ^ (0 - sh))

(* The accumulator back to a float: the one rounding of a block.           *)
fixed_to_fp32(x) ==
  LET s   == Flag(x < 0)
      mag == Signed(s, x)
      p   == Log2(mag)
      cut == p - MB
  IN  IF x = 0 THEN Zero(0)
      ELSE IF cut <= 0 THEN Pack(s, p - ACC_FRAC + BIAS, mag * 2 ^ (0 - cut), 0)
      ELSE LET mant == mag \div 2 ^ cut
           IN  Pack(s, p - ACC_FRAC + BIAS, mant,
                    RoundUp(Bit(mag, cut - 1), Low(mag, cut - 1) # 0, mant))
------------------------------------------------------------------------------
(* The encoder of the offline vector builder fp8_gen: a second copy of the *)
(* E4M3 encode, whose output the compressor packs.  It looks the shift of  *)
(* a subnormal up by exponent and tests the mantissa sum for a carry.      *)
SubnormalShift == [E \in -10 .. -7 |-> MB - 2 + (-7 - E)]

gen_fp32_to_fp8e4m3(f) ==
  LET E    == f.e - BIAS
      mant == (f.m \div 2 ^ (MB - 3)) % 8
      up   == Flag(Bit(f.m, MB - 4) = 1 /\ (Low(f.m, MB - 4) # 0 \/ mant % 2 = 1))
      msum == mant + up
      over == msum >= 8
      efield == IF over THEN E + 8 ELSE E + 7
      mant3  == IF over THEN 0 ELSE msum
      cut == SubnormalShift[E]
      qint == (Sig(f) \div 2 ^ cut) % 8
      q == qint + Flag(Bit(Sig(f), cut - 1) = 1 /\ (Low(Sig(f), cut - 1) # 0 \/ qint % 2 = 1))
  IN  IF is_nan(f) THEN CodeNaN(f.s)
      ELSE IF is_inf(f) THEN CodeMax(f.s)
      ELSE IF is_zero(f) THEN CodeZero(f.s)
      ELSE IF E >= -6 THEN
           IF efield > 15 \/ (efield = 15 /\ mant3 = 7) THEN CodeMax(f.s)
           ELSE [s |-> f.s, e |-> efield, m |-> mant3]
      ELSE IF E <= -11 \/ q = 0 THEN CodeZero(f.s)
      ELSE IF q = 8 THEN [s |-> f.s, e |-> 1, m |-> 0]
      ELSE [s |-> f.s, e |-> 0, m |-> q]
===============================================================================
