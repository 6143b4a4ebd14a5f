------------------------------- MODULE Fp8Array -------------------------------
(***************************************************************************)
(* The array kernels of glm_fp8_contract.  An array backend has no early   *)
(* return: every lane computes every branch, whatever its operand, and     *)
(* later selections overwrite earlier ones.  One lane of each kernel.      *)
(***************************************************************************)
EXTENDS Fp8Ref, Sequences

CONSTANT HALVINGS   \* shifts tried by the search for the top bit, 6 in the code

ASSUME SearchAssumption == HALVINGS \in 1 .. 6

(* xp.where *)
Where(c, x, y) == IF c THEN x ELSE y

(* Successive assignments res = xp.where(c, v, res): the last true one     *)
(* stays.                                                                  *)
Choice(c, v) == [when |-> c, val |-> v]
FirstWins(base, overrides) ==     \* mutation: the overrides in the wrong order
  LET hits == {i \in DOMAIN overrides : overrides[i].when}
  IN  IF hits = {} THEN base
      ELSE overrides[CHOOSE i \in hits : \A j \in hits : i <= j].val
LastWins(base, overrides) ==
  LET hits == {i \in DOMAIN overrides : overrides[i].when}
  IN  IF hits = {} THEN base
      ELSE overrides[CHOOSE i \in hits : \A j \in hits : j <= i].val

xp_fp32_to_bf16(f) ==
  LET D       == MB - BM
      cond    == Low(f.m, D - 1) # 0 \/ Bit(f.m, D) # 0
      roundup == Where(Bit(f.m, D - 1) = 1 /\ cond, 1, 0)
      top     == (f.e * 2 ^ BM + f.m \div 2 ^ D + roundup) % 2 ^ (EB + BM)
      inf     == [s |-> f.s, e |-> EMAX, m |-> 0]
      normal  == Where(top \div 2 ^ BM = EMAX, inf,
                       [s |-> f.s, e |-> top \div 2 ^ BM, m |-> Low(top, BM)])
  IN  Where(f.e = EMAX, Where(f.m = 0, inf, [inf EXCEPT !.m = 2 ^ (BM - 1)]), normal)

xp_fp32_scale_pow2(f, k) ==
  LastWins([f EXCEPT !.e = (f.e + k) % (EMAX + 1)],
           << Choice(f.e + k >= EMAX, Inf(f.s)), Choice(f.e + k <= 0, Zero(f.s)),
              Choice(f.e = 0, Zero(f.s)), Choice(f.e = EMAX, f) >>)

(* The shared tail of mul, add and fixed_to_fp32.                          *)
xp_pack(s, exp, mant, up) ==
  LET carry == Bit(mant + up, MB + 1) = 1
      m     == Where(carry, (mant + up) \div 2, mant + up)
      e     == Where(carry, exp + 1, exp)
  IN  Where(e >= EMAX, Inf(s), Where(e <= 0, Zero(s), [s |-> s, e |-> e % (EMAX + 1), m |-> m % Hidden]))

xp_fp32_mul(a, b) ==
  LET s    == SignOf(a, b)
      zero == is_zero(a) \/ is_zero(b)
      prod == Sig(a) * Sig(b)
      top  == Bit(prod, 2 * MB + 1) = 1
      mant == Where(top, prod \div 2 ^ (MB + 1), prod \div 2 ^ MB)
      grd  == Where(top, Bit(prod, MB), Bit(prod, MB - 1))
      stk  == Where(top, Low(prod, MB) # 0, Low(prod, MB - 1) # 0)
      exp0 == a.e + b.e - BIAS
  IN  LastWins(xp_pack(s, Where(top, exp0 + 1, exp0), mant, RoundUp(grd, stk, mant)),
               << Choice(zero, Zero(s)),
                  Choice(is_inf(a) \/ is_inf(b), Where(zero, QNaN, Inf(s))),
                  Choice(is_nan(a) \/ is_nan(b), QNaN) >>)

(* MB+4 conditional shifts by one, frozen once the top bit is set.         *)
NormSteps(mag, carry) ==
  LET step[i \in 0 .. MB + 4] ==
        IF i = 0 THEN [mag |-> mag, up |-> 0]
        ELSE LET prev == step[i - 1]
             IN  Where(~carry /\ Bit(prev.mag, MB + 3) = 0,
                       [mag |-> prev.mag * 2, up |-> prev.up - 1], prev)
  IN  step[MB + 4]

ShiftClamp == 2 * MB + 14                 \* 60 in the code
(* The lanes of finite operands, nonzero or not.                           *)
xp_add_finite(a, b) ==
  LET age   == a.e >= b.e
      big   == Where(age, a, b)
      small == Where(age, b, a)
      shamt == big.e - small.e
      shc   == Where(shamt > ShiftClamp, ShiftClamp, shamt)
      full  == Sig(small) * 8
      ms    == full \div 2 ^ shc
      stk   == shamt > 3 /\ Low(full, shc) # 0
      mse   == Where(shamt >= MB + 4, 1, Where(stk, 2 * (ms \div 2) + 1, ms))
      mbe   == Sig(big) * 8
      same  == big.s = small.s
      sum   == Where(same, mbe + mse, Where(mbe >= mse, mbe - mse, mse - mbe))
      sign  == Where(same, big.s, Where(mbe >= mse, big.s, small.s))
      carry == Bit(sum, MB + 4) = 1
      n     == NormSteps(Where(carry, sum \div 2, sum), carry)
      mant  == (n.mag \div 8) % (2 * Hidden)
      up    == RoundUp(Bit(n.mag, 2), Bit(n.mag, 1) = 1 \/ Bit(n.mag, 0) = 1, mant)
  IN  Where(sum = 0, Zero(0), xp_pack(sign, big.e + Where(carry, 1, 0) + n.up, mant, up))

xp_fp32_add(a, b) ==
  LastWins(xp_add_finite(a, b),
           << Choice(is_zero(a) /\ is_zero(b), Zero(Flag(a.s = 1 /\ b.s = 1))),
              Choice(is_zero(a) /\ ~is_zero(b), b),
              Choice(is_zero(b) /\ ~is_zero(a), a),
              Choice(is_inf(a) /\ is_inf(b), Where(a.s = b.s, Inf(a.s), QNaN)),
              Choice(is_inf(a) /\ ~is_inf(b), Inf(a.s)),
              Choice(is_inf(b) /\ ~is_inf(a), Inf(b.s)),
              Choice(is_nan(a) \/ is_nan(b), QNaN) >>)
------------------------------------------------------------------------------
(* E4M3 codes and the block accumulator.                                   *)
xp_fp32_to_fp8e4m3(f) ==
  LET E      == f.e - BIAS
      r      == f.m \div 2 ^ (MB - 3) +
                RoundUp(Bit(f.m, MB - 4), Low(f.m, MB - 4) # 0, f.m \div 2 ^ (MB - 3))
      e      == Where(r >= 8, E + 8, E + 7)
      m      == Where(r >= 8, 0, r)
      normal == Where(e > 15 \/ (e = 15 /\ m = 7), CodeMax(f.s), [s |-> f.s, e |-> e % 16, m |-> m])
      \* the lane of a subnormal selects one of four shifts by its exponent
      cut    == Where(E = -7, MB - 2, Where(E = -8, MB - 1, Where(E = -9, MB, MB + 1)))
      qint   == (Sig(f) \div 2 ^ cut) % 8
      q      == qint + RoundUp(Bit(Sig(f), cut - 1), Low(Sig(f), cut - 1) # 0, qint)
      sub    == Where(q = 0, CodeZero(f.s), Where(q = 8, [s |-> f.s, e |-> 1, m |-> 0],
                                                  [s |-> f.s, e |-> 0, m |-> q % 8]))
  IN  LastWins(Where(E >= -6, normal, Where(E <= -11, CodeZero(f.s), sub)),
               << Choice(is_zero(f), CodeZero(f.s)), Choice(is_inf(f), CodeMax(f.s)),
                  Choice(is_nan(f), CodeNaN(f.s)) >>)

(* The exact product of two codes is the product of these integers.        *)
e4m3_to_signed_sig(c) ==
  LET mag == Where(c.e = 0, c.m, 8 + c.m) * 2 ^ Where(c.e = 0, 0, c.e - 1)
  IN  Where(c.s = 1, 0 - mag, mag)

(* The highest set bit by halving the search range.                        *)
TopBit(n) ==
  LET halve[i \in 0 .. HALVINGS] ==
        IF i = 0 THEN [k |-> n, p |-> 0]
        ELSE LET prev == halve[i - 1]
                 sh == 2 ^ (HALVINGS - i)
             IN  Where(prev.k \div 2 ^ sh > 0,
                       [k |-> prev.k \div 2 ^ sh, p |-> prev.p + sh], prev)
  IN  halve[HALVINGS].p

xp_fixed_to_fp32(x) ==
  LET s    == Where(x < 0, 1, 0)
      mag  == Where(x < 0, 0 - x, x)
      p    == TopBit(mag)
      hi   == p >= MB
      mant == Where(hi, mag \div 2 ^ Where(hi, p - MB, 0), mag * 2 ^ Where(hi, 0, MB - p))
      shg  == Where(p >= MB + 1, p - MB - 1, 0)
      grd  == Where(p >= MB + 1, Bit(mag, shg), 0)
      stk  == p >= MB + 2 /\ Low(mag, shg) # 0
  IN  Where(mag = 0, Zero(0),
            xp_pack(s, p - ACC_FRAC + BIAS, mant, RoundUp(grd, stk, mant)))
===============================================================================
