------------------------------ MODULE ContractOps -----------------------------
(***************************************************************************)
(* One primitive of the FP8 contract applied to its operands, by the       *)
(* scalar golden (glm_fp8_ref) and by a lane of the array kernel           *)
(* (glm_fp8_contract), or by the encoder of the vector builder (fp8_gen).  *)
(***************************************************************************)
EXTENDS Fp8Array

(* What a correctly rounded operation returns: the exact value as an       *)
(* integer multiple of a power of two, the nearest float to it, the even   *)
(* one of two equally near, with the flush to zero and the overflow of     *)
(* this arithmetic.  Stated by distances, not by guard and sticky bits.    *)
TopPower(n) == CHOOSE p \in 0 .. 2 * MB + 6 + 2 ^ HALVINGS : 2 ^ p <= n /\ n \div 2 ^ p < 2
Dist(x, y) == IF x >= y THEN x - y ELSE y - x

(* The multiple of 2^d nearest to n, as a multiple.                        *)
NearestEven(n, d) ==
  LET lo == n \div 2 ^ d
      below == n - lo * 2 ^ d
      above == 2 ^ d - below
  IN  IF below < above \/ (below = above /\ lo % 2 = 0) THEN lo ELSE lo + 1

(* The float for (-1)^s * n * 2^(e0 - BIAS - MB), n > 0.                   *)
Rounded(s, n, e0) ==
  LET p == TopPower(n)
      sig == IF p > MB THEN NearestEven(n, p - MB) ELSE n * 2 ^ (MB - p)
      up == IF sig = 2 * Hidden THEN 1 ELSE 0
      e == e0 + p - MB + up
  IN  IF e >= EMAX THEN Inf(s)
      ELSE IF e <= 0 THEN Zero(s)
      ELSE [s |-> s, e |-> e, m |-> IF up = 1 THEN 0 ELSE sig - Hidden]

Ordinary(f) == f.e \in 1 .. EMAX - 1
Value(f, e0) == (IF f.s = 1 THEN -1 ELSE 1) * Sig(f) * 2 ^ (f.e - e0)

ExactSum(a, b) ==
  LET e0 == IF a.e <= b.e THEN a.e ELSE b.e
  IN  [n |-> Value(a, e0) + Value(b, e0), e0 |-> e0]

RoundedSum(a, b) ==
  LET x == ExactSum(a, b)
  IN  IF x.n = 0 THEN Zero(0) ELSE Rounded(IF x.n < 0 THEN 1 ELSE 0, Dist(x.n, 0), x.e0)

RoundedProduct(a, b) ==
  Rounded(SignOf(a, b), Sig(a) * Sig(b), a.e + b.e - BIAS - MB)
------------------------------------------------------------------------------
CONSTANTS
  Operand,   \* the fp32 words multiplied and added in pairs
  Converted, \* the fp32 words converted
  Shift,     \* the powers of two they are scaled by
  Factor,    \* the codes multiplied in pairs
  BlockSums  \* the block sums rounded

(* Words and codes; a NaN code has no significand to multiply, and a block *)
(* sum has a bit less than the search for its top bit covers, for its sign.*)
ASSUME OperandAssumption ==
  /\ Operand \subseteq Float /\ Converted \subseteq Float /\ Shift \subseteq Int
  /\ Factor \subseteq {c \in Code : ~is_code_nan(c)}
  /\ BlockSums \subseteq Int
  /\ \A n \in BlockSums : Dist(n, 0) \div 2 ^ (2 ^ HALVINGS - 2) <= 1

VARIABLES
  op, a, b,       \* the operation and its operands
  done,           \* whether it has been applied
  golden, array   \* the golden's result and the other implementation's
opsVars == << op, a, b, done, golden, array >>

Pending(kind) == op = kind /\ ~done /\ done' = TRUE /\ UNCHANGED << op, a, b >>
Did(kinds) == op \in kinds /\ done

OpsInit ==
  /\ \/ op \in {"mul", "add"} /\ a \in Operand /\ b \in Operand
     \/ op \in {"encode", "narrow"} /\ a \in Converted /\ b = 0
     \/ op = "scale" /\ a \in Converted /\ b \in Shift
     \/ op = "decode" /\ a \in Code /\ b = 0
     \/ op = "product" /\ a \in Factor /\ b \in Factor
     \/ op = "round" /\ a \in BlockSums /\ b = 0
  /\ done = FALSE /\ golden = 0 /\ array = 0

Multiply == Pending("mul") /\ golden' = fp32_mul(a, b) /\ array' = xp_fp32_mul(a, b)
Add    == Pending("add") /\ golden' = fp32_add(a, b) /\ array' = xp_fp32_add(a, b)
Encode == Pending("encode") /\ golden' = fp32_to_fp8e4m3(a) /\ array' = xp_fp32_to_fp8e4m3(a)
Narrow == Pending("narrow") /\ golden' = fp32_to_bf16(a) /\ array' = xp_fp32_to_bf16(a)
Scale  == Pending("scale") /\ golden' = fp32_scale_pow2(a, b) /\ array' = xp_fp32_scale_pow2(a, b)
Decode == /\ Pending("decode")
          /\ golden' = fp32_to_fp8e4m3(fp8e4m3_to_fp32(a))
          /\ array' = gen_fp32_to_fp8e4m3(fp8e4m3_to_fp32(a))
MultiplyCodes == /\ Pending("product")
                 /\ golden' = fp32_to_fixed(fp8_mul(a, b))
                 /\ array' = e4m3_to_signed_sig(a) * e4m3_to_signed_sig(b)
Round == Pending("round") /\ golden' = fixed_to_fp32(a) /\ array' = xp_fixed_to_fp32(a)

OpsNext == Multiply \/ Add \/ Encode \/ Narrow \/ Scale \/ Decode \/ MultiplyCodes \/ Round

(* Every array kernel returns the golden's word, special values and the    *)
(* sign of zero included; the integer product of two signed significands   *)
(* is the golden's fixed-point product, the "key algebraic fact" of        *)
(* glm_fp8_contract; and the vector builder's encoder is the golden's.     *)
KernelsAreGolden ==
  /\ Did({"mul", "add", "encode", "narrow", "scale", "product", "round"}) => golden = array
  /\ Did({"encode"}) => gen_fp32_to_fp8e4m3(a) = golden

(* Ordinary operands whose exact sum is small enough to write down.        *)
Addable == Ordinary(a) /\ Ordinary(b) /\ Dist(a.e, b.e) <= MB + 5

(* The comment of fp32_add: every sum is rounded to nearest, ties to even. *)
SumsAreRounded == (Did({"add"}) /\ Addable) => golden = RoundedSum(a, b)

(* What fp32_add does return: nearest even when the sum does not carry out *)
(* of the larger operand's binade; otherwise within 5/8 of a unit in the   *)
(* last place, because the carry drops a sticky bit.                       *)
Carries == LET x == ExactSum(a, b)
               big == IF a.e >= b.e THEN a.e ELSE b.e
           IN  Dist(x.n, 0) >= 2 * Hidden * 2 ^ (big - x.e0)
WithinFiveEighths ==
  LET x == ExactSum(a, b)
  IN  8 * Dist(Value(golden, x.e0), x.n) <= 5 * 2 ^ (golden.e - x.e0)
SumsAreNear == (Did({"add"}) /\ Addable) =>
  IF Carries /\ Ordinary(golden) THEN WithinFiveEighths ELSE golden = RoundedSum(a, b)

ProductsAreRounded == (Did({"mul"}) /\ Ordinary(a) /\ Ordinary(b)) => golden = RoundedProduct(a, b)

(* A block sum is rounded once, to the nearest float.                      *)
BlockSumsAreRounded == (Did({"round"}) /\ a # 0) =>
  golden = Rounded(IF a < 0 THEN 1 ELSE 0, Dist(a, 0), BIAS + MB - ACC_FRAC)

(* Encode returns the nearest code, the even one of two, saturating at     *)
(* 448: values are compared in units of 2^-9.                              *)
CodeUnits(c) == CodeSig(c) * 2 ^ CodePow(c)
NearestUnits(f) ==
  LET E == f.e - BIAS
      grid == (IF E >= -6 THEN E ELSE -6) - 3
      k == NearestEven(Sig(f), grid - E + MB)
  IN  IF E < -12 THEN 0
      ELSE IF E > 9 \/ k * 2 ^ (grid + 9) > 448 * 512 THEN 448 * 512 ELSE k * 2 ^ (grid + 9)
CodesAreNearest == (Did({"encode"}) /\ Ordinary(a)) =>
  golden.s = a.s /\ ~is_code_nan(golden) /\ CodeUnits(golden) = NearestUnits(a)

(* Decode then encode returns every code that is not a NaN, sign of zero   *)
(* included; a NaN stays one.                                              *)
DecodeInverts == Did({"decode"}) =>
  golden = array /\ IF is_code_nan(a) THEN golden = CodeNaN(a.s) ELSE golden = a

(* Products, sums, block sums and codes are the nearest representable      *)
(* values by an independent definition, up to the carry of a sum.          *)
RoundsToNearest ==
  ProductsAreRounded /\ SumsAreNear /\ BlockSumsAreRounded /\ CodesAreNearest /\ DecodeInverts
===============================================================================
