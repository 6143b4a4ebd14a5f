-------------------------------- MODULE Fp8Gemm -------------------------------
(***************************************************************************)
(* The block-scaled FP8 GEMM for one token.  The golden,                   *)
(* glm_fp8_ref.block_fp8_gemm, step by step: quantise the row, then for    *)
(* each output column accumulate every block exactly, fold the blocks with *)
(* their weight scales, undo the token's scale and narrow to bf16.  The    *)
(* contract, glm_fp8_contract, at once: the integer decomposition, by an   *)
(* array backend and by the scalar fallback.  A row, a column and a row of *)
(* scales are sequences; blk rows of the contraction share a weight scale. *)
(***************************************************************************)
EXTENDS Fp8Array, FiniteSetsExt

CONSTANT blk              \* 128 in the code

ASSUME BlockAssumption == blk \in Nat \ {0}

BlockOf(i) == (i - 1) \div blk + 1
Blocks(row) == (Len(row) + blk - 1) \div blk
Finite(b) == b.e < EMAX

(* floor(log2(448 / amax)) for amax = sig * 2^q: 448 is 1.75 * 2^8.        *)
PowerInto512(sig, q) ==     \* mutation: the mantissa of 448 is forgotten
  8 - (Log2(sig) + q)
PowerInto448(sig, q) ==
  LET p == Log2(sig) IN 8 - (p + q) - Flag(4 * sig > 7 * 2 ^ p)
ShiftOf(b) == IF b.e = 0 THEN PowerInto448(b.m, 1 - BIAS - BM)
              ELSE PowerInto448(2 ^ BM + b.m, b.e - BIAS - BM)

(* The array backend takes the maximum of the words without their sign.    *)
MagBits_signed(b) == (b.s * 2 ^ EB + b.e) * 2 ^ BM + b.m     \* mutation: the sign is not masked
MagBits(b) == b.e * 2 ^ BM + b.m
xp_derive_a_shift(row) ==
  LET amax == CHOOSE i \in DOMAIN row : \A j \in DOMAIN row : MagBits(row[j]) <= MagBits(row[i])
  IN  IF MagBits(row[amax]) = 0 THEN 0 ELSE ShiftOf(row[amax])

(* The sum of a block as an integer matrix product of significands.        *)
BlockSum(av, wv, bj) ==
  MapThenSumSet(LAMBDA k : av[k] * wv[k], {k \in DOMAIN av : BlockOf(k) = bj})

xp_block_fp8_gemm(row, col, scales, ash) ==
  LET av == [k \in DOMAIN row |->
               e4m3_to_signed_sig(xp_fp32_to_fp8e4m3(xp_fp32_scale_pow2(bf16_to_fp32(row[k]), ash)))]
      wv == [k \in DOMAIN col |-> e4m3_to_signed_sig(col[k])]
      term(bj) == xp_fp32_mul(xp_fixed_to_fp32(BlockSum(av, wv, bj)), bf16_to_fp32(scales[bj]))
      \* the fold starts from the first block's term, not from zero
      s[bj \in 1 .. Blocks(row)] ==
        IF bj = 1 THEN term(1) ELSE xp_fp32_add(s[bj - 1], term(bj))
  IN  xp_fp32_to_bf16(xp_fp32_scale_pow2(s[Blocks(row)], 0 - ash))

SignedSig(c) == Signed(c.s, CodeSig(c) * 2 ^ CodePow(c))

py_block_fp8_gemm(row, col, scales, ash) ==
  LET av == [k \in DOMAIN row |->
               SignedSig(fp32_to_fp8e4m3(fp32_scale_pow2(bf16_to_fp32(row[k]), ash)))]
      wv == [k \in DOMAIN col |-> SignedSig(col[k])]
      s[bj \in 0 .. Blocks(row)] ==
        IF bj = 0 THEN Zero(0)
        ELSE fp32_add(s[bj - 1],
                      fp32_mul(fixed_to_fp32(BlockSum(av, wv, bj)), bf16_to_fp32(scales[bj])))
  IN  fp32_to_bf16(fp32_scale_pow2(s[Blocks(row)], 0 - ash))

(* Without a choice torch is preferred to numpy, numpy to plain python.    *)
pick_backend(choice, installed) ==
  IF choice # "auto" THEN choice
  ELSE IF "torch" \in installed THEN "torch"
  ELSE IF "numpy" \in installed THEN "numpy" ELSE "python"

contract_block_fp8_gemm(row, col, scales, ash, choice, installed) ==
  IF pick_backend(choice, installed) \in {"torch", "numpy"}
  THEN xp_block_fp8_gemm(row, col, scales, ash)
  ELSE py_block_fp8_gemm(row, col, scales, ash)
------------------------------------------------------------------------------
CONSTANTS
  Tile,        \* [A : row, W : sequence of columns, WS : scales by output block]
  GivenShift   \* activation scales a caller may pass instead of the derived one

(* A row is not empty and finite: derive_a_shift takes the logarithm of    *)
(* 448 / amax.  No weight is the NaN code, the products of a block with    *)
(* activations of up to 448 stay below what the search for the top bit of  *)
(* their sum covers, int64 in the code, and each block of columns has a    *)
(* scale for every block of the contraction.                               *)
ASSUME TileAssumption ==
  /\ GivenShift \subseteq Int
  /\ \A t \in Tile :
       /\ t.A \in Seq(BFloat) \ {<< >>} /\ \A i \in 1 .. Len(t.A) : Finite(t.A[i])
       /\ Len(t.W) \in Nat \ {0}
       /\ \A c \in 1 .. Len(t.W) :
            /\ t.W[c] \in Seq(Code) /\ Len(t.W[c]) = Len(t.A)
            /\ \A i \in 1 .. Len(t.A) :
                 /\ ~is_code_nan(t.W[c][i])
                 /\ (blk * (448 * 512 * (CodeSig(t.W[c][i]) * 2 ^ CodePow(t.W[c][i]))))
                      \div 2 ^ (2 ^ HALVINGS - 2) <= 1
            /\ t.WS[BlockOf(c)] \in Seq(BFloat) /\ Len(t.WS[BlockOf(c)]) = Blocks(t.A)

VARIABLES
  tile,    \* the operands
  ash,     \* a_shift of the token
  pc,      \* "quantize", "mac", "fold", "done"
  a_q,     \* the quantised row
  j,       \* output column
  k,       \* contraction index
  acc,     \* per block, the fixed-point sum
  bj,      \* blocks folded
  total,   \* the running fold
  C        \* finished columns

gemmVars == << tile, ash, pc, a_q, j, k, acc, bj, total, C >>

(* The largest power of two that keeps the row within 448.                 *)
derive_a_shift(row) ==
  LET larger(x, y) == x.e < y.e \/ (x.e = y.e /\ x.m < y.m)
      amax[i \in 0 .. Len(row)] ==
        IF i = 0 THEN [s |-> 0, e |-> 0, m |-> 0]
        ELSE IF larger(amax[i - 1], row[i]) THEN row[i] ELSE amax[i - 1]
      top == amax[Len(row)]
  IN  IF top.e = 0 /\ top.m = 0 THEN 0 ELSE ShiftOf(top)

GemmInit ==
  /\ tile \in Tile
  /\ ash \in {derive_a_shift(tile.A)} \cup GivenShift
  /\ pc = "quantize"
  /\ a_q = << >> /\ C = << >>
  /\ j = 1 /\ k = 1 /\ bj = 0
  /\ acc = [b \in 1 .. Blocks(tile.A) |-> 0]
  /\ total = Zero(0)

Quantize ==
  /\ pc = "quantize"
  /\ a_q' = [i \in DOMAIN tile.A |->
               fp32_to_fp8e4m3(fp32_scale_pow2(bf16_to_fp32(tile.A[i]), ash))]
  /\ pc' = "mac"
  /\ UNCHANGED << tile, ash, j, k, acc, bj, total, C >>

Accumulate ==
  /\ pc = "mac"
  /\ acc' = [acc EXCEPT ![BlockOf(k)] = @ + fp32_to_fixed(fp8_mul(a_q[k], tile.W[j][k]))]
  /\ k' = k + 1
  /\ pc' = IF k = Len(a_q) THEN "fold" ELSE "mac"
  /\ UNCHANGED << tile, ash, a_q, j, bj, total, C >>

Fold ==
  /\ pc = "fold" /\ bj < Len(acc)
  /\ total' = fp32_add(total, fp32_mul(fixed_to_fp32(acc[bj + 1]),
                                       bf16_to_fp32(tile.WS[BlockOf(j)][bj + 1])))
  /\ bj' = bj + 1
  /\ UNCHANGED << tile, ash, pc, a_q, j, k, acc, C >>

Column ==
  /\ pc = "fold" /\ bj = Len(acc)
  /\ C' = Append(C, fp32_to_bf16(fp32_scale_pow2(total, 0 - ash)))
  /\ j' = j + 1 /\ k' = 1 /\ bj' = 0
  /\ acc' = [b \in DOMAIN acc |-> 0]
  /\ total' = Zero(0)
  /\ pc' = IF j = Len(tile.W) THEN "done" ELSE "mac"
  /\ UNCHANGED << tile, ash, a_q >>

GemmNext == Quantize \/ Accumulate \/ Fold \/ Column

(* Mid-block, the golden's accumulator, built from rounded-looking fp32    *)
(* products, is exactly the integer dot product of the significands.       *)
AccIsExact ==
  pc = "mac" => \A b \in DOMAIN acc :
    acc[b] = MapThenSumSet(LAMBDA i : e4m3_to_signed_sig(a_q[i]) * e4m3_to_signed_sig(tile.W[j][i]),
                           {i \in 1 .. k - 1 : BlockOf(i) = b})

(* The derived scale puts the largest activation in the top binade of the  *)
(* code range: nothing saturates, and no wider scale would also fit.       *)
Derived == ash = derive_a_shift(tile.A) /\ \E i \in DOMAIN tile.A : tile.A[i].e # 0
Scaled(i, up) == fp32_scale_pow2(bf16_to_fp32(tile.A[i]), ash + up)
Exceeds448(f) == f.e > BIAS + 8 \/ (f.e = BIAS + 8 /\ f.m > 3 * 2 ^ (MB - 2))
DerivedShiftIsTight ==
  Derived => /\ \A i \in DOMAIN tile.A : ~Exceeds448(Scaled(i, 0))
             /\ \E i \in DOMAIN tile.A : Exceeds448(Scaled(i, 1))

(* The contract computes the golden's columns: the accumulator is exact on *)
(* the way, the result the same word in plain python and, on an array      *)
(* backend, up to the sign of a zero, which the golden's fold from +0      *)
(* loses and the array fold keeps.                                         *)
SameUpToZeroSign(x, y) == x = y \/ (x.e = 0 /\ x.m = 0 /\ y.e = 0 /\ y.m = 0)
Contract(c, installed) ==
  contract_block_fp8_gemm(tile.A, tile.W[c], tile.WS[BlockOf(c)], ash, "auto", installed)
ContractIsGolden ==
  AccIsExact /\ \A c \in DOMAIN C :
    /\ C[c] = Contract(c, {})
    /\ SameUpToZeroSign(C[c], Contract(c, {"numpy"}))
    /\ xp_derive_a_shift(tile.A) = derive_a_shift(tile.A)
===============================================================================
