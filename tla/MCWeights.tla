------------------------------- MODULE MCWeights -------------------------------
(***************************************************************************)
(* The two ways weights reach the chip, checked in one run: a behaviour    *)
(* decodes compressed blocks or carries a checkpoint to the matmul, and    *)
(* the other machine has nothing to do.                                    *)
(***************************************************************************)
EXTENDS WeightDecomp, Checkpoint

VARIABLE way     \* "compressed" or "packed"

(* Values with codes in every context class.                               *)
Fp32(sign, e, m) == [s |-> sign, e |-> e, m |-> m]
Nil   == Fp32(0, 0, 0)              \* byte 0
Tiny  == Fp32(0, BIAS - 9, 0)       \* byte 1, the second class
Minus == Fp32(1, BIAS - 9, 5)       \* byte 129, the second class
One   == Fp32(0, BIAS, 0)           \* byte 56, the third class
Two   == Fp32(0, BIAS + 1, 1)       \* byte 64, the last class

Short == {<< >>} \cup {<< x >> : x \in {Nil, Tiny, Two}}
         \cup {<< x, y, z >> : x, y, z \in {Nil, Tiny, Minus, One, Two}}
(* Five symbols whose Huffman code is four deep.                           *)
Skewed == << Nil, One, Nil, Tiny, Nil, One, Two, Nil, One, Nil, Tiny >>

Block(contexts, vals) == [contexts |-> contexts, vals |-> vals]
MCCase == {<< Block(n, vals), Block(n, << Two, Nil, Two >>) >> : n \in {1, 4}, vals \in Short}
          \cup {<< Block(n, Skewed), Block(n, << One >>), Block(n, Skewed) >> : n \in {1, 4}}

(* Every weight has its own code; every scale its own word, and bits that  *)
(* narrowing rounds away.                                                  *)
Codes(n, from) == [i \in 1 .. n |-> from + i]
Words(n, from) == [i \in 1 .. n |-> [s |-> i % 2, e |-> 100 + from + i, m |-> 8 * i + 4 * from + 4]]
Halfwords(n, from) == [i \in 1 .. n |-> [s |-> 0, e |-> 120 + from + i, m |-> i]]

Weight(layer, n, k, from) ==
  [layer |-> layer, part |-> "weight", dtype |-> "F8_E4M3", shape |-> << n, k >>,
   elts |-> Codes(n * k, from)]
ScaleTensor(layer, n, k, dtype, from) ==
  LET shape == << Ceil(n, BLK), Ceil(k, BLK) >>
      size == shape[1] * shape[2]
  IN  [layer |-> layer, part |-> "weight_scale_inv", dtype |-> dtype, shape |-> shape,
       elts |-> IF dtype = "F32" THEN Words(size, from) ELSE Halfwords(size, from)]
Tail16 == [layer |-> "norm", part |-> "weight", dtype |-> "BF16", shape |-> << 3 >>,
           elts |-> Halfwords(3, 0)]

MCModel ==
  {<< Weight("up", n, k, 0), Tail16, ScaleTensor("up", n, k, dtype, 0),
      ScaleTensor("down", m, h, "F32", 7), Weight("down", m, h, 100) >> :
     n \in {1, 3, 4, 5}, k \in {1, 2, 3, 4}, m \in {2, 7}, h \in {1, 6}, dtype \in {"F32", "BF16"}}

DecompIdle ==
  /\ todo = << VectorOf(Block(1, << >>)) >> /\ loads = << >>
  /\ DecompReset
PathIdle == model = << >> /\ PathReset

CompressedDoes(A) == way = "compressed" /\ A /\ UNCHANGED << way, pathVars >>
PackedDoes(A) == way = "packed" /\ A /\ UNCHANGED << way, decompVars >>
mcVars == << way, decompVars, pathVars >>

MCInit == \/ way = "compressed" /\ DecompInit /\ PathIdle
          \/ way = "packed" /\ PathInit /\ DecompIdle
MCNext == \/ CompressedDoes(LoadTable) \/ CompressedDoes(Streaming) \/ CompressedDoes(Start)
          \/ CompressedDoes(DecoderReset) \/ PackedDoes(PathNext)
MCSpec ==
  /\ MCInit /\ [][MCNext]_mcVars
  /\ WF_mcVars(CompressedDoes(LoadTable)) /\ WF_mcVars(CompressedDoes(Start))
  /\ WF_mcVars(CompressedDoes(DecodeCycle(FALSE, TRUE))) /\ WF_mcVars(CompressedDoes(DecodeCycle(TRUE, TRUE)))
  /\ WF_mcVars(PackedDoes(PathNext))

(* Weights arrive: every compressed block is decoded to its end marker,    *)
(* and every tile of an image is streamed to the matmul.                   *)
WeightsArrive == (way = "compressed" => BlocksEnd) /\ (way = "packed" => AllTilesFed)
===============================================================================
