----------------------------- MODULE WeightLoader -----------------------------
(***************************************************************************)
(* The weight-side DMA of the FP8 matmul, weight_loader: given a tile's    *)
(* descriptor it reads the block scales, presents them with the start      *)
(* pulse, and streams one row of codes per beat, from a word memory that   *)
(* answers one clock after the address.                                    *)
(***************************************************************************)
EXTENDS Integers, SequencesExt

CONSTANTS
  PE_N,       \* output columns of a tile, 4 in the code
  BLK,        \* rows and columns that share a scale, 128 in the code
  KMAX        \* longest contraction, 256 in the code

ASSUME LayoutAssumption ==
  PE_N \in Nat \ {0, 1} /\ BLK \in Nat \ {0} /\ KMAX \in Nat \ {0}

Ceil(n, d) == (n + d - 1) \div d

NB == Ceil(KMAX, BLK)      \* scale banks

VARIABLES
  words,                       \* the weight memory
  state,                       \* "idle", "scale", "start", "stream", "done"
  base_q, klen_q, nblk_q,      \* the latched descriptor
  w_scale_q,                   \* the scale bus, slot bj*PE_N + pj
  sc_iss, sc_cap,              \* scale reads issued, captured
  rd_v, rd_slot,               \* a scale read is returning, into this slot
  cd_iss, beat_cnt,            \* code reads issued, rows driven
  code_pending,                \* a code read is returning
  mem_data,                    \* output register of the memory
  busy,
  fed                          \* what the matmul was given: [scales, k_len, rows] per tile

loader == << state, base_q, klen_q, nblk_q, w_scale_q, sc_iss, sc_cap, rd_v, rd_slot,
             cd_iss, beat_cnt, code_pending, mem_data, busy, fed >>
loaderVars == << words, loader >>
descriptor == << base_q, klen_q, nblk_q >>

NoScales == [slot \in 0 .. NB * PE_N - 1 |-> 0]

LoaderInit ==
  /\ state = "idle" /\ busy = FALSE
  /\ base_q = 0 /\ klen_q = 0 /\ nblk_q = 0 /\ w_scale_q = NoScales
  /\ sc_iss = 0 /\ sc_cap = 0 /\ rd_v = FALSE /\ rd_slot = 0
  /\ cd_iss = 0 /\ beat_cnt = 0 /\ code_pending = FALSE
  /\ mem_data = 0 /\ fed = << >>

ns == nblk_q * PE_N
code_base_short == base_q + nblk_q     \* mutation: one scale word per block
code_base == base_q + ns
in_valid_short ==     \* mutation: the last row is not driven
  state = "stream" /\ code_pending /\ beat_cnt + 1 < klen_q
in_valid == state = "stream" /\ code_pending /\ beat_cnt < klen_q

(* The address presented this clock; its word is in mem_data the next.     *)
Request(addr) == mem_data' = words[addr + 1]
NoRequest == UNCHANGED mem_data

Load(desc) ==
  /\ state = "idle"
  /\ base_q' = desc.base /\ klen_q' = desc.k_len /\ nblk_q' = desc.nblk
  /\ w_scale_q' = NoScales
  /\ sc_iss' = 0 /\ sc_cap' = 0 /\ cd_iss' = 0 /\ beat_cnt' = 0 /\ code_pending' = FALSE
  /\ rd_v' = FALSE /\ NoRequest
  /\ busy' = TRUE /\ state' = "scale"
  /\ UNCHANGED << words, rd_slot, fed >>

(* A scale word requested last clock lands in its slot.                    *)
Capture ==
  IF rd_v
  THEN w_scale_q' = [w_scale_q EXCEPT ![rd_slot] = mem_data % 2 ^ 16] /\ sc_cap' = sc_cap + 1
  ELSE UNCHANGED << w_scale_q, sc_cap >>

ReadScales ==
  /\ state = "scale"
  /\ Capture
  /\ IF sc_iss < ns
     THEN /\ Request(base_q + sc_iss)
          /\ rd_v' = TRUE /\ rd_slot' = sc_iss /\ sc_iss' = sc_iss + 1
     ELSE NoRequest /\ rd_v' = FALSE /\ UNCHANGED << rd_slot, sc_iss >>
  /\ state' = IF sc_cap = ns THEN "start" ELSE "scale"
  /\ UNCHANGED << words, descriptor, cd_iss, beat_cnt, code_pending, busy, fed >>

StartMatmul ==
  /\ state = "start"
  /\ Capture
  /\ Request(code_base)
  /\ rd_v' = FALSE /\ code_pending' = TRUE /\ cd_iss' = 1
  /\ fed' = Append(fed, [scales |-> w_scale_q, k_len |-> klen_q, rows |-> << >>])
  /\ state' = "stream"
  /\ UNCHANGED << words, descriptor, rd_slot, sc_iss, beat_cnt, busy >>

Stream ==
  /\ state = "stream"
  /\ Capture /\ rd_v' = FALSE
  /\ IF cd_iss < klen_q
     THEN Request(code_base + cd_iss) /\ code_pending' = TRUE /\ cd_iss' = cd_iss + 1
     ELSE NoRequest /\ code_pending' = FALSE /\ UNCHANGED cd_iss
  /\ IF in_valid
     THEN /\ beat_cnt' = beat_cnt + 1
          /\ fed' = [fed EXCEPT ![Len(fed)].rows = Append(@, mem_data)]
     ELSE UNCHANGED << beat_cnt, fed >>
  /\ state' = IF in_valid /\ beat_cnt = klen_q - 1 THEN "done" ELSE "stream"
  /\ UNCHANGED << words, descriptor, rd_slot, sc_iss, busy >>

Done ==
  /\ state = "done"
  /\ Capture /\ rd_v' = FALSE /\ NoRequest
  /\ busy' = FALSE /\ state' = "idle"
  /\ UNCHANGED << words, descriptor, rd_slot, sc_iss, cd_iss, beat_cnt, code_pending, fed >>

(* A reset drops the tile under way.                                       *)
LoaderReset ==
  /\ state' = "idle" /\ busy' = FALSE
  /\ base_q' = 0 /\ klen_q' = 0 /\ nblk_q' = 0 /\ w_scale_q' = NoScales
  /\ sc_iss' = 0 /\ sc_cap' = 0 /\ rd_v' = FALSE /\ rd_slot' = 0
  /\ cd_iss' = 0 /\ beat_cnt' = 0 /\ code_pending' = FALSE
  /\ fed' = IF state \in {"stream", "done"} THEN Front(fed) ELSE fed
  /\ UNCHANGED << words, mem_data >>

Clock == ReadScales \/ StartMatmul \/ Stream \/ Done
===============================================================================
