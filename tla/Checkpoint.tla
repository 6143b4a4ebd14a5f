------------------------------ MODULE Checkpoint ------------------------------
(***************************************************************************)
(* From a checkpoint file to the matmul.  The bridge ckpt_pack reads a     *)
(* safetensors file, narrows and transposes its FP8 weights, lays them out *)
(* tile by tile in the word memory weight_loader reads, and unpacks the    *)
(* image again to check itself; a host then hands the tile descriptors to  *)
(* the loader one after another.  A raw tensor is its sequence of bytes;   *)
(* one element of more than a byte is cut into numbered parts.             *)
(***************************************************************************)
EXTENDS WeightLoader, Fp8Ref, FiniteSetsExt

CONSTANT Model       \* checkpoints: their tensors in file order

(* A scale is a bf16 code in the low 16 bits of a word.                    *)
ASSUME ScaleAssumption == BM = 7 /\ EB = 8

(* An entry is [layer, part, dtype, shape, elts]; its name is the layer    *)
(* with "weight", "weight_scale_inv" or something else appended.           *)
Name(t) == << t.layer, t.part >>
ELT(dtype) == IF dtype \in {"F8_E4M3", "I8"} THEN 1 ELSE IF dtype \in {"BF16", "F16"} THEN 2 ELSE 4
Raw(dtype, elts) ==
  [j \in 1 .. ELT(dtype) * Len(elts) |->
     << elts[(j - 1) \div ELT(dtype) + 1], ((j - 1) % ELT(dtype)) + 1 >>]

(* Names are distinct.  A weight with a scale tensor has one byte per code *)
(* and at most KMAX columns, and a scale for every block.                  *)
WellFormed(m) ==
  /\ m \in Seq(Range(m))
  /\ \A i \in DOMAIN m : m[i].elts \in Seq(Range(m[i].elts))
  /\ \A i, j \in DOMAIN m : Name(m[i]) = Name(m[j]) => i = j
  /\ \A i, j \in DOMAIN m :
       (m[i].layer = m[j].layer /\ m[i].part = "weight" /\ m[j].part = "weight_scale_inv") =>
         LET n == m[i].shape[1]
             k == m[i].shape[2]
         IN  /\ n \in Nat \ {0} /\ k \in 1 .. KMAX
             /\ m[i].dtype = "F8_E4M3" /\ Len(m[i].elts) = n * k /\ Range(m[i].elts) \subseteq 0 .. 255
             /\ m[j].shape = << Ceil(n, BLK), Ceil(k, BLK) >>
             /\ Len(m[j].elts) = Ceil(n, BLK) * Ceil(k, BLK)
             /\ \/ m[j].dtype = "F32" /\ Range(m[j].elts) \subseteq Float
                \/ m[j].dtype = "BF16" /\ Range(m[j].elts) \subseteq BFloat
ASSUME ModelAssumption == \A m \in Model : WellFormed(m)

(* The blob is the tensors' bytes end to end, the header their offsets.    *)
save_safetensors(entries) ==
  LET start[i \in 1 .. Len(entries) + 1] ==
        IF i = 1 THEN 0
        ELSE start[i - 1] + ELT(entries[i - 1].dtype) * Len(entries[i - 1].elts)
  IN  [header |-> [i \in DOMAIN entries |->
                     [layer |-> entries[i].layer, part |-> entries[i].part,
                      dtype |-> entries[i].dtype, shape |-> entries[i].shape,
                      from |-> start[i], to |-> start[i + 1]]],
       blob |-> FlattenSeq([i \in DOMAIN entries |-> Raw(entries[i].dtype, entries[i].elts)])]

load_safetensors(file) ==
  [i \in DOMAIN file.header |->
     LET h == file.header[i]
     IN  [layer |-> h.layer, part |-> h.part, dtype |-> h.dtype, shape |-> h.shape,
          raw |-> SubSeq(file.blob, h.from + 1, h.to)]]

(* struct.unpack regroups the bytes; a group that is not the parts of one  *)
(* element in order would be another number.                               *)
Garbled == [s |-> 0, e |-> EMAX, m |-> 1]
Regrouped(raw, width) ==
  [i \in 1 .. Len(raw) \div width |->
     LET group == SubSeq(raw, (i - 1) * width + 1, i * width)
     IN  IF \A part \in 1 .. width : group[part] = << group[1][1], part >>
         THEN group[1][1] ELSE Garbled]
fp8_bytes_to_codes(raw) == [i \in DOMAIN raw |-> raw[i][1]]
f32_bytes_to_u32(raw) == Regrouped(raw, 4)
bf16_bytes_to_codes(raw) == Regrouped(raw, 2)

Word16(b) == b.s * 2 ^ 15 + b.e * 2 ^ 7 + b.m
scale_tensor_to_bf16(dtype, raw) ==
  IF dtype = "F32"
  THEN LET u == f32_bytes_to_u32(raw) IN [i \in DOMAIN u |-> Word16(fp32_to_bf16(u[i]))]
  ELSE LET u == bf16_bytes_to_codes(raw) IN [i \in DOMAIN u |-> Word16(u[i])]

Rows(flat, width, n) == [r \in 1 .. n |-> SubSeq(flat, (r - 1) * width + 1, r * width)]

(* A ".weight" with a scale tensor is an FP8 weight; scale tensors are     *)
(* skipped; everything else is the bf16 tail.                              *)
ScaleOf(tensors, t) ==
  {u \in Range(tensors) : u.layer = t.layer /\ u.part = "weight_scale_inv"}
IsWeight(tensors, t) == t.part = "weight" /\ ScaleOf(tensors, t) # {}
Classified(tensors, t) ==
  LET sc == CHOOSE u \in ScaleOf(tensors, t) : TRUE
  IN  [name |-> Name(t), N |-> t.shape[1], K |-> t.shape[2],
       n_ob |-> sc.shape[1], n_kb |-> sc.shape[2],
       fp8 |-> Rows(fp8_bytes_to_codes(t.raw), t.shape[2], t.shape[1]),
       scale |-> Rows(scale_tensor_to_bf16(sc.dtype, sc.raw), sc.shape[2], sc.shape[1])]
load_checkpoint(tensors) ==
  LET read[i \in 0 .. Len(tensors)] ==
        IF i = 0 THEN [weights |-> << >>, tail |-> << >>]
        ELSE LET t == tensors[i]
                 prev == read[i - 1]
             IN  IF t.part = "weight_scale_inv" THEN prev
                 ELSE IF IsWeight(tensors, t)
                 THEN [prev EXCEPT !.weights = Append(@, Classified(tensors, t))]
                 ELSE [prev EXCEPT !.tail = Append(@, t)]
  IN  read[Len(tensors)]

(* One tile: the scales by K-block and column, then a word per row with a  *)
(* code in each lane; a column past the weight's last is zero.             *)
ScaleWord(w, col, bj) == IF col < w.N THEN w.scale[col \div BLK + 1][bj + 1] ELSE 0
CodeWord(w, col0, k) ==
  MapThenSumSet(LAMBDA pj : (IF col0 + pj < w.N THEN w.fp8[col0 + pj + 1][k + 1] ELSE 0) * 2 ^ (8 * pj),
                0 .. PE_N - 1)
TileWord(w, col0, at) ==
  LET scales == Ceil(w.K, BLK) * PE_N
  IN  IF at < scales THEN ScaleWord(w, col0 + (at % PE_N), at \div PE_N)
      ELSE CodeWord(w, col0, at - scales)

ColumnTiles_full(w) == w.N \div PE_N     \* mutation: a partly filled last tile is left out
ColumnTiles(w) == Ceil(w.N, PE_N)

pack_weight(w) ==
  LET size == Ceil(w.K, BLK) * PE_N + w.K
      tiles == ColumnTiles(w)
  IN  [words |-> [i \in 1 .. tiles * size |->
                    TileWord(w, ((i - 1) \div size) * PE_N, (i - 1) % size)],
       descs |-> [ct \in 1 .. tiles |->
                    [name |-> w.name, base |-> (ct - 1) * size, k_len |-> w.K,
                     nblk |-> Ceil(w.K, BLK), col0 |-> (ct - 1) * PE_N]]]

(* The image of all weights, each relocated behind the ones before it.     *)
Relocated(descs, off) == [i \in DOMAIN descs |-> [descs[i] EXCEPT !.base = @ + off]]
Appended(image, w) ==
  LET p == pack_weight(w)
  IN  [words |-> image.words \o p.words,
       descs |-> image.descs \o Relocated(p.descs, Len(image.words))]
EmptyImage == [words |-> << >>, descs |-> << >>]

Lane(word, pj) == (word \div 2 ^ (8 * pj)) % 256

(* Unpacking keeps the first scale it meets for an out-block.              *)
unpack_image(store, descs, name) ==
  LET tiles == {i \in DOMAIN descs : descs[i].name = name}
      first == descs[Min(tiles)]
      N == Max({descs[i].col0 : i \in tiles}) + PE_N
      tile(col) == descs[CHOOSE i \in tiles : col - descs[i].col0 \in 0 .. PE_N - 1]
      word(col, at) == store[tile(col).base + at + 1]
  IN  [N |-> N,
       fp8 |-> [col \in 1 .. N |-> [k \in 1 .. first.k_len |->
                  Lane(word(col - 1, first.nblk * PE_N + k - 1), col - 1 - tile(col - 1).col0)]],
       scale |-> [ob \in 1 .. Ceil(N, BLK) |-> [bj \in 1 .. first.nblk |->
                  LET col == (ob - 1) * BLK      \* the block's first column
                  IN  word(col, (bj - 1) * PE_N + col - tile(col).col0) % 2 ^ 16]]]

(* The codes of the real columns and every scale of the weight.            *)
roundtrip_check(w, recon) ==
  /\ \A col \in 1 .. w.N, k \in 1 .. w.K : recon.fp8[col][k] = w.fp8[col][k]
  /\ \A ob \in 1 .. w.n_ob, bj \in 1 .. w.n_kb : recon.scale[ob][bj] = w.scale[ob][bj]
------------------------------------------------------------------------------
CONSTANT LOADER_RESETS     \* bound: resets in a behaviour

VARIABLES
  model,     \* the checkpoint's tensors
  step,      \* "save", "read", "load", "pack", "check", "ok", "mismatch"
  file,      \* the safetensors file
  tensors,   \* its tensors, as read back
  loaded,    \* load_checkpoint's weights
  image,     \* the image and the descriptors of the weights packed so far
  packed,    \* how many those are
  issued,    \* descriptors given to the loader
  restarts   \* resets so far

packer == << model, step, file, tensors, loaded, image, packed >>
pathVars == << packer, issued, restarts, loaderVars >>

PathReset ==
  /\ step = "save" /\ file = << >> /\ tensors = << >>
  /\ loaded = << >> /\ image = EmptyImage /\ packed = 0 /\ issued = 0 /\ restarts = 0
  /\ words = << >> /\ LoaderInit

PathInit == model \in Model /\ PathReset

SaveFile ==
  /\ step = "save"
  /\ file' = save_safetensors(model)
  /\ step' = "read"
  /\ UNCHANGED << model, tensors, loaded, image, packed, issued, restarts, loaderVars >>

ReadFile ==
  /\ step = "read"
  /\ tensors' = load_safetensors(file)
  /\ step' = "load"
  /\ UNCHANGED << model, file, loaded, image, packed, issued, restarts, loaderVars >>

Classify ==
  /\ step = "load"
  /\ loaded' = load_checkpoint(tensors).weights
  /\ step' = "pack"
  /\ UNCHANGED << model, file, tensors, image, packed, issued, restarts, loaderVars >>

PackNext ==
  /\ step = "pack" /\ packed < Len(loaded)
  /\ image' = Appended(image, loaded[packed + 1])
  /\ packed' = packed + 1
  /\ UNCHANGED << model, step, file, tensors, loaded, issued, restarts, loaderVars >>

(* The file is written, read back and compared with what was loaded.       *)
WriteImage ==
  /\ step = "pack" /\ packed = Len(loaded)
  /\ words' = image.words
  /\ step' = "check"
  /\ UNCHANGED << model, file, tensors, loaded, image, packed, issued, restarts, loader >>

CheckImage ==
  /\ step = "check"
  /\ step' = IF \A i \in DOMAIN loaded :
                  roundtrip_check(loaded[i], unpack_image(words, image.descs, loaded[i].name))
             THEN "ok" ELSE "mismatch"
  /\ UNCHANGED << model, file, tensors, loaded, image, packed, issued, restarts, loaderVars >>

(* The host issues a descriptor when the loader is not busy.               *)
IssueTile ==
  /\ step = "ok" /\ ~busy /\ issued < Len(image.descs)
  /\ Load(image.descs[issued + 1])
  /\ issued' = issued + 1
  /\ UNCHANGED << packer, restarts >>

(* After a reset the host gives the descriptor under way again.            *)
ResetLoader ==
  /\ step = "ok" /\ restarts < LOADER_RESETS /\ restarts' = restarts + 1
  /\ LoaderReset
  /\ issued' = IF busy THEN issued - 1 ELSE issued
  /\ UNCHANGED packer

LoaderClock == Clock /\ UNCHANGED << packer, issued, restarts >>

PathNext == \/ SaveFile \/ ReadFile \/ Classify \/ PackNext \/ WriteImage \/ CheckImage
            \/ IssueTile \/ LoaderClock \/ ResetLoader
PathFair == WF_pathVars(PathNext)

(* What the checkpoint itself says, element by element.                    *)
TensorOf(name, part) ==
  model[CHOOSE i \in DOMAIN model : model[i].layer = name[1] /\ model[i].part = part]
HfWeight(name, n, k) == LET t == TensorOf(name, "weight") IN t.elts[n * t.shape[2] + k + 1]
HfScale(name, n, bj) ==
  LET t == TensorOf(name, "weight_scale_inv")
      x == t.elts[(n \div BLK) * t.shape[2] + bj + 1]
  IN  Word16(IF t.dtype = "F32" THEN fp32_to_bf16(x) ELSE x)
Outputs(name) == TensorOf(name, "weight").shape[1]

(* The matmul is given, for every tile, the checkpoint's own numbers: row  *)
(* k holds column n's weight hf[n][k] in column n's lane, and slot         *)
(* bj*PE_N + pj the scale of its block; padding columns and unused banks   *)
(* are zero.                                                               *)
FedTile(d, tile) ==
  /\ tile.k_len = d.k_len /\ Len(tile.rows) <= d.k_len
  /\ \A pj \in 0 .. PE_N - 1 :
       LET n == d.col0 + pj
           real == n < Outputs(d.name)
       IN  /\ \A k \in DOMAIN tile.rows :
                Lane(tile.rows[k], pj) = IF real THEN HfWeight(d.name, n, k - 1) ELSE 0
           /\ \A bj \in 0 .. NB - 1 :
                tile.scales[bj * PE_N + pj] =
                  IF real /\ bj < d.nblk THEN HfScale(d.name, n, bj) ELSE 0
MatmulGetsCheckpoint ==
  \A i \in DOMAIN fed :
    /\ FedTile(image.descs[i], fed[i])
    /\ (i < Len(fed) \/ ~busy) => Len(fed[i].rows) = fed[i].k_len

(* Every output column of every FP8 weight of the file is in one tile, and *)
(* nothing else is packed: scale tensors and the bf16 tail are left out;   *)
(* and the self-test finds nothing to reject.                              *)
IsFp8(t) == t.part = "weight" /\ \E i \in DOMAIN model :
              model[i].layer = t.layer /\ model[i].part = "weight_scale_inv"
ImageIsComplete ==
  /\ step # "mismatch"
  /\ step = "check" =>
      \A i \in DOMAIN model :
        LET tiles == {j \in DOMAIN image.descs : image.descs[j].name = Name(model[i])}
        IN  IF IsFp8(model[i])
            THEN \A n \in 0 .. model[i].shape[1] - 1 :
                   \E j \in tiles : /\ n - image.descs[j].col0 \in 0 .. PE_N - 1
                                    /\ \A l \in tiles \ {j} : n - image.descs[l].col0 \notin 0 .. PE_N - 1
            ELSE tiles = {}

(* Every tile is streamed.                                                 *)
AllTilesFed == <>(step = "ok" /\ issued = Len(image.descs) /\ ~busy)
===============================================================================
