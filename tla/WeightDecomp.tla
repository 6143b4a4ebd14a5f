----------------------------- MODULE WeightDecomp -----------------------------
(***************************************************************************)
(* The compressed weights, from the host tools that pack them to the       *)
(* streaming decompressors.  First the offline compressors: length-limited *)
(* Huffman code lengths by package-merge and canonical codes (fp8_huff),   *)
(* one code per context of the previous byte (fp8_ctxpack), and the vector *)
(* files both generators write; a packed byte is the sequence of its bits, *)
(* first bit first.  Then weight_decomp (one table) and weight_decomp2 (a  *)
(* table per context), fed with vector files by a producer that may stall  *)
(* and drained by a consumer that may stall: a block is started, its       *)
(* tables are written entry by entry, its bytes are streamed, and the next *)
(* block starts after the end marker.                                      *)
(***************************************************************************)
EXTENDS Fp8Ref, SequencesExt, FiniteSetsExt

CONSTANTS
  MAXLEN,   \* longest code, 15 in the code
  BYTE      \* bits packed into a byte, 8 in the code

ASSUME CodeAssumption == MAXLEN \in Nat \ {0} /\ BYTE \in Nat \ {0}

EOB_SYM == 256
NCTX == 4
THRESH1 == 24
THRESH2 == 64
INIT_CTX == 0

(* The counter of the symbols at some places of a stream.                  *)
Counter(stream, places) ==
  [sym \in {stream[i] : i \in places} |-> Cardinality({i \in places : stream[i] = sym})]
Ascending(S) == SortSeq(SetToSeq(S), <)

(* Package-merge: L times, pair up the cheapest packages and merge the     *)
(* pairs with the single coins; a symbol's length is how often it is in    *)
(* the 2n-2 cheapest packages.  The sort is stable.                        *)
Coin(weights, i) == [w |-> weights[i], mem |-> [l \in DOMAIN weights |-> Flag(l = i)]]
Joined(x, y) == [w |-> x.w + y.w, mem |-> [l \in DOMAIN x.mem |-> x.mem[l] + y.mem[l]]]
Unsorted(list) == list     \* mutation: packages are not sorted
Stable(list) ==
  LET cheaper(i, l) == list[i].w < list[l].w \/ (list[i].w = list[l].w /\ i < l)
      perm == SortSeq([i \in DOMAIN list |-> i], cheaper)
  IN  [i \in DOMAIN list |-> list[perm[i]]]

package_merge(weights, L) ==
  LET n     == Len(weights)
      coins == Stable([i \in 1 .. n |-> Coin(weights, i)])
      packages[r \in 0 .. L] ==
        IF r = 0 THEN << >>
        ELSE LET prev == packages[r - 1]
             IN  Stable([i \in 1 .. Len(prev) \div 2 |-> Joined(prev[2 * i - 1], prev[2 * i])]
                        \o coins)
      chosen == SubSeq(packages[L], 1, 2 * n - 2)
  IN  IF n = 1 THEN << 1 >>
      ELSE [i \in 1 .. n |-> FoldSeq(LAMBDA p, c : c + p.mem[i], 0, chosen)]

(* Codes of one length are consecutive, in symbol order.                   *)
canonical(lengths) ==
  LET syms  == DOMAIN lengths
      maxl  == Max({lengths[sym] : sym \in syms})
      count == [l \in 0 .. maxl |-> Cardinality({sym \in syms : lengths[sym] = l})]
      first[l \in 1 .. maxl] == IF l = 1 THEN 0 ELSE (first[l - 1] + count[l - 1]) * 2
      before(x, y) == lengths[x] < lengths[y] \/ (lengths[x] = lengths[y] /\ x < y)
  IN  [codes |-> [sym \in syms |->
                    [val |-> first[lengths[sym]]
                             + Cardinality({x \in syms : lengths[x] = lengths[sym] /\ x < sym}),
                     len |-> lengths[sym]]],
       order |-> SortSeq(Ascending(syms), before),
       count |-> count]

build_code_hist(hist) ==
  LET syms == Ascending(DOMAIN hist)
      Ls == package_merge([i \in DOMAIN syms |-> hist[syms[i]]], MAXLEN)
  IN  canonical([sym \in DOMAIN hist |->
        IF Len(syms) = 1 THEN 1 ELSE Ls[CHOOSE i \in DOMAIN syms : syms[i] = sym]])

(* Most significant bit first, the last byte filled up with zeros.         *)
CodeBits(code) == [i \in 1 .. code.len |-> Bit(code.val, code.len - i)]
Bytes(bits) ==
  LET fill == (BYTE - (Len(bits) % BYTE)) % BYTE
      padded == bits \o [i \in 1 .. fill |-> 0]
  IN  [b \in 1 .. Len(padded) \div BYTE |-> SubSeq(padded, (b - 1) * BYTE + 1, b * BYTE)]

(* fp8_huff: one code for the block and its end marker.                    *)
build_code(block) ==
  LET stream == block \o << EOB_SYM >> IN build_code_hist(Counter(stream, DOMAIN stream))

compress(block) ==
  LET code == build_code(block)
      stream == block \o << EOB_SYM >>
  IN  [comp |-> Bytes(FlattenSeq([i \in DOMAIN stream |-> CodeBits(code.codes[stream[i]])])),
       tables |-> [c \in {0} |-> [order |-> code.order, count |-> code.count]]]

(* fp8_ctxpack: the class of the previous byte's magnitude selects a code. *)
ctxfn(prev_byte) ==
  LET m == prev_byte % 128
  IN  IF m = 0 THEN 0 ELSE IF m < THRESH1 THEN 1 ELSE IF m < THRESH2 THEN 2 ELSE 3

context_compress(block) ==
  LET stream == block \o << EOB_SYM >>
      ctx(i) == IF i = 1 THEN INIT_CTX ELSE ctxfn(stream[i - 1])
      places(c) == {i \in DOMAIN stream : ctx(i) = c}
      used == {c \in 0 .. NCTX - 1 : places(c) # {}}
      code == [c \in used |-> build_code_hist(Counter(stream, places(c)))]
  IN  [comp |-> Bytes(FlattenSeq([i \in DOMAIN stream |-> CodeBits(code[ctx(i)].codes[stream[i]])])),
       tables |-> [c \in used |-> [order |-> code[c].order, count |-> code[c].count]]]

(* The entries of a vector file: per context the counts of the lengths     *)
(* 1 .. MAXLEN and the symbols in code order, zeros and nothing for a      *)
(* context without a code; the packed bytes; the words the block encodes.  *)
emit_counts_line(table) ==
  [l \in 1 .. MAXLEN |-> IF l \in DOMAIN table.count THEN table.count[l] ELSE 0]
NoTable == [order |-> << >>, count |-> << >>]

EncodedBytes(vals) ==
  [i \in DOMAIN vals |-> LET c == gen_fp32_to_fp8e4m3(vals[i]) IN c.s * 128 + c.e * 8 + c.m]

Vector(contexts, packed, vals) ==
  [contexts |-> contexts, comp |-> packed.comp, vals |-> vals,
   tables |-> [c \in 0 .. contexts - 1 |->
     LET t == IF c \in DOMAIN packed.tables THEN packed.tables[c] ELSE NoTable
     IN  [counts |-> emit_counts_line(t), order |-> t.order]]]

(* do_gen of fp8_gen and of fp8_ctxpack, for one case.                     *)
gen_vector(vals) == Vector(1, compress(EncodedBytes(vals)), vals)
ctx_vector(vals) == Vector(NCTX, context_compress(EncodedBytes(vals)), vals)
-------------------------------------------------------------------------------
CONSTANTS
  Case,            \* sequences of blocks; a block is [contexts, vals]
  BUFW,            \* bits of the bit buffer
  DECODER_RESETS   \* bound: resets in a behaviour

ASSUME BufferAssumption == BUFW >= BYTE /\ DECODER_RESETS \in Nat

VARIABLES
  todo,       \* vectors still to be decoded, the current one first
  loads,      \* table writes still to be done for the current block
  pi,         \* packed bytes accepted
  count_table, symbol_table,
  bitbuf,     \* the valid bits, next bit first
  ccode, cfirst, cindex, clen, ctx,   \* the codeword being read and its context
  out_byte, out_valid, eob,           \* eob also stands for done
  got,        \* bytes taken by the consumer in this block
  resets      \* resets so far

decompVars == << todo, loads, pi, count_table, symbol_table, bitbuf,
                 ccode, cfirst, cindex, clen, ctx, out_byte, out_valid, eob, got, resets >>
codeword == << ccode, cfirst, cindex, clen >>
tables == << count_table, symbol_table >>

Unloaded == -1      \* the tables are memories without a reset
Entries == 0 .. 7   \* of a symbol table, 512 in the code

VectorOf(block) == IF block.contexts = 1 THEN gen_vector(block.vals) ELSE ctx_vector(block.vals)

(* The writes of the table-load port, context by context: the counts from  *)
(* length 0 up, then the symbols.                                          *)
Writes(v) ==
  LET counts(c) == [i \in 1 .. MAXLEN + 1 |->
        [sel |-> "count", ctx |-> c, addr |-> i - 1,
         data |-> IF i = 1 THEN 0 ELSE v.tables[c].counts[i - 1]]]
      symbols(c) == [i \in DOMAIN v.tables[c].order |->
        [sel |-> "symbol", ctx |-> c, addr |-> i - 1, data |-> v.tables[c].order[i]]]
  IN  FlattenSeq([c \in 1 .. v.contexts |-> counts(c - 1) \o symbols(c - 1)])

FirstCodeword == ccode' = 0 /\ cfirst' = 0 /\ cindex' = 0 /\ clen' = 1

DecompReset ==
  /\ pi = 0 /\ got = << >> /\ resets = 0
  /\ count_table = [c \in 0 .. NCTX - 1 |-> [l \in 0 .. MAXLEN |-> Unloaded]]
  /\ symbol_table = [c \in 0 .. NCTX - 1 |-> [i \in Entries |-> Unloaded]]
  /\ bitbuf = << >> /\ ccode = 0 /\ cfirst = 0 /\ cindex = 0 /\ clen = 1
  /\ ctx = INIT_CTX /\ out_byte = 0 /\ out_valid = FALSE /\ eob = FALSE

DecompInit ==
  /\ \E blocks \in Case : todo = [i \in DOMAIN blocks |-> VectorOf(blocks[i])]
  /\ loads = Writes(todo[1])
  /\ DecompReset

LoadTable ==
  /\ loads # << >>
  /\ LET w == Head(loads)
     IN  IF w.sel = "count"
         THEN count_table' = [count_table EXCEPT ![w.ctx][w.addr] = w.data] /\ UNCHANGED symbol_table
         ELSE symbol_table' = [symbol_table EXCEPT ![w.ctx][w.addr] = w.data] /\ UNCHANGED count_table
  /\ loads' = Tail(loads)
  /\ UNCHANGED << todo, pi, bitbuf, codeword, ctx, out_byte, out_valid, eob, got, resets >>

(* in_ready: room for a whole byte, block not finished.                    *)
in_ready == Len(bitbuf) <= BUFW - BYTE /\ ~eob
NextContext_kept(sym) == ctx     \* mutation: the context is never updated
NextContext(sym) == IF Head(todo).contexts = 1 THEN 0 ELSE ctxfn(sym)

(* One bit of the canonical recurrence.                                    *)
Advance(code_L, cnt) ==
  /\ ccode' = code_L /\ cfirst' = (cfirst + cnt) * 2
  /\ cindex' = cindex + cnt /\ clen' = clen + 1
  /\ UNCHANGED << ctx, out_byte, eob >>

Emit(sym) ==
  /\ FirstCodeword
  /\ IF sym = EOB_SYM
     THEN eob' = TRUE /\ UNCHANGED << ctx, out_byte >>
     ELSE out_byte' = sym /\ ctx' = NextContext(sym) /\ UNCHANGED eob

DecodeBit ==
  LET code_L == 2 * ccode + Head(bitbuf)
      cnt    == count_table[ctx][clen]
  IN  IF code_L - cfirst < cnt
      THEN Emit(symbol_table[ctx][cindex + code_L - cfirst])
      ELSE Advance(code_L, cnt)
EmitsByte ==
  LET code_L == 2 * ccode + Head(bitbuf)
  IN  /\ code_L - cfirst < count_table[ctx][clen]
      /\ symbol_table[ctx][cindex + code_L - cfirst] # EOB_SYM

(* A clock edge of the streaming phase.                                    *)
DecodeCycle(in_valid, out_ready) ==
  LET comp   == Head(todo).comp
      do_bit == bitbuf # << >> /\ (~out_valid \/ out_ready) /\ ~eob
      ld     == in_valid /\ in_ready
      rest   == IF do_bit THEN Tail(bitbuf) ELSE bitbuf
  IN  /\ loads = << >> /\ (in_valid => pi < Len(comp))
      /\ IF do_bit THEN DecodeBit ELSE UNCHANGED << codeword, ctx, out_byte, eob >>
      /\ out_valid' = IF do_bit /\ EmitsByte THEN TRUE ELSE out_valid /\ ~out_ready
      /\ bitbuf' = IF ld THEN rest \o comp[pi + 1] ELSE rest
      /\ pi' = IF ld THEN pi + 1 ELSE pi
      /\ got' = IF out_valid /\ out_ready THEN Append(got, out_byte) ELSE got
      /\ UNCHANGED << todo, loads, tables, resets >>

Streaming == \E in_valid, out_ready \in BOOLEAN : DecodeCycle(in_valid, out_ready)

(* The start pulse of the next block; the tables keep the old block's.     *)
Start ==
  /\ eob /\ ~out_valid /\ Len(todo) > 1
  /\ todo' = Tail(todo) /\ loads' = Writes(todo[2]) /\ pi' = 0 /\ got' = << >>
  /\ FirstCodeword /\ bitbuf' = << >> /\ ctx' = INIT_CTX
  /\ out_valid' = FALSE /\ eob' = FALSE
  /\ UNCHANGED << tables, out_byte, resets >>

(* A reset clears everything but the tables; the block begins again.       *)
DecoderReset ==
  /\ resets < DECODER_RESETS /\ resets' = resets + 1
  /\ loads' = Writes(Head(todo)) /\ pi' = 0 /\ got' = << >>
  /\ FirstCodeword /\ bitbuf' = << >> /\ ctx' = INIT_CTX
  /\ out_byte' = 0 /\ out_valid' = FALSE /\ eob' = FALSE
  /\ UNCHANGED << todo, tables >>

DecompNext == LoadTable \/ Streaming \/ Start \/ DecoderReset

(* Loads go on every clock; producer and consumer stall, not for ever.     *)
DecompFair ==
  /\ WF_decompVars(LoadTable) /\ WF_decompVars(Start)
  /\ WF_decompVars(DecodeCycle(FALSE, TRUE))
  /\ WF_decompVars(DecodeCycle(TRUE, TRUE))

(* Lossless: what comes out is, byte for byte and then in full, the golden *)
(* E4M3 encoding of the words the vector was built from; the bit buffer    *)
(* never overflows, and no codeword outgrows its table.                    *)
GoldenBytes ==
  [i \in DOMAIN Head(todo).vals |->
     LET c == fp32_to_fp8e4m3(Head(todo).vals[i]) IN c.s * 128 + c.e * 8 + c.m]
Lossless ==
  /\ Len(bitbuf) <= BUFW /\ clen <= MAXLEN
  /\ IsPrefix(got \o IF out_valid THEN << out_byte >> ELSE << >>, GoldenBytes)
  /\ eob => got \o (IF out_valid THEN << out_byte >> ELSE << >>) = GoldenBytes

(* Every table of a vector is an optimal prefix code of bounded length:    *)
(* complete unless it has a single symbol, and no assignment of lengths    *)
(* up to MAXLEN that a prefix code can have packs the block into fewer     *)
(* bits.                                                                   *)
LengthsOf(table) ==
  FlattenSeq([l \in 1 .. MAXLEN |-> [i \in 1 .. table.counts[l] |-> l]])
KraftSum(lens) == FoldSeq(LAMBDA l, c : c + 2 ^ (MAXLEN - l), 0, lens)
Uses(v, c) ==
  LET bytes == EncodedBytes(v.vals)
      stream == bytes \o << EOB_SYM >>
      at(i) == IF v.contexts = 1 \/ i = 1 THEN 0 ELSE ctxfn(stream[i - 1])
      n(sym) == Cardinality({i \in DOMAIN stream : stream[i] = sym /\ at(i) = c})
  IN  [i \in DOMAIN v.tables[c].order |-> n(v.tables[c].order[i])]
Cost(uses, lens) == FoldSeq(LAMBDA i, c : c + uses[i] * lens[i], 0, [i \in DOMAIN lens |-> i])
AtStart == pi = 0 /\ Len(loads) = Len(Writes(Head(todo)))
CodesAreOptimal == AtStart =>
  \A c \in DOMAIN Head(todo).tables :
    LET lens == LengthsOf(Head(todo).tables[c])
        uses == Uses(Head(todo), c)
    IN  /\ Len(lens) = Len(Head(todo).tables[c].order)
        /\ Len(lens) > 1 => KraftSum(lens) = 2 ^ MAXLEN
        /\ \A other \in [DOMAIN lens -> 1 .. MAXLEN] :
             KraftSum(other) <= 2 ^ MAXLEN => Cost(uses, lens) <= Cost(uses, other)

(* Every block is decoded to its end marker.                               *)
BlocksEnd == <>(Len(todo) = 1 /\ eob /\ ~out_valid)
===============================================================================
