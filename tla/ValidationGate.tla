---------------------------- MODULE ValidationGate ----------------------------
(***************************************************************************)
(* The product gate modal_validate: a local entry point runs each function *)
(* in a container of its own.  A container sees the weight volume as it    *)
(* was last committed, fetches the checkpoint when it looks absent, and    *)
(* commits it; a container that fails loses what it did not commit.  The   *)
(* operator tier compares single matmuls; the full-model tier patches the  *)
(* model's FP8 Linears and compares its tokens with the golden's.          *)
(***************************************************************************)
EXTENDS Integers, Sequences, FiniteSets, FiniteSetsExt, Functions

(* The comparison helpers, on sequences of floats: numbers, the two        *)
(* infinities and NaN, with Python's >, == and abs(x - y).  A rate is kept *)
(* as its numerator: hits of n.                                            *)
CONSTANTS NaN, Inf, NegInf

ASSUME FloatAssumption ==
  /\ NaN \notin Int /\ Inf \notin Int /\ NegInf \notin Int
  /\ NaN # Inf /\ NaN # NegInf /\ Inf # NegInf

Float == Int \cup {NaN, Inf, NegInf}

Above(x, y) ==
  /\ x # NaN /\ y # NaN /\ x # y
  /\ x = Inf \/ y = NegInf \/ (x \in Int /\ y \in Int /\ x > y)
Equal(x, y) == x = y /\ x # NaN
AbsDiff(x, y) ==
  IF x \in Int /\ y \in Int THEN IF x >= y THEN x - y ELSE y - x
  ELSE IF x = y \/ x = NaN \/ y = NaN THEN NaN ELSE Inf

argmax_last(row) ==     \* mutation: the last of the largest
  LET best[i \in 1 .. Len(row)] ==
        IF i = 1 THEN 1 ELSE IF Above(row[best[i - 1]], row[i]) THEN best[i - 1] ELSE i
  IN  best[Len(row)]

(* The first of the largest; a NaN is never passed nor passes another.     *)
argmax(row) ==
  LET best[i \in 1 .. Len(row)] ==
        IF i = 1 THEN 1 ELSE IF Above(row[i], row[best[i - 1]]) THEN i ELSE best[i - 1]
  IN  best[Len(row)]

(* Lists of different lengths raise; empty lists match.                    *)
Comparable(golden, cand) == Len(golden) = Len(cand)
Hits(golden, cand) == Cardinality({i \in DOMAIN golden : golden[i] = cand[i]})
FullMatch(golden, cand) == golden = << >> \/ Hits(golden, cand) = Len(golden)

(* A descending stable sort keeps the order of equals: i is among the      *)
(* first k when fewer than k indices sort before it.  With a NaN in the    *)
(* row the order is the sorting algorithm's, which is not modelled.        *)
topk_idx(row, k) ==
  {i \in DOMAIN row :
     Cardinality({l \in DOMAIN row : Above(row[l], row[i]) \/ (row[l] = row[i] /\ l < i)}) < k}
TopkDepth(g, c, k) == Min({k, Len(g), Len(c)})
topk_overlap(g, c, k) ==
  Cardinality(topk_idx(g, TopkDepth(g, c, k)) \cap topk_idx(c, TopkDepth(g, c, k)))

(* The sum of squares stands for the root mean square, and the largest     *)
(* relative error is the pair <<difference, magnitude>> it is a ratio of.  *)
(* max() keeps what it has when it meets a NaN, a sum becomes NaN; an      *)
(* infinite golden value has no ratio.                                     *)
Largest(S) == CHOOSE v \in S : \A w \in S : ~Above(w, v)
error_stats(golden, cand) ==
  LET D == DOMAIN golden
      d(i) == AbsDiff(golden[i], cand[i])
      mag(i) == AbsDiff(golden[i], 0)
      undefined == {i \in D : d(i) = NaN}
      infinite == {i \in D : d(i) = Inf}
      rated == {i \in D \ undefined : golden[i] \in Int /\ golden[i] # 0}
      exceeds(l, i) == d(i) # Inf /\ (d(l) = Inf \/ d(l) * mag(i) > d(i) * mag(l))
  IN  [n       |-> Len(golden),
       exact   |-> Cardinality({i \in D : Equal(golden[i], cand[i])}),
       max_abs |-> Largest({0} \cup {d(i) : i \in D \ undefined}),
       sum_sq  |-> IF undefined # {} THEN NaN ELSE IF infinite # {} THEN Inf
                   ELSE SumFunction([i \in D |-> d(i) * d(i)]),
       max_rel |-> IF rated = {} THEN << 0, 1 >>
                   ELSE LET w == CHOOSE i \in rated : \A l \in rated : ~exceeds(l, i)
                        IN  << d(w), mag(w) >>]
------------------------------------------------------------------------------
CONSTANTS
  Shard,      \* the checkpoint's safetensors files
  Config,     \* config.json
  Token,      \* next-token ids
  Corpus,     \* the prompts
  Linear,     \* the model's submodules that hold a weight
  N_WEIGHTS,  \* weights the operator tier samples, 6 in the code
  Product,    \* matmul outcomes considered: [ours, ref, live] of a weight
  MAX_FAILS   \* bound: containers lost

(* ours and ref hold a row per token; live are the tokens whose activation *)
(* row is not all zero.                                                    *)
ASSUME GateAssumption ==
  /\ Shard # {} /\ Config \notin Shard
  /\ IsFiniteSet(Linear)
  /\ \A p \in Product :
       LET m == Len(p.ref)
           n == Len(p.ref[1])
       IN  /\ {m, n} \subseteq Nat \ {0}
           /\ {p.ours, p.ref} \subseteq [1 .. m -> [1 .. n -> Float]]
           /\ p.live \subseteq 1 .. m
  /\ Corpus \in Seq(STRING) \ {<< >>}
  /\ N_WEIGHTS \in Nat \ {0} /\ MAX_FAILS \in Nat

VARIABLES
  tier, prompts,  \* arguments of main; prompts is a prefix of the corpus
  model,          \* per submodule: has a scale, is kept in FP8, fits the contract
  native,         \* per engine, the unmodified model's next tokens
  fn, at,         \* function main runs, and the step it is at
  committed,      \* files of the volume
  mounted,        \* files the running container sees
  fails,          \* containers lost
  results,        \* tier1_operator(): a record per sampled weight
  golden,         \* reference(): tokens and the engine that gave them
  tokens,         \* tier2_fullmodel(): its tokens
  patched,        \* submodules whose forward was replaced
  ran,            \* submodules whose matmul the contract computed
  report          \* the printed result

request == << tier, prompts, model, native >>
place   == << fn, at >>
volume  == << committed, mounted, fails >>
outcome == << golden, tokens, patched, ran, report >>
gateVars == << request, place, volume, results, outcome >>

File == Shard \cup {Config}
Engine == {"vllm", "transformers"}
NoGolden == [tokens |-> << >>, engine |-> "none"]
NoReport == [match |-> 0, of |-> 0, verdict |-> "none", patched |-> 0]

FirstFn == IF tier = 2 THEN "reference" ELSE "tier1"
Unanswered == /\ golden' = NoGolden /\ tokens' = << >> /\ patched' = {} /\ ran' = {}
              /\ report' = NoReport /\ results' = {}

GateReset ==
  /\ fn = FirstFn /\ at = "start"
  /\ committed = {} /\ mounted = {} /\ fails = 0
  /\ results = {} /\ golden = NoGolden /\ tokens = << >> /\ patched = {} /\ ran = {}
  /\ report = NoReport

GateInit ==
  /\ tier \in 0 .. 2
  /\ prompts \in {SubSeq(Corpus, 1, n) : n \in 1 .. Len(Corpus)}
  /\ model \in [Linear -> [scaled : BOOLEAN, fp8 : BOOLEAN, fits : BOOLEAN]]
  /\ native \in [Engine -> [DOMAIN prompts -> Token]]
  /\ GateReset

(* The snapshot looks complete with its configuration and one shard.       *)
_checkpoint_present(files) == Config \in files /\ files \cap Shard # {}

Enter == /\ fn \in {"tier1", "reference", "tier2"} /\ at = "start"
         /\ mounted' = committed
         /\ at' = IF _checkpoint_present(committed) THEN "loaded" ELSE "fetch"
         /\ results' = {}
         /\ UNCHANGED << request, fn, committed, fails, outcome >>

(* snapshot_download writes file after file into the mounted directory ... *)
Fetch == /\ at = "fetch"
         /\ \E f \in File \ mounted : mounted' = mounted \cup {f}
         /\ UNCHANGED << request, place, committed, fails, results, outcome >>

Commit_early ==          \* mutation: what looks present is committed
  /\ at = "fetch" /\ _checkpoint_present(mounted)
  /\ committed' = mounted
  /\ at' = "loaded"
  /\ UNCHANGED << request, fn, mounted, fails, results, outcome >>

(* ... and download_weights commits the volume when it has returned.       *)
Commit ==
  /\ at = "fetch" /\ mounted = File
  /\ committed' = mounted
  /\ at' = "loaded"
  /\ UNCHANGED << request, fn, mounted, fails, results, outcome >>

(* A failing container ends main; the user starts it again.                *)
Fail == /\ at \in {"fetch", "loaded", "patched"} /\ fails < MAX_FAILS
        /\ fails' = fails + 1
        /\ mounted' = {}
        /\ fn' = FirstFn /\ at' = "start"
        /\ Unanswered
        /\ UNCHANGED << request, committed >>

(* The container returns and main goes on to the next function.            *)
Leave(next) == fn' = next /\ at' = "start" /\ mounted' = {}

(* One weight of the sample; an all-zero activation row is not counted.    *)
Measured(l, p) ==
  LET flat(rows) == [i \in 1 .. Len(rows) * Len(rows[1]) |->
                       rows[(i - 1) \div Len(rows[1]) + 1][((i - 1) % Len(rows[1])) + 1]]
  IN  [weight |-> l, product |-> p,
       stats |-> error_stats(flat(p.ref), flat(p.ours)),
       hits |-> Cardinality({r \in p.live : argmax(p.ours[r]) = argmax(p.ref[r])}),
       rows |-> Cardinality(p.live)]

(* The first N_WEIGHTS weights with a scale, in no fixed order; with tier  *)
(* 1 main returns here.                                                    *)
Sample ==
  LET found == {l \in Linear : model[l].scaled}
  IN  {s \in SUBSET found : Cardinality(s) = Min({N_WEIGHTS, Cardinality(found)})}

tier1_operator ==
  /\ fn = "tier1" /\ at = "loaded"
  /\ \E picked \in Sample : \E p \in [picked -> Product] :
       results' = {Measured(l, p[l]) : l \in picked}
  /\ Leave(IF tier = 1 THEN "done" ELSE "reference")
  /\ UNCHANGED << request, committed, fails, outcome >>

(* vLLM, or transformers when anything in the vLLM path raises.            *)
reference ==
  /\ fn = "reference" /\ at = "loaded"
  /\ \E e \in Engine : golden' = [tokens |-> native[e], engine |-> e]
  /\ Leave("tier2")
  /\ UNCHANGED << request, committed, fails, results, tokens, patched, ran, report >>

_looks_fp8(l) == model[l].fp8

Patch ==
  /\ fn = "tier2" /\ at = "loaded"
  /\ patched' = {l \in Linear : model[l].scaled /\ _looks_fp8(l)}
  /\ at' = "patched"
  /\ UNCHANGED << request, fn, volume, results, golden, tokens, ran, report >>

(* A replaced forward that raises calls the original one.  The patched     *)
(* model answers as the unmodified one where the contract computed         *)
(* nothing.                                                                *)
tier2_fullmodel ==
  /\ fn = "tier2" /\ at = "patched"
  /\ ran' = {l \in patched : model[l].fits}
  /\ tokens' \in IF ran' = {} THEN {native["transformers"]} ELSE [DOMAIN prompts -> Token]
  /\ Leave("summary")
  /\ UNCHANGED << request, committed, fails, results, golden, patched, report >>

summarize_gate(g, c) ==
  [match |-> Hits(g, c), of |-> Len(g), verdict |-> IF FullMatch(g, c) THEN "PASS" ELSE "PARTIAL/FAIL"]

Summarize ==
  /\ fn = "summary" /\ Comparable(golden.tokens, tokens)
  /\ LET line == summarize_gate(golden.tokens, tokens)
     IN  report' = [match |-> line.match, of |-> line.of, verdict |-> line.verdict,
                    patched |-> Cardinality(patched)]
  /\ fn' = "done" /\ at' = "end"
  /\ UNCHANGED << request, volume, results, golden, tokens, patched, ran >>

main == \/ Enter \/ Fetch \/ Commit
        \/ tier1_operator \/ reference \/ Patch \/ tier2_fullmodel \/ Summarize
GateNext == main \/ Fail
GateSpec == GateInit /\ [][GateNext]_gateVars
--------------------------------------------------------------------------------

(* A tier only ever runs on a complete checkpoint, although the presence   *)
(* test accepts any one shard: a partial download is never committed.      *)
OnlyCompleteIsLoaded == at \in {"loaded", "patched"} => mounted = File

(* The verdict is PASS exactly when every prompt was answered with the     *)
(* golden's token, by runs that both came after the last lost container.   *)
PassIsFullMatch ==
  report.verdict # "none" =>
    /\ DOMAIN golden.tokens = DOMAIN prompts /\ golden.engine \in Engine
    /\ report.verdict = "PASS" <=> tokens = golden.tokens

(* Two elements of a product have no difference: a NaN, or one infinity on *)
(* both sides; and none of its counted rows holds a NaN.                   *)
Undefined(p) == \E i \in DOMAIN p.ref : \E k \in DOMAIN p.ref[i] : AbsDiff(p.ref[i][k], p.ours[i][k]) = NaN
Ordered(p) == \A i \in p.live : \A k \in DOMAIN p.ref[i] : p.ref[i][k] # NaN /\ p.ours[i][k] # NaN

(* The operator tier's figures tell one story as far as the code's floats  *)
(* let them.  The root mean square is NaN exactly when some difference is  *)
(* undefined, and is the only figure that says so.  When it is not: every  *)
(* element exact is no error at all, and then every counted row has the    *)
(* golden's largest element; the largest error and the root mean square    *)
(* are infinite together, and else bound each other.  Where no NaN is, a   *)
(* row agrees on its largest element exactly when the best one of each     *)
(* overlap.                                                                *)
FiguresAgree ==
  \A r \in results :
    /\ r.stats.sum_sq = NaN <=> Undefined(r.product)
    /\ r.stats.sum_sq # NaN =>
         /\ r.stats.exact = r.stats.n <=> r.stats.max_abs = 0
         /\ r.stats.max_abs = 0 <=> r.stats.sum_sq = 0
         /\ r.stats.max_abs = Inf <=> r.stats.sum_sq = Inf
         /\ r.stats.max_abs # Inf =>
              /\ r.stats.max_abs * r.stats.max_abs <= r.stats.sum_sq
              /\ r.stats.sum_sq <= (r.stats.n - r.stats.exact) * r.stats.max_abs * r.stats.max_abs
         /\ r.stats.max_abs = 0 => r.hits = r.rows /\ r.stats.max_rel[1] = 0
    /\ Ordered(r.product) =>
         r.hits = SumFunction([i \in r.product.live |->
                                 topk_overlap(r.product.ref[i], r.product.ours[i], 1)])
===============================================================================
