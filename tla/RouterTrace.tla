------------------------------ MODULE RouterTrace -----------------------------
(***************************************************************************)
(* route_trace: a synthetic router and the replay of its fetches.  Per     *)
(* token and layer the router draws K distinct experts and carries some of *)
(* the token before over; the fetch trace is that selection flattened      *)
(* token by token or, for a batch, layer by layer.  The trace is replayed  *)
(* against an exact-LRU cache kept in an OrderedDict, to size the expert   *)
(* cache: it says of itself that it is the policy of expert_cache_ctrl,    *)
(* whose specification is LruCache.  flash_layout and batched_moe_amortize *)
(* rebuild the same selection from the same seed.  The popularity that     *)
(* weighs the draws is left out: every draw is possible.                   *)
(***************************************************************************)
EXTENDS SequencesExt, FiniteSetsExt

CONSTANTS
  L, E, K,     \* layers, experts per layer, experts per token
  TOKENS,      \* tokens drawn
  KEEP,        \* carried over, round(K * rho)
  Draws(_)     \* the draws considered in a layer

Distinct(s) == \A i, j \in DOMAIN s : s[i] = s[j] => i = j

(* sample_topk deletes what it has drawn.                                  *)
sample_topk(l) == {s \in Draws(l) : Len(s) = K /\ Distinct(s)}

ASSUME RouterAssumption ==
  /\ {L, E, K, TOKENS} \subseteq Nat \ {0} /\ K <= E /\ KEEP \in 0 .. K
  /\ \A l \in 0 .. L - 1 : Draws(l) \subseteq [1 .. K -> 0 .. E - 1] /\ sample_topk(l) # {}

Tokens == 0 .. TOKENS - 1
Layers == 0 .. L - 1

VARIABLE sel     \* per token drawn, its experts in every layer: sel[t+1][l]

(* The carried experts first, then the fresh ones that are not among them. *)
Merged(prev, fresh) ==
  LET kept == SubSeq(prev, 1, KEEP)
      new == {i \in 1 .. K : ~Contains(kept, fresh[i])}
      next(n) == CHOOSE i \in new : Cardinality({h \in new : h < i}) = n - 1
  IN  [i \in 1 .. K |-> IF i <= KEEP THEN kept[i] ELSE fresh[next(i - KEEP)]]

DrawToken ==
  /\ Len(sel) < TOKENS
  /\ \E fresh \in [Layers -> UNION {sample_topk(l) : l \in Layers}] :
       /\ \A l \in Layers : fresh[l] \in sample_topk(l)
       /\ sel' = Append(sel, IF sel = << >> THEN fresh
                             ELSE [l \in Layers |-> Merged(Last(sel)[l], fresh[l])])

build_selection(n) == SubSeq(sel, 1, n)            \* flash_layout's copy of the loop
per_layer_selections(n) == SubSeq(sel, 1, n)       \* batched_moe_amortize's

(* An access is the expert's global id, layer * E + expert.                *)
FetchOf(t, l) == [i \in 1 .. K |-> l * E + sel[t + 1][l][i]]
Decode == [i \in 1 .. TOKENS * L |-> << (i - 1) \div L, (i - 1) % L >>]

Batched_full(B) ==       \* mutation: the last, shorter batch is forgotten
  FlattenSeq([b \in 1 .. TOKENS \div B |->
    [i \in 1 .. B * L |-> << (b - 1) * B + ((i - 1) % B), (i - 1) \div B >>]])

(* One batch after the other; within it layer by layer, token by token.    *)
Batched(B) ==
  LET BatchOf(tb) ==
        LET n == Min({tb + B, TOKENS}) - tb
        IN  [i \in 1 .. n * L |-> << tb + ((i - 1) % n), (i - 1) \div n >>]
  IN  FlattenSeq([b \in 1 .. (TOKENS + B - 1) \div B |-> BatchOf((b - 1) * B)])

(* Pattern 0 is 'decode', pattern B is 'batchB'.                           *)
Order(pattern) == IF pattern = 0 THEN Decode ELSE Batched(pattern)
gen_trace(pattern) ==
  LET order == Order(pattern)
  IN  [i \in 1 .. Len(order) * K |->
         LET f == order[(i - 1) \div K + 1]
         IN  FetchOf(f[1], f[2])[((i - 1) % K) + 1]]
--------------------------------------------------------------------------------
(* A pattern only reorders: it makes each token's fetch of each layer      *)
(* exactly once, tokens move only within their batch, and a token meets    *)
(* its layers in order.                                                    *)
OnlyReorders(pattern) ==
  LET order == Order(pattern)
      at(t, l) == CHOOSE i \in DOMAIN order : order[i] = << t, l >>
      batch(t) == IF pattern = 0 THEN t ELSE t \div pattern
  IN  /\ Len(order) = TOKENS * L /\ Range(order) = Tokens \X Layers
      /\ \A t, u \in Tokens : \A l, m \in Layers :
           (batch(t) < batch(u) \/ (t = u /\ l < m)) => at(t, l) < at(u, m)
------------------------------------------------------------------------------
CONSTANTS
  Pattern,     \* flatten orders replayed, see Order
  Slots        \* cache sizes replayed

ASSUME ReplayAssumption == Pattern \subseteq 0 .. TOKENS /\ Slots \subseteq Nat \ {0}

VARIABLES
  trace, slots,   \* arguments of lru_hitrate
  pos,            \* accesses replayed
  cache,          \* keys of the OrderedDict, first in first
  hit,            \* hits counted
  x               \* the access replayed last, and whether it was found

replayVars == << trace, slots, pos, cache, hit, x >>

ReplayIdle == trace = << >> /\ slots = 0 /\ pos = 0 /\ cache = << >> /\ hit = 0 /\ x = << >>

ReplayStart(pattern, n) ==
  /\ trace' = gen_trace(pattern) /\ slots' = n
  /\ pos' = 0 /\ cache' = << >> /\ hit' = 0 /\ x' = << >>

popitem_newest(keys) == Front(keys)     \* mutation: popitem without last=False
popitem(keys) == Tail(keys)
move_to_end(keys, e) ==
  LET place == CHOOSE i \in DOMAIN keys : keys[i] = e
  IN  Append(RemoveAt(keys, place), e)

lru_hitrate ==
  /\ pos < Len(trace)
  /\ LET e == trace[pos + 1]
         found == Contains(cache, e)
     IN  /\ x' = << e, found >>
         /\ IF found
            THEN /\ hit' = hit + 1
                 /\ cache' = move_to_end(cache, e)
            ELSE /\ hit' = hit
                 /\ LET grown == Append(cache, e)
                    IN  cache' = IF Len(grown) > slots THEN popitem(grown) ELSE grown
  /\ pos' = pos + 1
  /\ UNCHANGED << trace, slots >>

--------------------------------------------------------------------------------

(* The dict, newest key first, is the stack of the exact-LRU cache; each   *)
(* access is its Hit or its Miss.                                          *)
Lru == INSTANCE LruCache WITH Expert <- 0 .. L * E - 1, size <- slots,
                              stack <- Reverse(cache), answer <- x
ReplayIsLru ==
  [][pos' = pos + 1 =>
       (Lru!Hit(trace[pos + 1]) \/ Lru!Miss(trace[pos + 1])) /\ UNCHANGED slots]_replayVars
-------------------------------------------------------------------------------
(* batched_moe_amortize counts the experts a batch of tokens fetches in a  *)
(* layer, the union of their selections, against fetching per token.       *)
CONSTANT MAX_B   \* largest batch measured, 256 in the code

ASSUME BatchAssumption == MAX_B \in 1 .. TOKENS

VARIABLE out     \* per batch size measured so far, its totals

(* Whole batches only: tokens after the last full batch are left out.      *)
Batches(B, N) == 0 .. N \div B - 1
UnionOf(s, b, B, l) == UNION {Range(s[t][l]) : t \in b * B + 1 .. (b + 1) * B}
Unions(B, N) ==
  LET s == per_layer_selections(N)
  IN  [f \in Batches(B, N) \X Layers |-> Cardinality(UnionOf(s, f[1], B, f[2]))]
AmortizeOf(B, N) ==
  LET u == Unions(B, N)
  IN  [union |-> SumFunction(u),
       naive |-> B * K * Cardinality(DOMAIN u),
       n |-> Cardinality(DOMAIN u)]

(* E * (1 - (1 - K/E)^B) as a fraction.                                    *)
analytic(B) == << E ^ B - (E - K) ^ B, E ^ (B - 1) >>

MeasureIdle == out = << >>

(* measure goes through its list of batch sizes.                           *)
measure_batches ==
  /\ Len(out) < MAX_B
  /\ out' = Append(out, AmortizeOf(Len(out) + 1, TOKENS))

(* A batch never fetches more than its tokens would one by one, nor fewer  *)
(* experts than one token needs, and joining two batches never adds a      *)
(* fetch when they cover the same tokens.                                  *)
UnionIsBounded(B) ==
  /\ out[B].n * K <= out[B].union /\ out[B].union <= out[B].naive /\ out[B].union <= out[B].n * E
  /\ TOKENS % B = 0 => \A A \in 1 .. B : B % A = 0 => out[B].union <= out[A].union

(* The formula printed beside it is the mean over independent uniform      *)
(* draws: here their total, over every B draws of K experts of which the   *)
(* first is of the first K, for experts are alike.                         *)
LaterPicks(B) == [2 .. B -> kSubset(K, 0 .. E - 1)]
AnalyticIsMean(B) ==
  LET picks == LaterPicks(B)
      ofSize(k) == Cardinality({p \in picks : Cardinality((0 .. K - 1) \cup UNION Range(p)) = k})
  IN  SumFunction([k \in 1 .. E |-> k * ofSize(k)]) * analytic(B)[2] = analytic(B)[1] * Cardinality(picks)

(* Two countings of one selection: measured batch by batch, and fetched    *)
(* access by access in the trace of the same batch size.  The trace alone  *)
(* has the tokens after the last full batch.                               *)
CountingsAgree(B) ==
  LET acc == gen_trace(B)
      first(f) == (f[1] * L + f[2]) * B * K
      fetched(f) == {acc[i] : i \in first(f) + 1 .. first(f) + B * K}
  IN  /\ out[B].union = SumFunction([f \in Batches(B, TOKENS) \X Layers |-> Cardinality(fetched(f))])
      /\ Len(acc) = out[B].naive + (TOKENS % B) * L * K

(* Batching amortizes: a batch of B tokens fetches the union of their      *)
(* experts, which is bounded by what one token and what all of them need,  *)
(* the formula is that union's mean, and the trace of the same batch       *)
(* fetches the same experts in another order.                              *)
BatchingAmortizes ==
  \A B \in DOMAIN out :
    UnionIsBounded(B) /\ AnalyticIsMean(B) /\ OnlyReorders(B) /\ CountingsAgree(B)
===============================================================================
