# TLA+ models of the GLM-5.2-FP8 accelerator and its host tools

This directory models the parts of the repository whose correctness is a question
of order (edges of two clocks, completions of a slow Flash, prefetches racing
demands, resets, lost containers) and the parts that are exact by construction
elsewhere and must agree bit for bit (the FP8 contract, the weight compression,
the checkpoint packing).  Every definition is translated from the source;
`PROJECT.json` gives the lines of each.  Source paths below are relative to the
repository.

Contents: the inventory, the modules, the runs, what is proved, where code and
documents disagree, what is not modelled, and the plan.

## 1. Inventory

The repository holds two generations of a design and the tools around it.  The
newer design is the GLM-5.2 FP8 inference chip: `glm_fp8_system_cdc.v` (the chip
with its host clock) contains `glm_fp8_system.v`, which contains the model
datapath (`glm_model_fp8.v` and the blocks under it) and the memory side:
expert-weight cache, KV pager, weight loader, Flash arbiter, DDR5 fabric.  Beside
it stand the boot loader, the Flash fabric, the speculative-decoding tops and the
reliability and clock-gating units.  The older design is an instruction-driven
tensor processor (`tpu_top.v`, `tpu_axi.v`, `tpu_soc.v`).  The Python under
`tools/` defines the arithmetic (`glm_fp8_ref.py`), restates it as GPU kernels
(`glm_fp8_contract.py`), compresses weights, packs checkpoints, plans expert
placement and runs the product gate.  `docs/FORMAL.md` and `test/formal/` hold
bounded SystemVerilog checks of the FSMs; the models here start where those stop:
unbounded time, free environments, two clocks, refinement and liveness.

| component | source in `src/` | state | operations | interacts with | what is hard | what makes it correct |
|---|---|---|---|---|---|---|
| Flash read fabric | `flash_xbar.v` | outstanding counter and response FIFO per channel, round-robin pointer | issue, completion, drain, reset | requester, NAND PHYs | issue, completion and drain move the same counters at one edge; channels compete for one port | every read answered once, with its tag, in order per channel; no completion refused; no channel starves |
| DDR5 read fabric | `ddr5_xbar.v` | response FIFOs, pointer | issue, completion, drain, reset | weight reads, DDR5 PHYs | nothing counts the reads in flight: back-pressure alone protects the FIFOs | as above; a channel held back delivers again |
| Expert cache | `expert_cache_pf.v`, `expert_cache_ctrl.v` | tags, valid bits, recency ranks, frequencies, one fetch, one queued demand, a hit's read timer | lookup, demand fetch, prefetch, queue and re-lookup, install, reset | router, predictor, Flash | a demand meets a prefetch at any of its cycles, the last one included | no expert in two slots; the slot answered holds the expert; no demand lost; bounded latency; exact LRU |
| KV pager | `kv_cache_pager.v`, `kv_ecc_ring.v` | ring of rows, row count, one cold fetch | append, resident gather, cold gather, reset | attention, Flash | the window slides under a fetch in flight; counts and indices have few bits | a gather returns the row appended at its position |
| Boot loader | `boot_loader.v` | descriptor, read and write cursor, FIFO, counters | read ahead, return, write, skip, finish, reset | Flash, DDR5 | two cursors over the same segments, one reconstructing the other's addresses; empty segments; restart | each word written once, in order, before done; the copy ends |
| Speculative decoding, batched | `spec_decode_seq.v` (K > 1), `spec_batched_top.v` | prefix and beat queue; cursor, pass index | start, launch, verify, feed, drain | model, consumer of the commit stream | beats of one pass drain while the next runs; the prefix rule is computed twice | the stream is the chain of the model's choices; cursor and stream agree |
| Speculative decoding, rolling | `spec_decode_seq.v` (K = 1), `spec_decode_top.v` | pending draft, bonus beat; cursor | start, main pass, gather, draft, feed, drain | main model, draft head | the draft of a pass is judged by the next one, or by none | verified tokens are greedy decoding; each draft judged once |
| Chained drafting | `spec_chain_top.v` | draft chain, cursor | start, chain, verify, commit | as above | drafts feed drafts | as above |
| CDC FIFO and reset | `cdc_async_fifo.v`, `reset_sync.v` | binary and gray pointers, synchronizers, flags, RAM | push, pop, reset per domain | both domains | a changing pointer may be captured bit by bit; flags are stale; domains leave reset apart | a queue: nothing lost, repeated or overwritten; flags follow |
| Two-clock host port | `glm_fp8_system_cdc.v` | two FIFOs, launch and token registers, busy level, done toggle, pending flag | request, launch, run, return | host, system | four things cross by paths of different length | one token per request, in order; busy covers the run |
| System top | `glm_fp8_system.v` | host FSM, expert-id FIFO, Flash arbiter, DDR5 issuer | start, fill, run, append, done; episode, grant | cache, pager, die, Flash | a fixed-priority arbiter over two clients; a queue that drops when full and never looks at the cache's busy | each client gets its own completion, none waits for ever, no queued demand meets a busy cache |
| SoC top | `glm_fp8_soc.v` | as the system | as the system | as the system | the text of the system's memory side | as the system |
| FP8 golden reference and contract | `tools/glm_fp8_ref.py`, `tools/glm_fp8_contract.py` | none; in a product, accumulator and block sums | add, multiply, convert, encode, decode, block sum, matrix product | the RTL, vector builders, the gate | early returns replayed as chains of selections; ties, carries, NaN, signed zero; a shift read off a row maximum | the array kernels return the golden's words; rounding is to nearest |
| FP8 weight compression | `tools/fp8_gen.py`, `fp8_huff.py`, `fp8_ctxpack.py`, `weight_decomp.v`, `weight_decomp2.v` | code tables, bit buffer, context | encode, pack; load table, stream, restart, reset | packed weights, stalling producer and consumer | merges with equal weights; contexts that must agree between encoder and decoder; tables left by the block before | lossless, codes optimal, every block ends |
| Checkpoint packer and weight loader | `tools/ckpt_pack.py`, `weight_loader.v` | file, image, descriptors; five-state DMA | write, read, classify, pack, self-test; load, stream | matmul, DDR5 | ragged tiles and blocks; memory that answers one clock later | every weight and its own scale reach the matmul, once |
| Validation gate | `tools/modal_validate.py` | volume, container mount, answers, verdict | download, commit, tier 1, golden, tier 2, summary | Modal, vLLM, transformers | a container may be lost anywhere, and the volume then shows an earlier state; answers come from two containers | nothing runs on part of a checkpoint; PASS means full agreement |
| Placement and trace tools | `tools/route_trace.py`, `flash_layout.py`, `batched_moe_amortize.py` | selections, placement, LRU replay | draw, replay, pack, measure | sizing decisions | caps that channels do not divide; a short last batch | balanced layouts, figures that mean what they say |
| Static clock-crossing check | `tools/cdc_check.py` | none | text scan | the Verilog | - | - |
| Prediction | `expert_predictor.v`, `expert_prefetch_top.v` | a frequency table, a hint queue | train, predict, hint | expert cache | hints meet a busy cache | a hint never disturbs a demand |
| Memory reliability | `ecc_mem_wrap.v`, `ecc_secded.v`, `mbist_ctrl.v` | ECC memory, scrub register, march state | read, scrub, write, march | any memory | a scrub races a newer write | a corrected word never replaces a newer one |
| Clock gating | `clk_en_ctrl.v`, `clk_gate_cluster.v`, `icg_cell.v` | hold counters | request, hold, gate | every cluster | a cluster gated with work pending | no work is lost |
| FP8 and bf16 datapaths | `glm_*.v`, `mla_attn*.v`, `moe_router*.v`, ... | sequencer FSMs around floating-point units | start, pull, compute, done | memory side | long handshakes | numerical; see section 6 |
| Tensor processor | `tpu_top.v`, `tpu_axi.v`, `axi_master_dma.v`, `dma_controller.v`, `tpu_soc.v`, ... | fetch, decode and execute FSM; AXI and DMA FSMs | instructions, bursts | AXI bus | bus back-pressure | each instruction completes, bursts keep order |

`PROJECT.json` lists the hazards of the components at the lines where they bite.

## 2. Modules

One step of every single-clock module is one clock edge: all registers of the
component move together, from the values before the edge, as nonblocking
assignments do.  Combinational wires are operators with the source's names.
Inputs are chosen by `\E`; what the environment may do is stated where it is
chosen.  Variables marked *external* stand for something outside the component
(reads inside a PHY, rows on Flash, the age of a fetch); those marked
*observation* remember what a property speaks of and steer nothing.  A definition
whose comment says *mutation* is a plausible mistake in the definition below it;
no specification uses it.

| abstract | what it promises | implemented by |
|---|---|---|
| `ReadFabric` | a queue of owed answers per channel | `FlashXbar`, `Ddr5Xbar` |
| `LruCache` | a stack of experts, most recent first | `ExpertCache` (LRU, no hit latency), the replay of `RouterTrace` |
| `ExpertCacheCtrl` | the demand-only cache, itself a translation | `ExpertCache` without hints |
| `KvLog` | the log of all rows; a gather returns the row of its position | `KvPager` |
| `BlockCopy` | the words still to write, in order | `BootLoader` |
| `GreedyStream` | each token is the model's choice for the one before | `SpecBatchedTop`, `SpecDecodeTop` |
| `FifoQueue` | a bounded queue | `CdcFifo`, and `SystemCdc` as a whole |

**Fabrics.**  `FabricResponse` is the half the two fabrics have in common (the
source repeats the text): FIFO per channel (`fifo`, `head`, `tail`, `cnt`),
round-robin pointer `rr`, grant `gnt`.  `FlashXbar` adds `outst` and the issue
gate `ch_full`; `Ddr5Xbar` has neither.  `die` is the reads inside each PHY, which
answers its own reads in order; a word is named by the address it was read from.

**Expert cache.**  `ExpertDirectory` is the directory both caches keep,
`ExpertCacheCtrl` the demand-only cache, `ExpertCache` the prefetching one, with
one action per branch of the FSM: `Idle*` (S_IDLE), `Fetch*` (S_FETCH),
`Prefetch*` (S_PF_FETCH), `Rest*` (S_DMD_REST).  `build` holds the Verilog
parameters of the instance (`REPL_POLICY`, `CACHE_HIT_LAT`) and the experts its
predictor may hint; it never changes.  The router presents a demand for one cycle
and only while `busy` is low; the Flash takes at most `FLASH_LAT` cycles.

**KV pager.**  `KvPager` models the ECC = 0 instance, with the truncations of its
widths (`Trunc`, `slot_of`).  The append port is independent of the gather FSM, so
each edge is a gather step together with an append step.  `log` is what Flash
keeps.

**Memory side of the system.**  `SystemFlash` composes `ExpertCache` and
`KvPager` as `glm_fp8_system.v` does: the host FSM (`Start`, `Fill`, `Move`), the
episode detector and the queue of routed experts (`new_episode`, `ec_req`,
`QueueEdge`), and the arbiter of the one Flash (`Grant`, `Hold`,
`ec_flash_done`, `pg_flash_done`).  A step moves host, queue, cache, pager and
arbiter at one edge.  The die is external: while it runs it may route to any
episode and gather any row of its window, and it waits for neither cache.
`glm_fp8_soc.v` repeats this text.

**Boot loader.**  `Copy` is one busy cycle: issue, return and write in any
combination, with both cursors, both counters and the end test as in the source.

**Speculative decoding.**  The two generate branches of `spec_decode_seq.v` are
`SpecSeqBatch`, which `SpecBatchedTop` extends with its FSM, and the first half of
`SpecDecodeTop`, which holds the rolling controller and its top in one module.  The
batched top has a second copy of the clamp and of the prefix rule for its cursor, and
so has the model (`nd_w`, `top_acc_prefix` beside `Clamp`, `acc_prefix`).  The model
is a function from token and position, chosen at the start and fixed (`SpecParams`);
drafts are arbitrary.

**Clock crossing.**  In `CdcFifo` a step is an edge of one clock or of both.  When
both tick at once, a synchronizer's first flop may capture any mixture of the old
and the new bits (`Caught`): that is where a gray code matters.  A gray code is the
set of its one bits.  `SystemCdc` instantiates `CdcFifo` twice, adds the wrapper's
registers, one record per clock domain, and the host FSM of `glm_fp8_system.v`
(`SysRegs`), with the run's length left free.

**FP8 arithmetic.**  `Fp8Ref` is `glm_fp8_ref.py` on records of sign, exponent and
mantissa: add, multiply, conversions, E4M3 codes and the fixed-point block sum,
with the source's early returns in order; the widths are constants.  `Fp8Array`
is one lane of the kernels of `glm_fp8_contract.py`.  `ContractOps` applies one
primitive by both, and by the encoder of `fp8_gen.py`, and states correct rounding
a third time, by distances over exact integers.  `Fp8Gemm` runs the block-scaled
product of one small tile with golden, integer backend and array fold side by
side.

**Weights.**  `WeightDecomp` is the offline compression (package-merge, canonical
codes, one table per context class, vector files) and the two streaming decoders
as handshaked machines.  `WeightLoader` is the DMA;
`Checkpoint` puts `ckpt_pack.py` in front of it, from raw tensor bytes to the
rows the matmul receives.

**Validation gate.**  `ValidationGate` has one action per function of the gate
that touches the volume or an answer: `Enter`, `Fetch`, `Commit`,
`tier1_operator`, `reference`, `Patch`, `tier2_fullmodel`, `Summarize`, and `Fail`,
the loss of a container at any point.  A container sees the volume as last
committed and loses what it has not committed.  The comparison helpers (`argmax`,
top-k overlap, error statistics, full match) are functions on sequences of floats:
integers, the two infinities and NaN, compared and subtracted as Python does
(`Above`, `Equal`, `AbsDiff`).  `max` passes a NaN over, `==` denies it, a sum keeps
it.

**Planning tools.**  `RouterTrace` draws selections token by token, flattens them
to a trace, replays it and counts what a batch fetches; `FlashLayout` packs experts onto channels (the greedy
packer, one expert a step, and the two baselines) and measures a layout.

The MC modules put components with nothing in common side by side, one per
behaviour (`job`, `way`, `loop_kind`); the others rest in their reset state.  The
proofs of a component are in a module beside it (`*_proofs`, section 4), and those
of the two decoding loops and of the cache and its system each share one;
`Storage_proofs` has those of the two Flash streams, the replay and the gate,
`Fp8Numerics_proofs` those of the arithmetic and of the matrix product, and
`WeightDelivery_proofs`, which extends it, those of how a weight gets there: the
fabrics, the packer and the loader.

## 3. Runs

Deadlock is checked, except where a behaviour has an end: in `fp8_numerics`,
`fp_add`, `weights` and `host_tools` a computation finishes.  States are distinct
states.

| run | instance | states | what it shows |
|---|---|---|---|
| `read_fabrics` | 2 channels, depth 2, 2 reads per PHY, 3 addresses | 24,702 | Flash counters exact, room for every completing NAND read, pointer progress; both fabrics implement `ReadFabric`, and no waiting channel starves |
| `expert_cache` | 3 slots, 4 experts; four builds of the cache alone, one in the system | 615,653 | see below |
| `expert_cache_hit_evicted` | 2 slots, LFU, hit latency 2 | - | violation, section 5 |
| `flash_streams` | boot: 3 segments, FIFO of 2, 3-bit addresses; pager: ring of 4, 3-bit positions, 7 appends | 14,980 | the copy is exact, its counters too, and it ends; the pager's window is exact, gathers are answered with the right row |
| `speculative` | 2 tokens, 4 positions, every keep-or-change model, K = 2 and K = 1 | 702,240 | batched: the stream is the chain of the model's choices, the cursor agrees; rolling: verified beats are greedy, each draft judged once, counters agree |
| `spec_decode_top_committed` | the same | - | violation, section 5 |
| `cdc_fifo` | 4 words, 2 reset stages, 2 data words | 96,008 | a queue at every ratio of the clocks and every capture of a moving pointer; flags follow |
| `system_cdc` | FIFOs of 4, 2 runs between resets | 57,081 | every request on its way in one place, tokens in order, busy covers the run, every request answered |
| `fp8_numerics` | 8 exponent and 10 mantissa bits, boundary operands; 2 blocks of a small tile | 859,790 | array kernels return the golden's words, roundings are nearest by an independent definition, the derived activation shift is the largest that fits, every backend of the product agrees |
| `fp_add` | the same | - | violation, section 5 |
| `weights` | codes up to 3 bits, blocks of up to 11 values, 1 and 4 contexts; matrices up to 7 x 6 in tiles of 2 columns and blocks of 3 | 78,360 | decoding is lossless under every stall, restart and reset, codes are optimal; an image holds every weight and scale once, the matmul receives them, every block and tile arrives |
| `host_tools` | 2 layers, 7 experts, 3 per token, 4 tokens, 2 or 4 channels; 2 shards, 2 prompts, 1 lost container | 1,151,379 | layouts balanced, their collisions, traffic and bandwidth ceiling as reported, batching bounded by what it must fetch and counted alike in trace and batches, replay is LRU; the gate runs on complete checkpoints only, and its figures agree |

`expert_cache` checks five builds at once.  Four are the cache alone, under every
router, predictor and Flash: LRU with hints for two experts; LRU with a hit latency
longer than a fetch, where a hit read and a whole prefetch overlap; frequency
replacement with aging and saturation; and LRU without hints, which is
`expert_cache_ctrl.v` step for step.  `ImplementsLru` and `DrivesFlashAsCtrl` bind
the builds they are about.

The fifth is the cache in the system (`SystemFlash`), and what it shows is about
the composition:

- The queue presents its head without a look at `busy`, and the cache would drop
  such a demand.  It never happens (`QueueIsServed`): the demand on the cache is
  always the head of the queue, and the head is presented only after the answer
  of the one before.
- Alone, a demand waits at most 2 `FLASH_LAT` + 1 cycles, a prefetch and itself.
  In the system it waits up to 4 `FLASH_LAT` + 3: a fetch of the pager may come
  before the prefetch it is queued behind, and another one between that prefetch
  and the demand's own fetch.  The bound is reached at `FLASH_LAT` = 2, and also
  holds for 1 and 3.
- The arbiter prefers the cache and yet does not starve the pager: after each
  `flash_done` it is idle for one cycle in which the cache has no request, so a
  cold row waits at most 2 `FLASH_LAT` + 1 cycles.
- `flash_done` ends the fetch of the client granted and no other, and neither
  client changes its id under way.

A full queue drops an episode and counts it (`ec_dropped`); the die waits for
neither cache, so a request to the cache is lost and not a weight.  `QueueEdge`
models the drop.

### Bounds, and why they suffice

- *Fabrics.*  Two channels make every competition for the port; depth two makes
  every wrap, full and empty case and their coincidence at one edge.  Three
  addresses give one channel two different words, so a swapped order shows.
- *Expert cache.*  Three slots are the least where moving to the front differs
  from swapping; four experts make an eviction necessary.  `FREQ_MAX` 2 saturates
  and `AGE_PERIOD` 3 ages within a few demands.
- *System.*  A queue of two is empty, part full and full; the episodes name two
  experts, one of them in two layers, so that it may be wanted again at once.  A
  ring of one row makes the older row of a window of two cold; rows have one
  content there, since only the timing of the fetches matters (`flash_streams`
  checks the contents).  `APPENDS` bounds the rows appended; the system assumes
  it below `2^POSW`, since the host has no test that the context still has room
  (section 5).  Its cache has no hit latency (`SystemBuilds`), as the instance in
  `glm_fp8_system.v` has none.
- *KV pager.*  Seven appends go almost twice around the ring, and almost through
  the positions; `APPENDS` below `2^POSW` keeps within the capacity the counter
  can express (section 5).
- *Boot loader.*  Segments are empty, of one word, and longer than the FIFO and
  wrapping the address space; all orders of up to three of them, twice in a row.
- *Speculative decoding.*  With K = 2 a prefix can stop at none, one or both
  drafts.  Two tokens distinguish a right draft from a wrong one.  The models of
  the family keep or change the token, at each position independently, so that a
  wrong position shows.  `MAX_PASSES` and `MAX_BATCHES` bound the passes between
  resets.
- *Clock crossing.*  `ADDR_W` 2 is the smallest depth for which the full test
  compares more than the two top bits.  `SystemCdc` uses one reset stage (the
  source has two; `cdc_fifo` has two) and two requests between resets, which the
  port's depth of one outstanding run makes the most that can overlap.
- *FP8.*  The exponent keeps its eight bits; ten mantissa bits in place of 23
  leave three below bf16's seven, enough for guard, round and sticky to differ,
  and keep exact sums within TLC's integers.  Operands are the exponents at both
  ends and around the bias, and far enough apart for every alignment, with
  mantissas at the ends, at ties and next to them.
- *Compression.*  `MAXLEN` 3 is shorter than the depth an unlimited Huffman code
  of the skewed block would have, so package-merge really limits.  Blocks follow
  each other in pairs and triples, the later ones with fewer codes, so that the
  tables keep old entries.  `DECODER_RESETS` allows one reset anywhere.
- *Checkpoints.*  Row counts 1 to 5 and 7, contraction lengths 1 to 4 and 6
  against tiles of two and blocks of three: full, ragged and single ones in each
  direction.  `LOADER_RESETS` allows one reset anywhere.
- *Planning tools.*  Seven experts do not divide over two or four channels.  One of
  them is fetched with each other, two at a time; those never fetched together are
  cheapest on one channel, which without its cap would take three of them.
  A token reads three experts: on two channels a fetch cannot take one round only, on
  four the cap of two is below three, so that both ends of `BandwidthCeiling` can be
  missed.  Four tokens in batches of up to three leave a short last batch.
- *Gate.*  One shard satisfies the presence test, so two shards make a partial
  checkpoint that looks complete; one lost container (`MAX_FAILS`) may be lost at
  every step.  Rows of a product hold ties, zeros, negatives, a NaN and both
  infinities, on either side and on both.

### Fairness

Safety is checked under every environment.  For liveness:

- the clocks tick, which hardware gives: `WF` of an edge where there is one clock.
  With two, a clock may be waiting for nothing but its own tick while the other
  ticks with it, so weak fairness of single edges says too little; and fairness of
  edges that carry a request would say too much, for it would force the host to
  start runs.  `CdcFifo` and `SystemCdc` say that a clock of which even an idle
  edge (no push, no pop, no start) would change something ticks, alone or with
  the other;
- the fabrics' requester is ready again and again, and a PHY delivers a read it
  holds when its FIFO has room;
- Flash and DDR5 keep serving the boot loader;
- a reset request is withdrawn, and a run of the model ends;
- the producer and the consumer of a compressed stream are not stalled for ever,
  and the host issues the next descriptor.

No fairness is assumed of any choice a component makes itself: which channel the
arbiter grants, which cursor moves, which demand is served.  The bounds on the
cache's and the pager's waits are safety properties and need none.

## 4. Proofs

TLAPS checks 39 named results, and the lemmas under them, for every value of the
constants the assumptions admit.  Thirty-two state a property of the runs above:
a run shows it on a small instance, the theorem for all.  The other seven are
stronger parts of such a property, or facts no run states.

| module | theorem | shows |
|---|---|---|
| `WeightDelivery_proofs` | `TypeCorrect` | the Flash fabric's registers keep their ranges |
| | `OutstandingCorrect` | a channel's outstanding counter is its PHY's reads plus its FIFO's words |
| | `NoBackpressure` | a completing NAND read finds room |
| | `RotationProgress` | a drain of another channel brings the pointer strictly nearer to a waiting one |
| | `Refinement` | the Flash fabric implements `ReadFabric` |
| | `Ddr5RingsHold` | every waiting slot of the DDR5 fabric holds a stored word |
| | `Ddr5IsReadFabric` | the DDR5 fabric implements `ReadFabric` |
| | `AlwaysMatmulGetsCheckpoint` | each code and scale the loader streams is the checkpoint's, for that column and row |
| | `AlwaysImageIsComplete` | every column of an FP8 weight is in exactly one tile; the self-test accepts the image |
| `ExpertCache_proofs` | `HitsAreTrusted` | an answer names the slot of its expert |
| | `NeverCachedTwice` | no expert sits in two slots |
| | `NoDemandIsLost` | an unanswered demand is in one of the places that lead to its answer |
| | `LatencyIsBounded` | and answered within a bound of Flash and hit latency |
| | `FlashSeesCtrl` | a fetch's id is steady; without hints the cache is `expert_cache_ctrl.v` |
| | `CacheIsLru` | the LRU build implements `LruCache` |
| | `DemandsAreServed` | the same guarantees behind the expert queue and the shared Flash |
| | `NoFetchIsCrossed` | `flash_done` ends the fetch it was granted for and no other |
| `Storage_proofs` | `WindowStaysExact` | the pager's resident rows are the last appended; Flash is asked only for others |
| | `PagerIsLog` | the pager implements `KvLog` |
| | `CopyIsExact` | the boot loader's counters count, nothing is left in the pipeline |
| | `LoaderIsCopy` | the boot loader implements `BlockCopy` |
| | `ReplayStaysLru` | the replay of a trace is the exact-LRU cache |
| | `PackingIsBalanced` | every layout gives each expert a channel, no channel more than its cap |
| | `ReportIsSound` | the packer's co-activation is the collisions measured; a fetch takes at least an even share of its reads in rounds and at most the cap |
| | `FiguresAlwaysAgree` | the operator tier's figures agree, as far as NaN and infinities let them |
| | `CompleteCheckpoint` | nothing runs on part of a checkpoint |
| | `PassMeansMatch` | PASS exactly when every prompt got the golden's token |
| `Speculative_proofs` | `RunsAreAccounted` | rolling loop: tokens, passes, judged drafts and beats agree |
| | `RollingIsGreedy` | the verified beats are greedy decoding |
| | `CursorStaysFrontier` | batched loop: the cursor is the last token committed |
| | `BatchedIsChain` | the batched stream is the chain of the model's choices |
| `CdcFifo_proofs` | `FifoIsQueue` | the dual-clock FIFO implements `FifoQueue` |
| | `FlagsAreLate` | each side's view of the other's pointer is one it has had, less than a lap ago |
| `SystemCdc_proofs` | `PortIsQueue` | the two-clock host port implements `FifoQueue` |
| | `NoRequestIsLost` | an accepted request is in one place until its token is shown |
| `Fp8Numerics_proofs` | `AlwaysKernelsAreGolden` | the array kernels and the vector builder's encoder return the golden's words |
| | `AlwaysRoundsToNearest` | products, sums, block sums and codes are nearest, ties to even; decoding inverts encoding |
| | `AlwaysTight` | the derived activation shift is the largest that fits |
| | `AlwaysContractIsGolden` | the accumulators are exact on the way, and every backend returns the golden's columns |

### Hypotheses

The assumptions on constants are named in the modules that declare them, and TLC
evaluates them on every run.  Beyond ranges they say: ring sizes of the pager are
powers of two, as the header demands; a draft count of 2 to 4 (`DraftsAssumption`),
because a pass takes at least five cycles in the model, which lets the four beats
that four drafts leave queued drain before the next pass, and not more; FIFOs of at
least four words (`FifoAssumption`), because the full test inverts the two top bits
of a pointer and compares the rest, of which depth two leaves none; in the system,
`APPENDS < 2^POSW` (section 3).  For the arithmetic they say: at least six exponent
and seven mantissa bits and the accumulator's 18 fraction bits
(`CodecAssumption`; fp32 has 8 and 23), so that the product of two codes is exact;
a search for the top bit of one to six halvings (`SearchAssumption`; 6 in the code, 5
in the run), and integers it covers (`OperandAssumption`, `TileAssumption`): the sums
of a block are below `2^(2^HALVINGS - 1)`, which for the code's 128 products of codes
is true with twenty binary places to spare; rows are finite and not empty, for the scale divides by
their maximum, and no weight is the NaN code, of which the golden makes a NaN and the
contract a number.  For the packer they say: a scale is a bf16 word of sixteen bits
(`ScaleAssumption`, which no result on the arithmetic uses), a tile has more than one column (`LayoutAssumption`),
and a checkpoint is what `load_checkpoint` can slice (`ModelAssumption`): names are
distinct, as keys of a dict are, a weight with scales has one byte for each of its
N * K codes, K is at most the loader's `KMAX`, and there is one scale for each block,
F32 or BF16.  The matrices, the order of the tensors and the number of tail tensors
are free.  For the gate they say: NaN and the infinities are not numbers
(`FloatAssumption`), and the two sides of a product are matrices of floats of one
shape, not empty (`GateAssumption`); numbers stand for finite floats, exactly.  Two theorems carry a hypothesis in their
statement, and it cuts off what section 5 shows to be false:

- `SlowHitsAreSafe` in `HitsAreTrusted`: hits are answered at once, or the policy is
  LRU with at least two slots.  Otherwise a prefetch may evict the slot of a hit
  that waits for its read (the run `expert_cache_hit_evicted`).  `NeverCachedTwice`,
  `NoDemandIsLost` and `LatencyIsBounded` need no hypothesis.
- `Fits` in `WindowStaysExact` and `PagerIsLog`: a ring of more than one row, and
  positions wide enough for the ring and for what is appended; each of the three
  excluded cases fails in the way section 5 says.

### Invariants, and why each part is needed

*Fabrics.*  Neither `TypeOK` nor the refinement is inductive alone.  For both,
`RingsHoldWords`: the count agrees with the pointers and the slots between them
hold stored words.  For Flash also `OutstandingCounts`: `outst >= 0` survives a
drain only because a word in a FIFO is counted in `outst`.  `NoBackpressure` then
follows without induction: a PHY with a read makes `Len(die) >= 1`, hence
`cnt < outst <= QDEPTH`.  In the DDR5 fabric nothing counts the reads in flight, and
`cnt <= RESP_QD` rests on `mem_resp_ready` alone.  The two share
`FabricResponse_proofs`: `GrantFacts` (the arbiter's CHOOSE picks a channel, by
well-foundedness of the distances), `RingStep`, `QueueShift` (a ring's words
followed by a PHY's reads lose their head on a drain, gain the issued read, and do
not see a completion) and `EdgeIsFabricStep`, which puts them together.  Sequences
are shown equal place by place, so induction over data is never needed.

*Expert cache.*  `CacheInv`.  A hit is sound if the directory has no expert twice,
which an install keeps only if the expert it brings is still nowhere: `FetchSettled`
says so of a demand fetch, and also that the victim chosen at the miss is still the
victim at the end of it (nothing is touched meanwhile).  `RankIsOrder` makes the
ranks a numbering, without which there need be no least recent slot; `Places` says
where an unanswered demand is, register by register.  A hit that waits holds its
slot (`HitIsHeld`) because the slot just touched has rank 0 and, of at least two, is
not the victim of the one prefetch that may end meanwhile.  `Waited` bounds the age
of a demand in each place by the age of the fetch it waits for.  For `CacheIsLru`
the resident slots are the most recent ones (`RecentAreResident`), so the stack is
read off the ranks, and a touch or an install is shown to be the stack's operation
place by place (`StackTouched`, `StackInstalled`).

*System.*  `SystemInv` adds to the cache's invariant `HeadIsAsked` (the demand on
the cache is the head of the queue, and the next is not presented before its
answer), `GrantIsWanted` (the Flash works only for a fetch still wanted, so its
`done` cannot reach a client that has moved on) and the waits of both clients by
whom the Flash is busy with (`DemandWaited`, `PagerWaited`): the bounds
4 `FLASH_LAT` + 3 and 2 `FLASH_LAT` + 1 of section 3.  `WindowFilled` keeps the
host's refills within the context.

*Pager.*  `PagerInv`: each of the last `RESIDENT` rows is in the slot of its
position (`RingHolds`), because positions less than a lap apart have different
remainders; a fetch under way is for the gather owed, of a row that has left the
ring for good (`FetchIsOwed`), so what slides under it does not matter.

*Boot loader.*  `BootInv`: the write cursor does not overtake the read cursor
(`CursorsInOrder`), and the words between them, in the order of their places, are
what the FIFO and then the Flash hold (`PipelineHolds`); the k-th such word is found
by counting the words passed (`Rank`), which is how two cursors that walk the
segments at different times are compared.

*Rolling loop.*  `RollInv`: when each pulse may be up and a beat queued (`Phases`),
that every pass but the first of a run judges a draft (`Judged`), and that the model
is always asked about the last verified token at its own position (`Aligned`),
although the cursor has moved past bonus beats.

*Batched loop.*  `BatchInv`: the queued beats leave one an edge and are gone before
the next pass is fed (`QueueLeaves`), and the pass about to be judged and the beats
queued continue the chain and end at the cursor (`Chained`).  `PrefixFacts` is the
prefix rule, which controller and top compute each on its own.

*Dual-clock FIFO.*  `Lags`: there are counts W of writes and R of reads, and counts
a1, a2, b1, b2 that the synchronizer flops hold the codes of, with a2 <= a1 <= R <=
b2 <= b1 <= W <= a2 + DEPTH.  What each side knows is late, and never wrong.  It
rests on gray codes for every width: neighbours differ in one bit
(`NeighboursDiffer`), so a capture of a moving pointer is the old or the new
(`CaughtIsOldOrNew`); codes of different pointers differ (`CodesAreDistinct`), so
empty means equal; and the codes of two pointers differ in just the top two bits
exactly when they are a lap apart (`FullIsALapApart`).  These are inductions on the
number of bits; as the provers cannot instantiate an induction theorem, each is an
argument about the least number that fails (`NatSets`).

*Host port.*  `Bridge`: while out of reset there are counts of requests and tokens
written and read such that both FIFOs satisfy `Lags`, and

- the core has one place for a request that is not yet a token (`CoreCounts`), so the
  start pulse never meets a busy core;
- the three toggle flops know of t1, t2 and t3 ended runs, and a run is started only
  when its predecessor has reached the third (`Toggles`), so at most one request is
  ahead of the host's knowledge;
- the token is behind the toggle by at most one run (`Shown`), and so the token FIFO
  is never full even by its late flag (`Room`), which is why `tok_wr_en` may drop the
  token of a `done` that finds it full and never does;
- what is owed is the tokens on their way, then that one request (`OwedCounts`).

An edge is of the host, of the core or of both, and either side may still be in
reset (`Resets`: it then holds its reset values).  `CoreStep`, `HostStep`, `RoomStep`,
`FrontStep`, `OwedStep` and `PortStep` each carry one part of `Bridge` over an edge,
and `AwakeEdges` of the FIFO's proofs gives both FIFOs their half of it.  Nothing is
owed until both domains have left reset, and a reset request is the only way to
lose what is owed.

*Gate.*  `OnlyCompleteIsLoaded` needs `VolumeIsWhole`: the volume holds nothing or
everything, because only a finished download is committed, so the presence test,
which one shard satisfies, is enough.  `PassMeansMatch` needs `AnswersAreWhole`: the
answers already given have one token per prompt.  `FullMatchIsEquality` turns the
count of hits the code compares into equality, by the cardinality of a subset of the
indices.

*Arithmetic.*  No state is carried from one operation to the next, so the work is in
lemmas about operators.  The array backend selects with successive overrides where
the golden returns early: `LastStays` makes a list of overrides the golden's chain of
cases.  Where the golden counts leading zeros, the backend halves an interval:
`NormStepsAre` shows that the halvings end at the top bit.  The golden shifts out bits
one at a time and keeps a sticky bit; `AlignedIs` says what is left.  For
`AlwaysRoundsToNearest` a sum with a sticky bit stands for the exact sum if it is
equal to it, or odd and less than one off (`Sticky`); then rounding either gives the same word
(`StickyRounds`), and a sum that carries out of its binade, where it does not, stays
within 5/8 of a unit (`CarryRounds`): the bound the run states.  The largest magnitude
of a row is one of the row and at least all of it (`TopOfRow`), which is all
`AlwaysTight` needs.

*Matrix product.*  `GemmInv`: each accumulator is the sum of the products of its block
up to the current index (`AccInv`), what is folded is the prefix of the fold of the
finished accumulators (`FoldInv`), and every finished column is such a fold, narrowed
(`ColumnInv`).  A sum over a set takes its elements in the order of a CHOOSE;
`SumGrows` and `SumIsUnique` free it from that order, and `SumIsBounded` keeps a
block's sum within the search.  The array's fold starts from the first term where the
golden's starts from +0: `FirstTerm`, `AddKeepsSame` and `NarrowKeepsSame` carry "equal
up to the sign of a zero" through it.

Recursive functions over an interval and folds over a finite set are within reach
although induction theorems are not: `Iteration` and `SumsExist` show that the recursive
equation has a solution, which makes the CHOOSE one, and what the solution computes
follows by an argument about the least index that fails (`NatSets`).

*Checkpoint.*  `PathInv` has two parts.  `PackerInv` says what each step has left
behind: the file read back is the file written (`Recovered`: the offsets of the header
are prefix sums of lengths, and regrouping the parts of an element gives the element),
the weights loaded are the file's, classified, in file order (`LoadedFrom`), and the
image after `packed` of them is theirs, tile after tile: each descriptor's words are
its tile's (`InMemory`), each tile of each weight has one descriptor, and appending
another weight moves none of them (`StillInMemory`, `RelocatedIs`).  `FeedInv` says
what the loader has done: the tiles given out are the first of the image, whole except
the last; the scales captured so far are the memory's, and the word in flight is the
next one (`ScaleState`, `StreamState`, the one cycle of read latency in both).  Without
the second part the word that arrives in a cycle could be any word of memory.
`TileDescribes` joins them: the lanes of a tile's words are the codes and scales of the
checkpoint's columns, zero beyond the last.  A word is a sum of bytes times powers of
256, and that `Lane` gets the bytes back is `LaneOnTop`, one byte at a time.  The
self-test runs the same way back (`UnpackIs`), by the one tile a column is in
(`TileOfColumn`).

*Replay.*  `DictInv`: the keys are distinct and at most as many as there are slots, so
moving a key to the end or dropping the first is the stack's operation, read from the
other end.

*Placement.*  `LayoutInv`: a channel's load is the number of experts assigned to it and
at most the cap, and the experts assigned are the first of the ranking.  While one is
left the loads add up to fewer than the channels can hold, so a channel has room: the
packer's default channel 0 is never taken unseen.  The report also needs `DrawnInv`: a
fetch is of K different experts (`MergedIs`: carried ones are left out of the fresh).
Then both sides of `CollisionsAreCounted` are sums of ones over the same set, of pairs
of reads that meet, counted by token in one and by pair of experts in the other
(`SharedIs`, `MeetingsAre`), and the ceiling is that K reads on n channels put at least
K/n and at most the cap on the fullest (`FullestIs`).

*Figures.*  Every record of the operator tier is `Measured` of some product
(`AllMeasured`), so the work is in `error_stats`.  If a difference is undefined the sum
is NaN; else if one is infinite, largest and sum are; else it is a sum of squares of
naturals, which is at least its largest term and at most that term for each element
that differs (`FiniteErrors`).  `argmax`, a fold, and the top of a stable sort are both
the first of the largest (`FirstLargest`) where no NaN breaks the order.

### Only model-checked

- Liveness (`NoChannelStarves`, `BootCompletes`, `FlagsCatchUp`, `WeightsArrive`) and
  `HostIsServed`, half of which is liveness: this prover has neither fairness nor
  ENABLED.
- The codes (`Lossless`, `CodesAreOptimal`): that package-merge is optimal and leaves
  room for a prefix code is a theorem about sorting and merging lists of packages, and
  `Lossless` rests on it.
- `BatchingAmortizes`: the formula's value as a mean over all draws, and two countings
  of a trace; section 7 lists it.

## 5. Where the code and its documents disagree

Three runs end in a counterexample.

1. `expert_cache_hit_evicted`.  `docs/FORMAL.md` P1 says a hit returns the slot
   holding the expert; it was proved with prefetch disabled.  With frequency
   replacement and `CACHE_HIT_LAT > 0`, a prefetch that completes while a hit
   waits for its GDDR6 read may evict the hit's slot: the answer then names a slot
   holding another expert.  Under LRU the slot just touched is never the victim,
   and the property holds.
2. `spec_decode_top_committed`.  The bonus beat of the rolling controller repeats
   the verified token it equals, while the cursor advances by one: taken beat by
   beat, each accepted token leaves twice.  Without the bonus beats the stream is
   greedy (`ImplementsVerifiedGreedy`).
3. `fp_add`.  `fp32_add` is described as round to nearest even.  When the
   significands carry out, the renormalising shift drops the lowest bit, a sticky,
   and a sum just above a tie is rounded as the tie.  `RoundsToNearest` states what
   does hold: nearest without a carry, within 5/8 of a unit in the last place with
   one.

Met while modelling, and outside what the runs instantiate:

- `spec_batched_top.v` line 255: all rows of a batched pass are evaluated at the
  position of the first, so the token after an accepted draft is the model's choice
  at a wrong position; the headers promise position t + j and greedy output for
  any K.  What holds is `ImplementsPassStream`, the same stream with that position.
- `kv_cache_pager.v`: appending the last of `2^POSW` positions wraps the row count
  to zero and makes every row non-resident (lines 70 and 253); `RESIDENT = 2^POSW`
  truncates to zero in the comparison with the same effect (212); a ring of one row
  addresses slot 1 of one slot (80).  `KvPager` shows each of them when given such
  constants; `flash_streams` stays clear of all three.  A gather presented
  while the pager is busy is dropped without a sign (261).
- `expert_cache_pf.v` line 439: a demand for a resident expert presented in the
  cycle a prefetch completes is queued, and may find its expert just evicted.  The
  header's zero-stall promise has that exception; `BoundedLatency` includes it.
- `glm_fp8_system.v`: the host appends the whole window again at every run, so a
  context of `2^POSW` rows is used up by the sum of the windows.
- `glm_fp8_system_cdc.v`: `done` reaches the host before `tok_valid` (about three
  host edges against five), while on `glm_fp8_system.v` both rise together.  The
  host of `SystemCdc` therefore starts again at `done`, the harder case.
- `modal_validate.py` lines 564-565: a patched Linear whose product raises falls
  back to the original forward, and only `patched` is printed, which counts it.
  `docs/MODAL_VALIDATE.md:97-99` says that partial coverage is reported.  Tier 1's
  reference multiplies by fp32 scales (403) where the contract rounds them to bf16
  (394), so its exact rate includes that difference.
- `modal_validate.py` lines 137-144: `error_stats` describes one NaN in several ways.
  `g == c` denies it, `max(max_abs, d)` and `max(max_rel, ...)` pass it over, the sum
  of squares keeps it.  An element with a NaN on either side, and nothing else wrong,
  leaves `exact < n` with `max_abs` and `max_rel` 0.0; the same infinity on both sides
  counts as exact, has a NaN difference, and leaves every element exact with an
  `rms_abs` of NaN.  Only `rms_abs` says that a difference is undefined, which is what
  `FiguresAgree` states; the other figures agree when it is not NaN.  A NaN also
  leaves `topk_overlap` to the order the sort meets it in, which is not modelled, and
  `argmax` at a NaN that comes first.
- `glm_fp8_contract.py`: the array fold starts from the first block's term, the
  golden from +0: a product whose terms are all -0 differs in sign.  NaN codes and
  activations are outside the contract (516, 610) and differ between backends.
- `ckpt_pack.py`: `weight_block_size` of the checkpoint is read (211) but tiles are
  packed with the constant `BLK` (238).
- `weight_loader.v`: a tile with `k_len = 0` never ends, and a `load` while busy is
  dropped without a sign.  The host of `Checkpoint` issues neither.
- `weight_decomp2.v`: a decoder with room in its buffer may accept bytes past the
  one that holds the end marker; a producer that runs blocks together would lose
  them.  Vector files pad each block, and the model's producer follows them.
- `cdc_check.py` looks at right-hand sides only: a register of another clock in a
  condition is not seen.

## 6. Not modelled

- The transcendental and reduction units (softmax, RoPE, normalisation, sampling)
  and the datapath's sequencers.  The repository checks them against bit-exact
  references.  The datapath appears as an external function or a run of free length.
- The full width of fp32: operators are parametric in the widths, and a run at 23
  mantissa bits would leave TLC's integers.
- Statistics counters that steer nothing (hits, stalls, prefetch counts, dropped
  episodes).
- In the pager, the ECC = 1 instance; in the cache, `pf_flag`, which only feeds a
  counter; in the system, the DDR5 issuer, the decompressor mux and the loopback of
  `glm_fp8_system.v` sections 7 to 9.
- A Flash that returns words of a copy cut short by a reset of the loader alone:
  the reset modelled is the package's, which stops the Flash too.
- A reset pulse shorter than an edge of either clock, or of one domain alone; the
  wrapper's header leaves both to the integrator.
- A router that holds its request until the answer, and a run of zero passes: the
  documents exclude the one and give the other no meaning.
- In the gate, a volume that persists files no `volume.commit()` has named: the
  model takes the explicit commit as the only way to persist.  Modal also commits
  volumes in the background while a container runs.  `OnlyCompleteIsLoaded` and
  `CompleteCheckpoint` rest on that not happening during a download: a container lost
  after such a commit would leave a partial checkpoint, and the presence test
  (`modal_validate.py:235`), which one shard satisfies, would accept it.  Logging,
  argument parsing and the reference models.
- The random generators' distributions: every draw is possible.
- The components marked so in `PROJECT.json`, with the reason.

## 7. Plan

In order of importance; each step adds its properties for the hazards listed.

1. *Sections 7 to 9 of the system*: the DDR5 issuer, whose one-bit pending flags
   merge requests, over `Ddr5Xbar`, and the loopback that stops the die's clock
   until its column is back; then `WeightDecomp` in front of `WeightLoader`.
2. *Reliability*: `EccMem` (read, scrub, write), the ECC = 1 pager, `Mbist`.
3. *Clock gating*: `ClkEnCtrl`, no cluster stopped with work pending.
4. *Chained drafting*: `SpecChainTop` on `SpecSeqBatch`, against `GreedyStream`.
5. *Tensor processor*: the control of `tpu_top.v`, `dma_controller.v`,
   `axi_master_dma.v` and `tpu_axi.v`, against an in-order instruction stream and
   an in-order byte copy.
6. *Datapath sequencers*: handshake skeletons of the FP8 model, decoder block,
   attention and router, composed: every start is followed by one done, and each
   pull is answered before the next.

Proofs, in order: `BatchingAmortizes` (the two countings first, then the formula as a
mean over draws); `BusyUntilOver`, the safety half of `HostIsServed`, from the counts
`Bridge` already has and two more flops; the decoder's half of `Lossless`, for any
prefix code; and the refinements of the modules above as they are written.
