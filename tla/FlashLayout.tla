------------------------------ MODULE FlashLayout ------------------------------
(***************************************************************************)
(* The offline placement of experts on Flash channels, flash_layout: from  *)
(* how often experts are fetched together it packs each layer's experts,   *)
(* the most frequent first, on the channel under its cap where they        *)
(* collide least, and measures the layout against two naive ones.          *)
(***************************************************************************)
EXTENDS RouterTrace

CONSTANTS
  Channels,     \* fabric widths tried, each a power of two
  Shuffles      \* outcomes of rng.shuffle considered

Experts == 0 .. E - 1

ASSUME FabricAssumption ==
  /\ Channels \subseteq {2 ^ i : i \in 0 .. 6}
  /\ \A p \in Shuffles : DOMAIN p = Experts /\ Range(p) = Experts

VARIABLES
  packer,      \* "optimized", "roundrobin", "random", or "none"
  n_ch,        \* channels
  layout,      \* finished layers, each a function from experts to channels
  assign, load \* the layer being packed: channels of its placed experts, channel loads

layoutVars == << packer, n_ch, layout, assign, load >>

NoLoad(n) == [ch \in 0 .. n - 1 |-> 0]
Nobody == [e \in {} |-> 0]

LayoutIdle == packer = "none" /\ n_ch = 1 /\ layout = << >> /\ assign = Nobody /\ load = NoLoad(1)

LayoutStart(name, n) ==
  /\ packer' = name /\ n_ch' = n
  /\ layout' = << >> /\ assign' = Nobody /\ load' = NoLoad(n)

(* Tokens of a selection that fetch e, or both d and e, in layer l.        *)
coactivation(s) ==
  [l \in Layers |->
     [freq |-> [e \in Experts |-> Cardinality({t \in DOMAIN s : Contains(s[t][l], e)})],
      co |-> [p \in Experts \X Experts |->
                Cardinality({t \in DOMAIN s : Contains(s[t][l], p[1]) /\ Contains(s[t][l], p[2])})]]]

cap == (E + n_ch - 1) \div n_ch

(* Sorted by falling frequency, the lower number first among equals: as    *)
(* many experts come before the i-th as its place says.                    *)
ByFrequency(freq) ==
  LET before(d, e) == freq[d] > freq[e] \/ (freq[d] = freq[e] /\ d < e)
  IN  [i \in 1 .. E |-> CHOOSE e \in Experts : Cardinality({d \in Experts : before(d, e)}) = i - 1]

Conflict(co, e, ch) ==
  SumFunction([d \in {d \in DOMAIN assign \ {e} : assign[d] = ch} |-> co[<< d, e >>]])

Open_all == DOMAIN load     \* mutation: the cap is not looked at
Open == {ch \in DOMAIN load : load[ch] < cap}

(* The least key (conflict, load, channel) of the channels with room; the  *)
(* loop starts from channel 0, which stays when none has room.             *)
BestChannel(co, e) ==
  LET less(c, d) == \/ Conflict(co, e, c) < Conflict(co, e, d)
                    \/ /\ Conflict(co, e, c) = Conflict(co, e, d)
                       /\ load[c] < load[d] \/ (load[c] = load[d] /\ c < d)
  IN  IF Open = {} THEN 0 ELSE CHOOSE c \in Open : \A d \in Open \ {c} : less(c, d)

pack_optimized ==
  /\ packer = "optimized" /\ Len(layout) < L
  /\ LET stats == coactivation(build_selection(TOKENS))[Len(layout)]
         e == ByFrequency(stats.freq)[Cardinality(DOMAIN assign) + 1]
         ch == BestChannel(stats.co, e)
         assigned == [d \in DOMAIN assign \cup {e} |-> IF d = e THEN ch ELSE assign[d]]
     IN  IF Cardinality(DOMAIN assigned) < E
         THEN /\ assign' = assigned /\ load' = [load EXCEPT ![ch] = @ + 1]
              /\ UNCHANGED layout
         ELSE /\ layout' = Append(layout, assigned)
              /\ assign' = Nobody /\ load' = NoLoad(n_ch)
  /\ UNCHANGED << packer, n_ch >>

PackLayer(name, assigned) ==
  /\ packer = name /\ Len(layout) < L
  /\ layout' = Append(layout, assigned)
  /\ UNCHANGED << packer, n_ch, assign, load >>

RoundRobin_blocks == [e \in Experts |-> e \div n_ch]     \* mutation: neighbours on one channel
RoundRobin == [e \in Experts |-> e % n_ch]
pack_roundrobin == PackLayer("roundrobin", RoundRobin)
pack_random == \E at \in Shuffles : PackLayer("random", [e \in Experts |-> RoundRobin[at[e]]])

(* Reads of one fetch on each channel; the fullest channel sets the time.  *)
Chans(s, lay, n, t, l) ==
  [ch \in 0 .. n - 1 |-> Cardinality({i \in 1 .. K : lay[l + 1][s[t][l][i]] = ch})]
measure(s, lay, n) ==
  LET fetches == (DOMAIN s) \X Layers
      rounds == [f \in fetches |-> Max(Range(Chans(s, lay, n, f[1], f[2])))]
  IN  [n_fetch |-> Cardinality(fetches),
       worst_max |-> Max(Range(rounds)),
       actual_rounds |-> SumFunction(rounds),
       sum_reads |-> K * Cardinality(fetches),
       hist |-> [m \in 1 .. K |-> Cardinality({f \in fetches : rounds[f] = m})]]

(* Traffic of each channel over the whole selection.                       *)
load_balance(lay, stats, n) ==
  [ch \in 0 .. n - 1 |->
     SumFunction([p \in {p \in Layers \X Experts : lay[p[1] + 1][p[2]] = ch} |-> stats[p[1]].freq[p[2]]])]
--------------------------------------------------------------------------------

Packed == packer # "none" /\ Len(layout) = L

(* Every expert of every layer gets a channel of its own fabric, and no    *)
(* channel holds more than its cap: the greedy packer never runs out of    *)
(* channels with room, so its default channel 0 is never what it takes.    *)
LayoutIsBalanced ==
  /\ \A i \in DOMAIN layout :
       /\ DOMAIN layout[i] = Experts
       /\ \A ch \in 0 .. n_ch - 1 : Cardinality({e \in Experts : layout[i][e] = ch}) <= cap
       /\ Range(layout[i]) \subseteq 0 .. n_ch - 1
  /\ \A ch \in DOMAIN load : load[ch] = Cardinality({e \in DOMAIN assign : assign[e] = ch})

(* What the greedy packer minimises is what the measurement charges: the   *)
(* co-activation of experts on a common channel counts the pairs of reads  *)
(* that met on a channel, and the traffic of all channels the reads.       *)
Pairs(k) == (k * (k - 1)) \div 2
Meetings(s) ==
  [f \in (DOMAIN s) \X Layers \X (0 .. n_ch - 1) |-> Pairs(Chans(s, layout, n_ch, f[1], f[2])[f[3]])]
Shared(stats) ==
  [p \in {p \in Layers \X Experts \X Experts :
            p[2] < p[3] /\ layout[p[1] + 1][p[2]] = layout[p[1] + 1][p[3]]}
     |-> stats[p[1]].co[<< p[2], p[3] >>]]
CollisionsAreCounted ==
  Packed =>
    LET s == build_selection(TOKENS)
        stats == coactivation(s)
    IN  /\ SumFunction(Shared(stats)) = SumFunction(Meetings(s))
        /\ SumFunction(load_balance(layout, stats, n_ch)) = measure(s, layout, n_ch).sum_reads

(* The ceiling the tool reports: with K experts on n_ch channels every     *)
(* fetch takes at least K/n_ch rounds, rounded up, and, with at most cap   *)
(* experts of a layer on a channel, never more than cap.                   *)
BandwidthCeiling ==
  Packed =>
    LET r == measure(build_selection(TOKENS), layout, n_ch)
        fewest == (K + n_ch - 1) \div n_ch
    IN  /\ r.worst_max <= cap
        /\ \A m \in 1 .. fewest - 1 : r.hist[m] = 0
        /\ r.actual_rounds = SumFunction([m \in 1 .. K |-> m * r.hist[m]])
        /\ r.actual_rounds * n_ch >= r.sum_reads

(* The report on a layout is sound: its collisions, its traffic and its    *)
(* bandwidth ceiling.                                                      *)
MeasureIsSound == CollisionsAreCounted /\ BandwidthCeiling
================================================================================
