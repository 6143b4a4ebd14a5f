----------------------------- MODULE ExpertCache -----------------------------
(***************************************************************************)
(* src/expert_cache_pf.v: the expert-weight cache with its best-effort     *)
(* prefetch port.  A demand miss and a prefetch share one Flash channel; a *)
(* prefetch that has started is not pre-empted, so a demand that misses    *)
(* meanwhile is queued behind it and looked up again afterwards.  One step *)
(* is one clock edge.  The router presents a demand for one cycle and only *)
(* while busy is low; the Flash answers within FLASH_LAT cycles.  The      *)
(* statistics counters, and pf_flag that only feeds them, are left out.    *)
(***************************************************************************)
EXTENDS ExpertDirectory

CONSTANTS
  Builds,         \* the instances considered: see build
  FREQ_MAX,       \* ceiling of a frequency counter, 2^FREQ_W - 1
  AGE_PERIOD,     \* frequency updates between two halvings
  FLASH_LAT       \* external: most cycles a Flash fetch takes

ASSUME CacheAssumption ==
  /\ Builds \subseteq [REPL_POLICY : {0, 1}, CACHE_HIT_LAT : Nat, Hint : SUBSET Expert]
  /\ FREQ_MAX \in Nat \ {0}
  /\ AGE_PERIOD \in Nat \ {0}
  /\ FLASH_LAT \in Nat \ {0}

VARIABLES
  build,                       \* the parameters of this instance, and the
                               \* experts its predictor may hint
  state, victim_q, req_id_q,
  flash_req, flash_expert_id,
  resp_valid, hit, resp_slot, busy,
  freq, acc_ctr,               \* access frequency of each slot, aging counter
  pf_id_q,                     \* the prefetch in flight
  hit_wait,                    \* cycles left of a hit's GDDR6 read
  dmd_pending, dmd_pending_id, \* the demand queued behind a prefetch
  fl_age,                      \* external: cycles the Flash fetch has taken
  ask,                         \* observation: the demand not yet answered
  wait                         \* observation: edges since it was presented

REPL_POLICY == build.REPL_POLICY      \* 0: exact LRU; 1: least frequently used, aging
CACHE_HIT_LAT == build.CACHE_HIT_LAT  \* cycles a hit waits for the GDDR6 read

dir == <<valid, tag, rank>>
ctrl == <<state, victim_q, req_id_q, flash_req, flash_expert_id>>
answer == <<resp_valid, hit, resp_slot>>
queued == <<dmd_pending, dmd_pending_id>>
vars == <<build, dir, ctrl, answer, busy, freq, acc_ctr, pf_id_q, hit_wait, queued,
          fl_age, ask, wait>>

Init ==
  /\ build \in Builds
  /\ DirInit
  /\ state = "IDLE" /\ victim_q = 0 /\ req_id_q = 0 /\ pf_id_q = 0
  /\ flash_req = FALSE /\ flash_expert_id = 0
  /\ resp_valid = FALSE /\ hit = FALSE /\ resp_slot = 0 /\ busy = FALSE
  /\ freq = [s \in Slot |-> 0] /\ acc_ctr = 0
  /\ hit_wait = 0
  /\ dmd_pending = FALSE /\ dmd_pending_id = 0
  /\ fl_age = 0
  /\ ask = None /\ wait = 0

(* The least frequent resident slot, the stalest of equals.                *)
freq_slot == CHOOSE s \in Slot : \A t \in Slot :
               freq[s] < freq[t] \/ (freq[s] = freq[t] /\ rank[s] >= rank[t])
victim_slot == IF Empty # {} THEN invalid_slot
               ELSE IF REPL_POLICY # 0 THEN freq_slot ELSE lru_slot

(* The id the lookup compares: the queued demand once the prefetch is done.*)
query_id(req) == IF state = "DMD_REST" THEN dmd_pending_id ELSE req

pf_ready_busy == hit_wait = 0          \* mutation: a hint is taken during a fetch
pf_ready == state = "IDLE" /\ hit_wait = 0

(* A frequency update: age every slot when due, then set the touched one.  *)
freq_touch(s, fresh) ==
  IF REPL_POLICY = 0 THEN UNCHANGED <<freq, acc_ctr>> ELSE
  LET due == acc_ctr = AGE_PERIOD - 1
      touched == IF fresh THEN 1
                 ELSE IF freq[s] = FREQ_MAX THEN FREQ_MAX ELSE freq[s] + 1
  IN /\ acc_ctr' = IF due THEN 0 ELSE acc_ctr + 1
     /\ freq' = [t \in Slot |-> IF t = s THEN touched
                                ELSE IF due THEN freq[t] \div 2 ELSE freq[t]]

(* A demand hit: answered now, or after CACHE_HIT_LAT cycles of busy.      *)
ServeHit(s) ==
  /\ hit' = TRUE /\ resp_slot' = s
  /\ rank' = ToFront(s)
  /\ UNCHANGED <<valid, tag>>
  /\ freq_touch(s, FALSE)
  /\ IF CACHE_HIT_LAT = 0
       THEN resp_valid' = TRUE /\ busy' = FALSE /\ UNCHANGED hit_wait
       ELSE resp_valid' = FALSE /\ busy' = TRUE /\ hit_wait' = CACHE_HIT_LAT

(* One more cycle of the GDDR6 read of a hit.                              *)
HitRead ==
  /\ hit_wait' = hit_wait - 1
  /\ resp_valid' = (hit_wait = 1)
  /\ busy' = IF hit_wait = 1 THEN FALSE ELSE busy

NoAnswer == resp_valid' = FALSE
SameDir == UNCHANGED <<dir, freq, acc_ctr>>
-----------------------------------------------------------------------------
IdleHitRead ==
  /\ state = "IDLE" /\ hit_wait # 0
  /\ HitRead
  /\ SameDir
  /\ UNCHANGED <<ctrl, hit, resp_slot, pf_id_q, queued>>

IdleDemandHit(req) ==
  /\ state = "IDLE" /\ hit_wait = 0
  /\ req # None /\ Resident(query_id(req))
  /\ ServeHit(lookup_slot(query_id(req)))
  /\ UNCHANGED <<ctrl, pf_id_q, queued>>

IdleDemandMiss(req) ==
  /\ state = "IDLE" /\ hit_wait = 0
  /\ req # None /\ ~Resident(query_id(req))
  /\ busy' = TRUE /\ flash_req' = TRUE /\ flash_expert_id' = req
  /\ req_id_q' = req /\ victim_q' = victim_slot
  /\ state' = "FETCH"
  /\ NoAnswer
  /\ SameDir
  /\ UNCHANGED <<hit, resp_slot, pf_id_q, hit_wait, queued>>

IdlePrefetch(req, hint) ==
  /\ pf_ready /\ req = None /\ hint # None
  /\ pf_id_q' = hint
  /\ IF Resident(hint)
       THEN UNCHANGED <<state, flash_req, flash_expert_id>>
       ELSE flash_req' = TRUE /\ flash_expert_id' = hint /\ state' = "PF_FETCH"
  /\ NoAnswer
  /\ SameDir
  /\ UNCHANGED <<victim_q, req_id_q, hit, resp_slot, busy, hit_wait, queued>>

Idle(req, hint) ==
  /\ state = "IDLE" /\ hit_wait = 0 /\ req = None /\ hint = None
  /\ NoAnswer
  /\ SameDir
  /\ UNCHANGED <<ctrl, hit, resp_slot, busy, pf_id_q, hit_wait, queued>>

FetchDone ==
  /\ state = "FETCH"
  /\ flash_req' = FALSE
  /\ Install(victim_q, req_id_q)
  /\ freq_touch(victim_q, TRUE)
  /\ resp_valid' = TRUE /\ hit' = FALSE /\ resp_slot' = victim_q
  /\ busy' = FALSE
  /\ state' = "IDLE"
  /\ UNCHANGED <<victim_q, req_id_q, flash_expert_id, pf_id_q, hit_wait, queued>>

FetchWait ==
  /\ state = "FETCH"
  /\ NoAnswer
  /\ SameDir
  /\ UNCHANGED <<ctrl, hit, resp_slot, busy, pf_id_q, hit_wait, queued>>

(* A demand presented while a prefetch is in flight and none is queued.    *)
late_demand_lost(req) == FALSE         \* mutation: not looked at as the prefetch ends
late_demand(req) == hit_wait = 0 /\ req # None /\ ~dmd_pending

(* The prefetch completes: it is installed unless already resident; a      *)
(* demand that is queued, or presented on this very cycle, is looked up    *)
(* again at the next edge.                                                 *)
PrefetchDone(req) ==
  /\ state = "PF_FETCH"
  /\ flash_req' = FALSE
  /\ IF Resident(pf_id_q)
       THEN SameDir
       ELSE Install(victim_slot, pf_id_q) /\ freq_touch(victim_slot, TRUE)
  /\ state' = IF hit_wait = 0 /\ (late_demand(req) \/ dmd_pending)
                THEN "DMD_REST" ELSE "IDLE"
  /\ IF late_demand(req)
       THEN dmd_pending' = TRUE /\ dmd_pending_id' = req /\ busy' = TRUE
       ELSE UNCHANGED <<queued, busy>>
  /\ NoAnswer
  /\ UNCHANGED <<victim_q, req_id_q, flash_expert_id, hit, resp_slot, pf_id_q,
                 hit_wait>>

PrefetchHitRead ==
  /\ state = "PF_FETCH" /\ hit_wait # 0
  /\ HitRead
  /\ SameDir
  /\ UNCHANGED <<ctrl, hit, resp_slot, pf_id_q, queued>>

PrefetchDemandHit(req) ==
  /\ state = "PF_FETCH" /\ hit_wait = 0
  /\ req # None /\ ~dmd_pending /\ Resident(query_id(req))
  /\ ServeHit(lookup_slot(query_id(req)))
  /\ UNCHANGED <<ctrl, pf_id_q, queued>>

PrefetchDemandMiss(req) ==
  /\ state = "PF_FETCH" /\ hit_wait = 0
  /\ req # None /\ ~dmd_pending /\ ~Resident(query_id(req))
  /\ dmd_pending' = TRUE /\ dmd_pending_id' = req /\ busy' = TRUE
  /\ NoAnswer
  /\ SameDir
  /\ UNCHANGED <<ctrl, hit, resp_slot, pf_id_q, hit_wait>>

PrefetchWait(req) ==
  /\ state = "PF_FETCH" /\ hit_wait = 0
  /\ req = None \/ dmd_pending
  /\ NoAnswer
  /\ SameDir
  /\ UNCHANGED <<ctrl, hit, resp_slot, busy, pf_id_q, hit_wait, queued>>

(* The queued demand is looked up again, now that the directory is settled.*)
RestHit(req) ==
  /\ state = "DMD_REST" /\ Resident(query_id(req))
  /\ ServeHit(lookup_slot(query_id(req)))
  /\ dmd_pending' = FALSE
  /\ state' = "IDLE"
  /\ UNCHANGED <<victim_q, req_id_q, flash_req, flash_expert_id, pf_id_q,
                 dmd_pending_id>>

RestMiss(req) ==
  /\ state = "DMD_REST" /\ ~Resident(query_id(req))
  /\ flash_req' = TRUE /\ flash_expert_id' = dmd_pending_id
  /\ req_id_q' = dmd_pending_id /\ victim_q' = victim_slot
  /\ busy' = TRUE
  /\ dmd_pending' = FALSE
  /\ state' = "FETCH"
  /\ NoAnswer
  /\ SameDir
  /\ UNCHANGED <<hit, resp_slot, pf_id_q, hit_wait, dmd_pending_id>>
-----------------------------------------------------------------------------
Edge(req, hint, flash_done) ==
  \/ IdleHitRead
  \/ IdleDemandHit(req)
  \/ IdleDemandMiss(req)
  \/ IdlePrefetch(req, hint)
  \/ Idle(req, hint)
  \/ flash_done /\ (FetchDone \/ PrefetchDone(req))
  \/ ~flash_done /\ (\/ FetchWait
                     \/ PrefetchHitRead
                     \/ PrefetchDemandHit(req)
                     \/ PrefetchDemandMiss(req)
                     \/ PrefetchWait(req))
  \/ RestHit(req)
  \/ RestMiss(req)

(* The environment: what the router, the predictor and the Flash may drive *)
(* in this cycle, and the observation of the demand they left unanswered.  *)
Presented == IF busy THEN {None} ELSE Expert \cup {None}
Completing == IF ~flash_req THEN {FALSE}
              ELSE IF fl_age = FLASH_LAT - 1 THEN {TRUE} ELSE BOOLEAN

(* The demand not yet answered and how long it has waited.                 *)
ObserveDemand(req) ==
  /\ ask' = IF req # None THEN req ELSE IF resp_valid THEN None ELSE ask
  /\ wait' = IF req # None THEN 1
             ELSE IF resp_valid \/ ask = None THEN 0 ELSE wait + 1

Observe(req, flash_done) ==
  /\ fl_age' = IF flash_req /\ ~flash_done THEN fl_age + 1 ELSE 0
  /\ ObserveDemand(req)

Cycle == \E req \in Presented, hint \in build.Hint \cup {None},
            flash_done \in Completing :
           Edge(req, hint, flash_done) /\ Observe(req, flash_done)

Reset ==
  /\ DirReset
  /\ state' = "IDLE" /\ victim_q' = 0 /\ req_id_q' = 0 /\ pf_id_q' = 0
  /\ flash_req' = FALSE /\ flash_expert_id' = 0
  /\ resp_valid' = FALSE /\ hit' = FALSE /\ resp_slot' = 0 /\ busy' = FALSE
  /\ freq' = [s \in Slot |-> 0] /\ acc_ctr' = 0
  /\ hit_wait' = 0
  /\ dmd_pending' = FALSE /\ dmd_pending_id' = 0
  /\ fl_age' = 0
  /\ ask' = None /\ wait' = 0

Next == (Cycle \/ Reset) /\ UNCHANGED build

Spec == Init /\ [][Next]_vars
-----------------------------------------------------------------------------
TypeOK ==
  /\ build \in Builds
  /\ DirTypeOK
  /\ state \in {"IDLE", "FETCH", "PF_FETCH", "DMD_REST"}
  /\ victim_q \in Slot /\ req_id_q \in Expert /\ pf_id_q \in Expert
  /\ flash_req \in BOOLEAN /\ flash_expert_id \in Expert
  /\ resp_valid \in BOOLEAN /\ hit \in BOOLEAN /\ resp_slot \in Slot
  /\ busy \in BOOLEAN
  /\ freq \in [Slot -> 0 .. FREQ_MAX] /\ acc_ctr \in 0 .. AGE_PERIOD - 1
  /\ hit_wait \in 0 .. CACHE_HIT_LAT
  /\ dmd_pending \in BOOLEAN /\ dmd_pending_id \in Expert
  /\ fl_age \in 0 .. FLASH_LAT - 1
  /\ ask \in Expert \cup {None} /\ wait \in Nat

(* No expert sits in two slots, with demand fetches, prefetches and queued *)
(* demands installing into one directory (docs/FORMAL.md P2b, which is     *)
(* proved there only with prefetch disabled).                              *)
NoDuplicate ==
  \A s, t \in Slot : valid[s] /\ valid[t] /\ tag[s] = tag[t] => s = t

(* The slot a demand is answered with holds the expert it asked for at the *)
(* moment of the answer (docs/FORMAL.md P1).                               *)
ResponseHoldsExpert ==
  resp_valid => ask # None /\ valid[resp_slot] /\ tag[resp_slot] = ask

(* A hit can be trusted: the registers keep their ranges, no expert is     *)
(* cached twice, and every answer names the slot of its expert.            *)
HitsAreSound == TypeOK /\ NoDuplicate /\ ResponseHoldsExpert

(* A demand not yet answered stalls the router and is in exactly one of    *)
(* the three places that lead to its answer, with its own id: none is lost *)
(* on the cycle a prefetch completes, and busy never drops early.          *)
OwedIsTracked ==
  ask # None /\ ~resp_valid =>
    /\ busy
    /\ \/ state = "FETCH" /\ req_id_q = ask /\ ~dmd_pending /\ hit_wait = 0
       \/ state \in {"PF_FETCH", "DMD_REST"} /\ dmd_pending
            /\ dmd_pending_id = ask /\ hit_wait = 0
       \/ state \in {"IDLE", "PF_FETCH"} /\ hit_wait # 0 /\ ~dmd_pending

(* A demand is answered within 2 FLASH_LAT + 1 cycles of being presented,  *)
(* or FLASH_LAT + CACHE_HIT_LAT + 1 when a late hit's own read is longer,  *)
(* whatever the predictor hints (docs/FORMAL.md P3).                       *)
BoundedLatency ==
  wait <= IF FLASH_LAT >= CACHE_HIT_LAT THEN 2 * FLASH_LAT + 1
          ELSE FLASH_LAT + CACHE_HIT_LAT + 1

(* The id of a fetch does not change while the Flash is working on it,     *)
(* although a demand may be queued, or a hint accepted, meanwhile.         *)
FlashIdStable ==
  [][flash_req /\ flash_req' => flash_expert_id' = flash_expert_id]_vars

(* With the LRU policy the cache is the textbook exact-LRU stack, prefetch *)
(* installs included; a hit latency would only put the answer off.         *)
Lru == INSTANCE LruCache
         WITH size <- SLOTS, stack <- Stack,
              answer <- IF resp_valid THEN <<tag[resp_slot], hit>> ELSE << >>
ImplementsLru ==
  /\ Lru!Init
  /\ [][REPL_POLICY = 0 /\ CACHE_HIT_LAT = 0 => [Lru!Next]_(Lru!vars)]_vars

(* With no hints and no hit latency the demand path is expert_cache_ctrl,  *)
(* cycle for cycle.                                                        *)
Ctrl == INSTANCE ExpertCacheCtrl
ImplementsCtrl ==
  /\ Ctrl!Init
  /\ [][build.Hint = {} /\ REPL_POLICY = 0 /\ CACHE_HIT_LAT = 0
          => [Ctrl!Next]_(Ctrl!vars)]_vars

(* The Flash is driven as expert_cache_ctrl drives it: the id of a fetch   *)
(* holds until it ends, and without hints the two are the same machine.    *)
DrivesFlashAsCtrl == FlashIdStable /\ ImplementsCtrl
=============================================================================
