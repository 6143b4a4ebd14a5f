-------------------------- MODULE ExpertCache_proofs --------------------------
(***************************************************************************)
(* The expert cache for every number of slots, set of experts, build and   *)
(* Flash latency: a hit can be trusted, no demand is lost, each is         *)
(* answered within its bound, the Flash is driven as expert_cache_ctrl     *)
(* drives it, and under LRU the directory is the textbook LRU stack.       *)
(* Last, the cache as the system wires it up: behind the queue of the      *)
(* experts the die routes to, with the KV pager on the same Flash.         *)
(***************************************************************************)
EXTENDS MCExpertCache, FiniteSetTheorems, WellFoundedInduction, SequenceTheorems, TLAPS

(* The recency ranks number the slots: every rank belongs to one slot.     *)
RankIsOrder ==
  /\ \A s, t \in Slot : rank[s] = rank[t] => s = t
  /\ \A i \in Slot : \E s \in Slot : rank[s] = i

(* Where a demand that is owed an answer is, and what the cache holds for  *)
(* it; a cache that owes nothing is idle or prefetching.                   *)
Owed == ask # None /\ ~resp_valid

Places ==
  /\ busy <=> Owed
  /\ Owed => state \in {"FETCH", "DMD_REST"} \/ dmd_pending \/ hit_wait # 0
  /\ flash_req <=> state \in {"FETCH", "PF_FETCH"}
  /\ state = "FETCH" => /\ Owed /\ ask = req_id_q /\ ~dmd_pending /\ hit_wait = 0
                        /\ flash_expert_id = req_id_q
  /\ state = "PF_FETCH" => flash_expert_id = pf_id_q
  /\ state = "DMD_REST" => dmd_pending
  /\ dmd_pending => /\ Owed /\ ask = dmd_pending_id /\ hit_wait = 0
                    /\ state \in {"PF_FETCH", "DMD_REST"}
  /\ hit_wait # 0 => Owed /\ state \in {"IDLE", "PF_FETCH"}

(* Nothing is installed or touched during a demand fetch: what it brings   *)
(* is still nowhere, and the victim chosen at the miss still the victim.   *)
FetchSettled == state = "FETCH" => ~Resident(req_id_q) /\ victim_q = victim_slot

(* The slot of a hit that waits for its GDDR6 read keeps its expert.  Only *)
(* the prefetch already under way can be installed meanwhile, and under    *)
(* LRU the slot just touched is not its victim unless it is the only one.  *)
SlowHitsAreSafe == CACHE_HIT_LAT = 0 \/ (REPL_POLICY = 0 /\ SLOTS > 1)
HitIsHeld ==
  SlowHitsAreSafe =>
    /\ ResponseHoldsExpert
    /\ hit_wait # 0 => /\ Holds(resp_slot, ask)
                       /\ state = "PF_FETCH" => rank[resp_slot] = 0

(* How long the demand has waited, by where it is.                         *)
Waited ==
  /\ ask = None => wait = 0
  /\ state = "PF_FETCH" /\ dmd_pending => wait <= fl_age
  /\ state = "DMD_REST" => wait <= FLASH_LAT
  /\ state = "FETCH" => wait <= FLASH_LAT + 1 + fl_age
  /\ hit_wait # 0 => wait + hit_wait <= CACHE_HIT_LAT + 1 +
                                        (IF state = "PF_FETCH" THEN 0 ELSE FLASH_LAT)
  /\ BoundedLatency

(* Without hints no prefetch ever starts.                                  *)
NoHintNoPrefetch == build.Hint = {} => state \in {"IDLE", "FETCH"}

(* The resident slots are the most recent ones.                            *)
RecentAreResident ==
  \A s, t \in Slot : valid[s] /\ rank[t] < rank[s] => valid[t]

Sound == /\ TypeOK /\ RankIsOrder /\ Places /\ FetchSettled /\ NoDuplicate
         /\ HitIsHeld /\ NoHintNoPrefetch
         /\ REPL_POLICY = 0 => RecentAreResident
CacheInv == Sound /\ Waited
-----------------------------------------------------------------------------
(* A function into the naturals takes its least value.                     *)
LEMMA LeastOf ==
  ASSUME NEW S, S # {}, NEW f \in [S -> Nat]
  PROVE  \E x \in S : \A y \in S : f[x] <= f[y]
<1> DEFINE D == {f[x] : x \in S}
<1>1. D \subseteq Nat /\ D # {}
  OBVIOUS
<1>2. PICK n \in D : \A m \in D : ~ (<<m, n>> \in OpToRel(<, Nat))
  BY <1>1, NatLessThanWellFounded, WFMin
<1>3. \A m \in D : ~ (m < n)
  BY <1>1, <1>2 DEF OpToRel
<1>4. \A m \in D : n <= m
  BY <1>1, <1>3
<1> QED
  BY <1>4

(* The lookup of a resident expert finds a slot that holds it.             *)
LEMMA LookupFacts ==
  ASSUME NEW e, Resident(e)
  PROVE  lookup_slot(e) \in Slot /\ Holds(lookup_slot(e), e)
<1> DEFINE S == {s \in Slot : Holds(s, e)}
           f == [s \in S |-> SLOTS - 1 - s]
<1>1. S # {} /\ f \in [S -> Nat]
  BY DirectoryAssumption DEF Resident, Slot
<1>2. PICK s \in S : \A t \in S : f[s] <= f[t]
  <2> HIDE DEF f, S
  <2> QED
    BY <1>1, LeastOf
<1>3. \A t \in Slot : Holds(t, e) => t <= s
  BY <1>2, DirectoryAssumption DEF Slot
<1> QED
  BY <1>3 DEF lookup_slot

(* Whichever policy, the victim is a slot; an empty one when there is one, *)
(* and under LRU otherwise the stalest.                                    *)
LEMMA VictimFacts ==
  ASSUME TypeOK, RankIsOrder
  PROVE  /\ victim_slot \in Slot
         /\ Empty # {} => victim_slot \in Empty
         /\ Empty = {} /\ REPL_POLICY = 0 => rank[victim_slot] = SLOTS - 1
<1>1. Empty # {} => invalid_slot \in Empty
  <2> SUFFICES ASSUME Empty # {} PROVE invalid_slot \in Empty
    OBVIOUS
  <2> DEFINE f == [s \in Empty |-> s]
  <2>1. f \in [Empty -> Nat]
    BY DirectoryAssumption DEF Empty, Slot
  <2>2. PICK s \in Empty : \A t \in Empty : f[s] <= f[t]
    <3> HIDE DEF f
    <3> QED
      BY <2>1, LeastOf
  <2> QED
    BY <2>2 DEF invalid_slot
<1>2. lru_slot \in Slot /\ rank[lru_slot] = SLOTS - 1
  <2>1. SLOTS - 1 \in Slot
    BY DirectoryAssumption DEF Slot
  <2> QED
    BY <2>1 DEF RankIsOrder, lru_slot
<1>3. freq_slot \in Slot
  <2>0. Slot # {}
    BY DirectoryAssumption DEF Slot
  <2>1. freq \in [Slot -> Nat] /\ rank \in [Slot -> Slot]
    BY DEF TypeOK, DirTypeOK
  <2>2. PICK m \in Slot : \A t \in Slot : freq[m] <= freq[t]
    BY <2>0, <2>1, LeastOf
  <2> DEFINE S == {s \in Slot : freq[s] = freq[m]}
             g == [s \in S |-> SLOTS - 1 - rank[s]]
  <2>a. \A t \in Slot : SLOTS - 1 - rank[t] \in Nat
    BY <2>1, DirectoryAssumption, SMTT(30) DEF Slot
  <2>3. S # {} /\ g \in [S -> Nat]
    BY <2>2, <2>a
  <2>4. PICK s \in S : \A t \in S : g[s] <= g[t]
    <3> HIDE DEF g, S
    <3> QED
      BY <2>3, LeastOf
  <2>5. \A t \in Slot : freq[s] < freq[t] \/ (freq[s] = freq[t] /\ rank[s] >= rank[t])
    <3> SUFFICES ASSUME NEW t \in Slot, ~(freq[s] < freq[t])
                 PROVE  freq[s] = freq[t] /\ rank[s] >= rank[t]
      OBVIOUS
    <3>1. freq[s] = freq[t]
      BY <2>1, <2>2
    <3>2. g[s] <= g[t]
      BY <3>1, <2>4
    <3>3. rank[s] \in Int /\ rank[t] \in Int
      BY <2>1, DirectoryAssumption DEF Slot
    <3> QED
      BY <3>1, <3>2, <3>3, DirectoryAssumption
  <2> QED
    BY <2>5 DEF freq_slot
<1> QED
  BY <1>1, <1>2, <1>3 DEF victim_slot, Empty

(* Moving a slot to the front leaves the ranks a numbering of the slots.   *)
LEMMA ToFrontFacts ==
  ASSUME DirTypeOK, RankIsOrder, NEW s \in Slot, rank' = ToFront(s)
  PROVE  /\ rank' \in [Slot -> Slot]
         /\ rank'[s] = 0
         /\ \A t \in Slot : t # s =>
              rank'[t] = IF rank[t] < rank[s] THEN rank[t] + 1 ELSE rank[t]
         /\ RankIsOrder'
<1>1. \A t \in Slot : rank[t] \in Nat /\ rank[t] < SLOTS
  BY DirectoryAssumption, SMTT(30) DEF DirTypeOK, Slot
<1>2. rank'[s] = 0 /\ \A t \in Slot : t # s =>
              rank'[t] = IF rank[t] < rank[s] THEN rank[t] + 1 ELSE rank[t]
  <2>1. \A t \in Slot : rank'[t] = CASE t = s -> 0
                                [] rank[t] < rank[s] -> rank[t] + 1
                                [] OTHER -> rank[t]
    BY DEF ToFront
  <2> QED
    BY <1>1, <2>1
<1>3. \A t \in Slot : rank'[t] \in Slot
  BY <1>1, <1>2, DirectoryAssumption DEF Slot
<1>4. rank' \in [Slot -> Slot]
  BY <1>3 DEF ToFront
<1>5. \A t, u \in Slot : rank'[t] = rank'[u] => t = u
  BY <1>1, <1>2 DEF RankIsOrder
<1>6. ASSUME NEW i \in Slot
      PROVE  \E t \in Slot : rank'[t] = i
  <2>1. CASE i = 0
    BY <1>2, <2>1
  <2>2. CASE i # 0 /\ i <= rank[s]
    <3>1. i - 1 \in Slot /\ i - 1 < rank[s]
      BY <2>2, <1>1, DirectoryAssumption DEF Slot
    <3>2. PICK t \in Slot : rank[t] = i - 1
      BY <3>1 DEF RankIsOrder
    <3> QED
      BY <3>1, <3>2, <1>1, <1>2, DirectoryAssumption DEF Slot
  <2>3. CASE rank[s] < i
    <3>1. PICK t \in Slot : rank[t] = i
      BY DEF RankIsOrder
    <3> QED
      BY <3>1, <2>3, <1>1, <1>2
  <2> QED
    BY <2>1, <2>2, <2>3, <1>1, DirectoryAssumption DEF Slot
<1> QED
  BY <1>2, <1>4, <1>5, <1>6 DEF RankIsOrder
LEMMA TouchFacts ==
  ASSUME DirTypeOK, RankIsOrder, NEW s \in Slot, valid[s], rank' = ToFront(s),
         UNCHANGED <<valid, tag>>
  PROVE  /\ DirTypeOK' /\ RankIsOrder'
         /\ NoDuplicate => NoDuplicate'
         /\ RecentAreResident => RecentAreResident'
<1>1. \A t \in Slot : rank[t] \in Nat
  BY DirectoryAssumption, SMTT(30) DEF DirTypeOK, Slot
<1>2. DirTypeOK' /\ RankIsOrder'
  BY ToFrontFacts DEF DirTypeOK, Slot
<1>3. NoDuplicate => NoDuplicate'
  BY DEF NoDuplicate, Slot
<1>4. ASSUME RecentAreResident, NEW u \in Slot, NEW t \in Slot,
             valid'[u], rank'[t] < rank'[u]
      PROVE  valid'[t]
  BY <1>1, <1>4, ToFrontFacts DEF RecentAreResident
<1> QED
  BY <1>2, <1>3, <1>4 DEF RecentAreResident, Slot

(* Installing an expert that is not resident in a slot caches none twice,  *)
(* and every other slot keeps what it holds.                               *)
LEMMA InstallFacts ==
  ASSUME DirTypeOK, RankIsOrder, NEW s \in Slot, NEW e \in Expert, ~Resident(e),
         Install(s, e)
  PROVE  /\ DirTypeOK' /\ RankIsOrder'
         /\ valid'[s] /\ tag'[s] = e
         /\ \A t \in Slot : t # s => valid'[t] = valid[t] /\ tag'[t] = tag[t]
         /\ NoDuplicate => NoDuplicate'
         /\ RecentAreResident => RecentAreResident'
<1>1. \A t \in Slot : rank[t] \in Nat
  BY DirectoryAssumption, SMTT(30) DEF DirTypeOK, Slot
<1>2. /\ rank' = ToFront(s) /\ valid'[s] = TRUE /\ tag'[s] = e
      /\ \A t \in Slot : t # s => valid'[t] = valid[t] /\ tag'[t] = tag[t]
  BY DEF Install, DirTypeOK
<1>3. valid' \in [Slot -> BOOLEAN] /\ tag' \in [Slot -> Expert]
  BY DEF Install, DirTypeOK
<1>4. DirTypeOK' /\ RankIsOrder'
  BY <1>2, <1>3, ToFrontFacts DEF DirTypeOK, Slot
<1>5. NoDuplicate => NoDuplicate'
  BY <1>2 DEF NoDuplicate, Resident, Holds, Slot
<1>6. ASSUME RecentAreResident, NEW u \in Slot, NEW t \in Slot,
             valid'[u], rank'[t] < rank'[u]
      PROVE  valid'[t]
  <2>1. CASE t = s
    BY <2>1, <1>2
  <2>2. CASE t # s /\ u = s
    BY <2>2, <1>1, <1>2, <1>6, ToFrontFacts
  <2>3. CASE t # s /\ u # s
    BY <2>3, <1>1, <1>2, <1>6, ToFrontFacts DEF RecentAreResident
  <2> QED
    BY <2>1, <2>2, <2>3
<1> QED
  BY <1>2, <1>4, <1>5, <1>6 DEF RecentAreResident, Slot

(* A frequency counter stays below its ceiling.                            *)
LEMMA FreqFacts ==
  ASSUME TypeOK, NEW s \in Slot, NEW fresh \in BOOLEAN, freq_touch(s, fresh)
  PROVE  freq' \in [Slot -> 0 .. FREQ_MAX] /\ acc_ctr' \in 0 .. AGE_PERIOD - 1
<1>1. freq \in [Slot -> 0 .. FREQ_MAX] /\ acc_ctr \in 0 .. AGE_PERIOD - 1
  BY DEF TypeOK
<1>2. CASE REPL_POLICY = 0
  BY <1>1, <1>2 DEF freq_touch
<1>3. CASE REPL_POLICY # 0
  <2> DEFINE due == acc_ctr = AGE_PERIOD - 1
             touched == IF fresh THEN 1
                        ELSE IF freq[s] = FREQ_MAX THEN FREQ_MAX ELSE freq[s] + 1
  <2>1. /\ acc_ctr' = IF due THEN 0 ELSE acc_ctr + 1
        /\ freq' = [t \in Slot |-> IF t = s THEN touched
                                   ELSE IF due THEN freq[t] \div 2 ELSE freq[t]]
    BY <1>3 DEF freq_touch
  <2>2. touched \in 0 .. FREQ_MAX
    BY <1>1, CacheAssumption
  <2>3. \A t \in Slot : freq[t] \in 0 .. FREQ_MAX /\ freq[t] \div 2 \in 0 .. FREQ_MAX
    BY <1>1, CacheAssumption
  <2>4. freq' \in [Slot -> 0 .. FREQ_MAX]
    <3> HIDE DEF touched, due
    <3> QED
      BY <2>1, <2>2, <2>3
  <2> QED
    BY <2>1, <2>4, <1>1, CacheAssumption
<1> QED
  BY <1>2, <1>3
-----------------------------------------------------------------------------
(* The id looked up at a hit, and the slot found.                          *)
LEMMA HitFacts ==
  ASSUME TypeOK, Places, NEW req \in Expert \cup {None}, Resident(query_id(req)),
         req # None \/ state = "DMD_REST"
  PROVE  /\ query_id(req) \in Expert
         /\ lookup_slot(query_id(req)) \in Slot
         /\ Holds(lookup_slot(query_id(req)), query_id(req))
  BY LookupFacts DEF query_id, TypeOK

(* What an edge may do to the directory: nothing, move the slot of a       *)
(* resident expert to the front, or install an expert that is not resident.*)
LEMMA DirectoryMoves ==
  ASSUME Sound, NEW req \in Expert \cup {None}, NEW hint, NEW flash_done,
         Edge(req, hint, flash_done)
  PROVE  \/ SameDir
         \/ \E s \in Slot : /\ valid[s] /\ rank' = ToFront(s)
                            /\ UNCHANGED <<valid, tag>>
                            /\ freq_touch(s, FALSE)
         \/ \E s \in Slot, e \in Expert : /\ ~Resident(e) /\ Install(s, e)
                                          /\ freq_touch(s, TRUE)
<1> USE DEF Sound
<1>1. CASE \/ IdleHitRead \/ IdleDemandMiss(req) \/ IdlePrefetch(req, hint)
           \/ Idle(req, hint) \/ FetchWait \/ PrefetchHitRead
           \/ PrefetchDemandMiss(req) \/ PrefetchWait(req) \/ RestMiss(req)
  BY <1>1 DEF IdleHitRead, IdleDemandMiss, IdlePrefetch, Idle, FetchWait, PrefetchHitRead,
         PrefetchDemandMiss, PrefetchWait, RestMiss
<1>2. CASE IdleDemandHit(req) \/ PrefetchDemandHit(req) \/ RestHit(req)
  <2>1. /\ Resident(query_id(req)) /\ ServeHit(lookup_slot(query_id(req)))
        /\ req # None \/ state = "DMD_REST"
    BY <1>2 DEF IdleDemandHit, PrefetchDemandHit, RestHit
  <2> QED
    BY <2>1, HitFacts DEF ServeHit, Holds
<1>3. CASE FetchDone
  BY <1>3 DEF FetchDone, FetchSettled, TypeOK
<1>4. CASE PrefetchDone(req)
  <2>1. CASE Resident(pf_id_q)
    BY <1>4, <2>1 DEF PrefetchDone
  <2>2. CASE ~Resident(pf_id_q)
    BY <1>4, <2>2, VictimFacts DEF PrefetchDone, TypeOK
  <2> QED
    BY <2>1, <2>2
<1> QED
  BY <1>1, <1>2, <1>3, <1>4 DEF Edge

LEMMA DirectoryStep ==
  ASSUME Sound, NEW req \in Expert \cup {None}, NEW hint, NEW flash_done,
         Edge(req, hint, flash_done), build' = build
  PROVE  /\ DirTypeOK' /\ RankIsOrder' /\ NoDuplicate'
         /\ (REPL_POLICY = 0 => RecentAreResident)'
         /\ freq' \in [Slot -> 0 .. FREQ_MAX] /\ acc_ctr' \in 0 .. AGE_PERIOD - 1
<1>1. CASE SameDir
  BY <1>1 DEF Sound, SameDir, dir, TypeOK, DirTypeOK, RankIsOrder, NoDuplicate, REPL_POLICY,
         RecentAreResident, Slot
<1>2. CASE \E s \in Slot : /\ valid[s] /\ rank' = ToFront(s)
                           /\ UNCHANGED <<valid, tag>>
                           /\ freq_touch(s, FALSE)
  BY <1>2, TouchFacts, FreqFacts DEF Sound, TypeOK, REPL_POLICY
<1>3. CASE \E s \in Slot, e \in Expert : /\ ~Resident(e) /\ Install(s, e)
                                         /\ freq_touch(s, TRUE)
  BY <1>3, InstallFacts, FreqFacts DEF Sound, TypeOK, REPL_POLICY
<1> QED
  BY <1>1, <1>2, <1>3, DirectoryMoves

(* The ranges of the registers of the control path.                        *)
Registers ==
  /\ state \in {"IDLE", "FETCH", "PF_FETCH", "DMD_REST"}
  /\ victim_q \in Slot /\ req_id_q \in Expert /\ pf_id_q \in Expert
  /\ flash_req \in BOOLEAN /\ flash_expert_id \in Expert
  /\ resp_valid \in BOOLEAN /\ hit \in BOOLEAN /\ resp_slot \in Slot
  /\ busy \in BOOLEAN
  /\ hit_wait \in 0 .. CACHE_HIT_LAT
  /\ dmd_pending \in BOOLEAN /\ dmd_pending_id \in Expert

LEMMA ObserveFacts ==
  ASSUME TypeOK, NEW req \in Expert \cup {None}, ObserveDemand(req)
  PROVE  ask' \in Expert \cup {None} /\ wait' \in Nat
<1>1. ask' \in Expert \cup {None}
  BY DEF ObserveDemand, TypeOK
<1>2. wait' \in Nat
  BY DEF ObserveDemand, TypeOK
<1> QED
  BY <1>1, <1>2

LEMMA HitReadFacts ==
  ASSUME TypeOK, hit_wait # 0, HitRead, build' = build
  PROVE  /\ hit_wait' \in 0 .. CACHE_HIT_LAT'
         /\ resp_valid' \in BOOLEAN /\ busy' \in BOOLEAN
<1>1. hit_wait \in 0 .. build.CACHE_HIT_LAT /\ build.CACHE_HIT_LAT \in Nat /\ busy \in BOOLEAN
  BY CacheAssumption DEF TypeOK, CACHE_HIT_LAT
<1>2. hit_wait' \in 0 .. CACHE_HIT_LAT'
  BY <1>1 DEF HitRead, CACHE_HIT_LAT
<1>3. resp_valid' \in BOOLEAN /\ busy' \in BOOLEAN
  BY <1>1 DEF HitRead
<1> QED
  BY <1>2, <1>3

LEMMA ServeHitFacts ==
  ASSUME TypeOK, NEW s \in Slot, ServeHit(s), build' = build
  PROVE  /\ hit_wait' \in 0 .. CACHE_HIT_LAT'
         /\ resp_valid' \in BOOLEAN /\ busy' \in BOOLEAN
         /\ hit' \in BOOLEAN /\ resp_slot' \in Slot
<1>1. hit_wait \in 0 .. build.CACHE_HIT_LAT /\ build.CACHE_HIT_LAT \in Nat
  BY CacheAssumption DEF TypeOK, CACHE_HIT_LAT
<1>2. hit_wait' \in 0 .. CACHE_HIT_LAT'
  BY <1>1 DEF ServeHit, CACHE_HIT_LAT
<1>3. resp_valid' \in BOOLEAN /\ busy' \in BOOLEAN /\ hit' \in BOOLEAN
  BY DEF ServeHit
<1>4. resp_slot' \in Slot
  BY DEF ServeHit
<1> QED
  BY <1>2, <1>3, <1>4

LEMMA RegistersStep ==
  ASSUME Sound, NEW req \in Expert \cup {None}, req # None => ~busy,
         NEW hint \in build.Hint \cup {None}, NEW flash_done \in BOOLEAN,
         Edge(req, hint, flash_done), build' = build
  PROVE  Registers'
<1> USE DEF Registers, NoAnswer, ctrl, queued, CACHE_HIT_LAT
<1>a. Registers /\ build.CACHE_HIT_LAT \in Nat /\ build.Hint \subseteq Expert /\ None \notin Expert
  BY CacheAssumption, DirectoryAssumption DEF Sound, TypeOK
<1>b. victim_slot \in Slot
  BY VictimFacts DEF Sound
<1>c. Resident(query_id(req)) /\ (req # None \/ state = "DMD_REST")
        => lookup_slot(query_id(req)) \in Slot
  BY HitFacts DEF Sound
<1>1. CASE IdleHitRead
  BY <1>1, <1>a, <1>b, <1>c, HitReadFacts DEF IdleHitRead, Sound
<1>2. CASE IdleDemandHit(req)
  BY <1>2, <1>a, <1>b, <1>c, ServeHitFacts DEF IdleDemandHit, Sound
<1>3. CASE IdleDemandMiss(req)
  BY <1>3, <1>a, <1>b, <1>c DEF IdleDemandMiss
<1>4. CASE IdlePrefetch(req, hint)
  BY <1>4, <1>a, <1>b, <1>c DEF IdlePrefetch, pf_ready
<1>5. CASE Idle(req, hint)
  BY <1>5, <1>a, <1>b, <1>c DEF Idle
<1>6. CASE FetchDone
  BY <1>6, <1>a, <1>b, <1>c DEF FetchDone
<1>7. CASE PrefetchDone(req)
  BY <1>7, <1>a, <1>b, <1>c DEF PrefetchDone, late_demand
<1>8. CASE FetchWait
  BY <1>8, <1>a, <1>b, <1>c DEF FetchWait
<1>9. CASE PrefetchHitRead
  BY <1>9, <1>a, <1>b, <1>c, HitReadFacts DEF PrefetchHitRead, Sound
<1>10. CASE PrefetchDemandHit(req)
  BY <1>10, <1>a, <1>b, <1>c, ServeHitFacts DEF PrefetchDemandHit, Sound
<1>11. CASE PrefetchDemandMiss(req)
  BY <1>11, <1>a, <1>b, <1>c DEF PrefetchDemandMiss
<1>12. CASE PrefetchWait(req)
  BY <1>12, <1>a, <1>b, <1>c DEF PrefetchWait
<1>13. CASE RestHit(req)
  BY <1>13, <1>a, <1>b, <1>c, ServeHitFacts DEF RestHit, Sound
<1>14. CASE RestMiss(req)
  BY <1>14, <1>a, <1>b, <1>c DEF RestMiss
<1> QED
  BY <1>1, <1>2, <1>3, <1>4, <1>5, <1>6, <1>7, <1>8, <1>9, <1>10, <1>11,
     <1>12, <1>13, <1>14 DEF Edge

(* A demand is presented only to a cache that owes nothing.                *)
LEMMA PlacesStep ==
  ASSUME Sound, NEW req \in Expert \cup {None}, req # None => ~busy,
         NEW hint \in build.Hint \cup {None}, NEW flash_done \in BOOLEAN,
         Edge(req, hint, flash_done), ObserveDemand(req), build' = build
  PROVE  Places' /\ NoHintNoPrefetch'
<1> USE DEF Places, Owed, NoHintNoPrefetch, ObserveDemand, NoAnswer, ctrl, queued
<1>a. /\ Places /\ NoHintNoPrefetch
      /\ build.Hint \subseteq Expert /\ None \notin Expert
      /\ hit_wait \in Nat /\ busy \in BOOLEAN /\ resp_valid \in BOOLEAN
      /\ dmd_pending \in BOOLEAN /\ flash_req \in BOOLEAN
      /\ state \in {"IDLE", "FETCH", "PF_FETCH", "DMD_REST"}
  BY CacheAssumption, DirectoryAssumption DEF Sound, TypeOK, CACHE_HIT_LAT
<1>b. CACHE_HIT_LAT \in Nat
  BY CacheAssumption DEF Sound, TypeOK, CACHE_HIT_LAT
<1>1. CASE IdleHitRead
  BY <1>1, <1>a, <1>b DEF IdleHitRead, HitRead
<1>2. CASE IdleDemandHit(req)
  BY <1>2, <1>a, <1>b DEF IdleDemandHit, ServeHit
<1>3. CASE IdleDemandMiss(req)
  BY <1>3, <1>a, <1>b DEF IdleDemandMiss
<1>4. CASE IdlePrefetch(req, hint)
  BY <1>4, <1>a, <1>b DEF IdlePrefetch, pf_ready
<1>5. CASE Idle(req, hint)
  BY <1>5, <1>a, <1>b DEF Idle
<1>6. CASE FetchDone
  BY <1>6, <1>a, <1>b DEF FetchDone
<1>7. CASE PrefetchDone(req)
  BY <1>7, <1>a, <1>b DEF PrefetchDone, late_demand
<1>8. CASE FetchWait
  BY <1>8, <1>a, <1>b DEF FetchWait
<1>9. CASE PrefetchHitRead
  BY <1>9, <1>a, <1>b DEF PrefetchHitRead, HitRead
<1>10. CASE PrefetchDemandHit(req)
  BY <1>10, <1>a, <1>b DEF PrefetchDemandHit, ServeHit
<1>11. CASE PrefetchDemandMiss(req)
  BY <1>11, <1>a, <1>b DEF PrefetchDemandMiss
<1>12. CASE PrefetchWait(req)
  BY <1>12, <1>a, <1>b DEF PrefetchWait
<1>13. CASE RestHit(req)
  BY <1>13, <1>a, <1>b DEF RestHit, ServeHit
<1>14. CASE RestMiss(req)
  BY <1>14, <1>a, <1>b DEF RestMiss
<1> QED
  BY <1>1, <1>2, <1>3, <1>4, <1>5, <1>6, <1>7, <1>8, <1>9, <1>10, <1>11,
     <1>12, <1>13, <1>14 DEF Edge
(* An edge that leaves the directory alone leaves every answer of it alone.*)
LEMMA SameDirFacts ==
  ASSUME SameDir, build' = build
  PROVE  /\ victim_slot' = victim_slot
         /\ \A e : Resident(e)' <=> Resident(e)
         /\ \A s, e : Holds(s, e)' <=> Holds(s, e)
         /\ rank' = rank
  BY DEF SameDir, dir, victim_slot, invalid_slot, freq_slot, lru_slot, Empty, REPL_POLICY,
         Resident, Holds, Slot

LEMMA FetchSettledStep ==
  ASSUME Sound, NEW req \in Expert \cup {None}, NEW hint, NEW flash_done,
         Edge(req, hint, flash_done), build' = build
  PROVE  FetchSettled'
<1> SUFFICES ASSUME state' = "FETCH"
             PROVE  ~Resident(req_id_q)' /\ victim_q' = victim_slot'
  BY DEF FetchSettled
<1>1. IdleDemandMiss(req) \/ RestMiss(req) \/ FetchWait
  <2>1. CASE IdleHitRead \/ IdleDemandHit(req) \/ IdlePrefetch(req, hint) \/ Idle(req, hint)
    BY <2>1 DEF IdleHitRead, IdleDemandHit, IdlePrefetch, pf_ready, Idle, ctrl
  <2>2. CASE FetchDone \/ PrefetchDone(req) \/ RestHit(req)
    BY <2>2 DEF FetchDone, PrefetchDone, RestHit
  <2>3. CASE \/ PrefetchHitRead \/ PrefetchDemandHit(req) \/ PrefetchDemandMiss(req)
             \/ PrefetchWait(req)
    BY <2>3 DEF PrefetchHitRead, PrefetchDemandHit, PrefetchDemandMiss, PrefetchWait, ctrl
  <2> QED
    BY <2>1, <2>2, <2>3 DEF Edge
<1>2. SameDir
  BY <1>1 DEF IdleDemandMiss, RestMiss, FetchWait
<1>3. \E e : /\ req_id_q' = e /\ ~Resident(e) /\ victim_q' = victim_slot
  BY <1>1 DEF IdleDemandMiss, RestMiss, FetchWait, query_id, Sound, FetchSettled, ctrl
<1>4. PICK e : req_id_q' = e /\ ~Resident(e) /\ victim_q' = victim_slot
  BY <1>3
<1>5. ~Resident(e)'
  BY <1>2, <1>4, SameDirFacts
<1>6. ~Resident(req_id_q)'
  BY <1>4, <1>5 DEF Resident, Holds
<1> QED
  BY <1>2, <1>4, <1>6, SameDirFacts

(* The slot of a hit keeps its expert until the answer.                    *)
LEMMA HeldStep ==
  ASSUME Sound, NEW req \in Expert \cup {None}, req # None => ~busy,
         NEW hint \in build.Hint \cup {None}, NEW flash_done \in BOOLEAN,
         Edge(req, hint, flash_done), ObserveDemand(req), build' = build
  PROVE  HitIsHeld'
<1> SUFFICES ASSUME SlowHitsAreSafe
             PROVE  /\ ResponseHoldsExpert'
                    /\ hit_wait' # 0 => /\ Holds(resp_slot, ask)'
                                        /\ state' = "PF_FETCH" => rank'[resp_slot'] = 0
  BY DEF HitIsHeld, SlowHitsAreSafe, CACHE_HIT_LAT, REPL_POLICY
<1>a. /\ Places /\ FetchSettled /\ TypeOK /\ RankIsOrder /\ None \notin Expert
      /\ ResponseHoldsExpert
      /\ hit_wait # 0 => /\ Holds(resp_slot, ask)
                         /\ state = "PF_FETCH" => rank[resp_slot] = 0
      /\ hit_wait \in 0 .. CACHE_HIT_LAT /\ CACHE_HIT_LAT \in Nat
  BY DirectoryAssumption, CacheAssumption DEF Sound, HitIsHeld, TypeOK, CACHE_HIT_LAT
<1>b. req # None => ask' = req
  BY DEF ObserveDemand
<1>c. Owed => req = None /\ ask' = ask /\ ask # None
  BY <1>a DEF ObserveDemand, Owed, Places
<1> USE DEF ResponseHoldsExpert
(* An edge without an answer that leaves the directory alone.              *)
<1>q. ASSUME ~resp_valid', SameDir, UNCHANGED <<hit_wait, resp_slot>>, state' = state
      PROVE  /\ ResponseHoldsExpert'
             /\ hit_wait' # 0 => /\ Holds(resp_slot, ask)'
                                 /\ state' = "PF_FETCH" => rank'[resp_slot'] = 0
  BY <1>q, <1>a, <1>c, SameDirFacts DEF Places, Holds
(* One more cycle of the read of a hit.                                    *)
<1>r. ASSUME hit_wait # 0, HitRead, SameDir, UNCHANGED resp_slot, state' = state
      PROVE  /\ ResponseHoldsExpert'
             /\ hit_wait' # 0 => /\ Holds(resp_slot, ask)'
                                 /\ state' = "PF_FETCH" => rank'[resp_slot'] = 0
  BY <1>r, <1>a, <1>c, SameDirFacts DEF Places, Holds
(* A hit.                                                                  *)
<1>s. ASSUME NEW s \in Slot, ServeHit(s), Holds(s, ask'), ask' # None
      PROVE  /\ ResponseHoldsExpert'
             /\ hit_wait' # 0 => /\ Holds(resp_slot, ask)'
                                 /\ state' = "PF_FETCH" => rank'[resp_slot'] = 0
  <2>1. rank'[s] = 0
    BY <1>s, <1>a, ToFrontFacts DEF ServeHit, TypeOK
  <2> QED
    BY <1>s, <2>1 DEF ServeHit, Holds
<1>1. CASE IdleHitRead \/ PrefetchHitRead
  BY <1>1, <1>r DEF IdleHitRead, PrefetchHitRead, ctrl
<1>2. CASE IdleDemandHit(req) \/ PrefetchDemandHit(req)
  <2>1. /\ req # None /\ query_id(req) = req
        /\ Resident(query_id(req)) /\ ServeHit(lookup_slot(query_id(req)))
    BY <1>2 DEF IdleDemandHit, PrefetchDemandHit, query_id
  <2> QED
    BY <2>1, <1>a, <1>b, <1>s, LookupFacts
<1>3. CASE RestHit(req)
  <2>1. /\ query_id(req) = ask /\ Owed
        /\ Resident(query_id(req)) /\ ServeHit(lookup_slot(query_id(req)))
    BY <1>3, <1>a DEF RestHit, query_id, Places
  <2> QED
    BY <2>1, <1>c, <1>s, LookupFacts
<1>4. CASE IdleDemandMiss(req) \/ RestMiss(req) \/ IdlePrefetch(req, hint)
  BY <1>4, <1>a, SameDirFacts DEF IdleDemandMiss, RestMiss, IdlePrefetch, pf_ready, NoAnswer,
         Places, Owed
<1>5. CASE Idle(req, hint) \/ FetchWait \/ PrefetchDemandMiss(req) \/ PrefetchWait(req)
  BY <1>5, <1>q DEF Idle, FetchWait, PrefetchDemandMiss, PrefetchWait, NoAnswer, ctrl
<1>6. CASE FetchDone
  <2>1. Owed /\ ask = req_id_q /\ Install(victim_q, req_id_q) /\ ~Resident(req_id_q)
        /\ hit_wait' = 0 /\ resp_slot' = victim_q
    BY <1>6, <1>a DEF FetchDone, Places, FetchSettled
  <2>2. valid'[victim_q] /\ tag'[victim_q] = req_id_q
    BY <2>1, <1>a, InstallFacts DEF TypeOK
  <2> QED
    BY <2>1, <2>2, <1>c, <1>6 DEF FetchDone, Holds
<1>7. CASE PrefetchDone(req)
  <2> SUFFICES ASSUME hit_wait # 0 PROVE Holds(resp_slot, ask)'
    BY <1>7 DEF PrefetchDone, NoAnswer
  <2>1. CASE Resident(pf_id_q)
    BY <2>1, <1>7, <1>a, <1>c, SameDirFacts DEF PrefetchDone, Places, Holds
  <2>2. CASE ~Resident(pf_id_q)
    <3>1. Install(victim_slot, pf_id_q) /\ resp_slot' = resp_slot
      BY <2>2, <1>7 DEF PrefetchDone
    <3>2. victim_slot # resp_slot
      <4>1. valid[resp_slot] /\ rank[resp_slot] = 0
        BY <1>7, <1>a DEF PrefetchDone, Holds
      <4>2. REPL_POLICY = 0 /\ SLOTS > 1
        BY <1>a DEF SlowHitsAreSafe
      <4> QED
        BY <4>1, <4>2, <1>a, VictimFacts, DirectoryAssumption DEF Empty
    <3>3. resp_slot \in Slot /\ pf_id_q \in Expert /\ victim_slot \in Slot /\ DirTypeOK
      BY <1>a, VictimFacts DEF TypeOK
    <3>4. valid'[resp_slot] = valid[resp_slot] /\ tag'[resp_slot] = tag[resp_slot]
      BY <2>2, <3>1, <3>2, <3>3, <1>a, InstallFacts
    <3> QED
      BY <3>1, <3>4, <1>a, <1>c DEF Holds, Places
  <2> QED
    BY <2>1, <2>2
<1> QED
  BY <1>1, <1>2, <1>3, <1>4, <1>5, <1>6, <1>7 DEF Edge
(* One edge of the cache, whoever drives it: the router presents a demand  *)
(* only to a cache that is not busy.  The age of the Flash's fetch is the  *)
(* environment's.                                                          *)
LEMMA SoundStep ==
  ASSUME Sound, NEW req \in Expert \cup {None}, req # None => ~busy,
         NEW hint \in build.Hint \cup {None}, NEW flash_done \in BOOLEAN,
         Edge(req, hint, flash_done), ObserveDemand(req), build' = build,
         fl_age' \in 0 .. FLASH_LAT - 1
  PROVE  Sound'
<1>1. Registers'
  BY RegistersStep
<1>2. ask' \in Expert \cup {None} /\ wait' \in Nat
  BY ObserveFacts DEF Sound
<1>3. /\ DirTypeOK' /\ RankIsOrder' /\ NoDuplicate'
      /\ (REPL_POLICY = 0 => RecentAreResident)'
      /\ freq' \in [Slot -> 0 .. FREQ_MAX] /\ acc_ctr' \in 0 .. AGE_PERIOD - 1
  BY DirectoryStep
<1>4. TypeOK'
  BY <1>1, <1>2, <1>3 DEF TypeOK, Registers, Slot, Sound
<1>5. Places' /\ NoHintNoPrefetch'
  BY PlacesStep
<1>6. FetchSettled' /\ HitIsHeld'
  BY FetchSettledStep, HeldStep
<1> QED
  BY <1>3, <1>4, <1>5, <1>6 DEF Sound

LEMMA SoundStutter == Sound /\ UNCHANGED vars => Sound'
<1> SUFFICES ASSUME Sound, UNCHANGED vars PROVE Sound'
  OBVIOUS
<1> USE DEF vars, dir, ctrl, answer, queued
<1>1. TypeOK' /\ RankIsOrder' /\ NoDuplicate' /\ (REPL_POLICY = 0 => RecentAreResident)'
  BY DEF Sound, TypeOK, DirTypeOK, RankIsOrder, NoDuplicate, RecentAreResident, Slot,
     REPL_POLICY, CACHE_HIT_LAT
<1>2. Places' /\ NoHintNoPrefetch'
  BY DEF Sound, Places, Owed, NoHintNoPrefetch
<1>3. FetchSettled'
  BY SameDirFacts DEF Sound, FetchSettled, SameDir, Resident, Holds
<1>4. HitIsHeld'
  BY DEF Sound, HitIsHeld, SlowHitsAreSafe, ResponseHoldsExpert, Holds, REPL_POLICY,
     CACHE_HIT_LAT
<1> QED
  BY <1>1, <1>2, <1>3, <1>4 DEF Sound

LEMMA CacheInit == Init => CacheInv
<1> SUFFICES ASSUME Init PROVE CacheInv
  OBVIOUS
<1> USE DEF Init
<1>1. 0 \in Slot /\ 0 \in Expert /\ None \notin Expert
  BY DirectoryAssumption DEF Slot
<1>2. DirTypeOK
  BY <1>1 DEF DirInit, DirTypeOK
<1>3. CACHE_HIT_LAT \in Nat
  BY CacheAssumption DEF CACHE_HIT_LAT
<1>4. TypeOK
  <2>1. freq \in [Slot -> 0 .. FREQ_MAX] /\ acc_ctr \in 0 .. AGE_PERIOD - 1
    BY CacheAssumption
  <2>2. fl_age \in 0 .. FLASH_LAT - 1 /\ hit_wait \in 0 .. CACHE_HIT_LAT
    BY CacheAssumption, <1>3
  <2> QED
    BY <1>1, <1>2, <2>1, <2>2 DEF TypeOK
<1>5. RankIsOrder /\ NoDuplicate /\ RecentAreResident
  BY DEF DirInit, RankIsOrder, NoDuplicate, RecentAreResident
<1>6. Places /\ FetchSettled /\ HitIsHeld /\ NoHintNoPrefetch
  BY DEF Places, Owed, FetchSettled, HitIsHeld, ResponseHoldsExpert, NoHintNoPrefetch
<1>7. Waited
  BY <1>3, CacheAssumption DEF Waited, BoundedLatency
<1> QED
  BY <1>4, <1>5, <1>6, <1>7 DEF Sound, CacheInv

LEMMA CacheReset == build \in Builds /\ Reset /\ UNCHANGED build => CacheInv'
<1>1. build \in Builds /\ Reset /\ UNCHANGED build => Init'
  BY DEF Reset, DirReset, Init, DirInit, Slot
<1> QED
  BY <1>1, CacheInit, PTL

(* How long each place may keep a demand waiting.                          *)
LEMMA WaitedStep ==
  ASSUME CacheInv, NEW req \in Presented, NEW hint \in build.Hint \cup {None},
         NEW flash_done \in Completing, Edge(req, hint, flash_done),
         Observe(req, flash_done), build' = build
  PROVE  Waited' /\ fl_age' \in 0 .. FLASH_LAT - 1
<1> USE DEF ObserveDemand, NoAnswer, ctrl, queued
<1>a. /\ wait \in Nat /\ fl_age \in 0 .. FLASH_LAT - 1 /\ FLASH_LAT \in Nat \ {0}
      /\ CACHE_HIT_LAT \in Nat /\ hit_wait \in 0 .. CACHE_HIT_LAT
      /\ CACHE_HIT_LAT' = CACHE_HIT_LAT
      /\ resp_valid \in BOOLEAN /\ flash_req \in BOOLEAN /\ dmd_pending \in BOOLEAN
      /\ None \notin Expert
  BY CacheAssumption, DirectoryAssumption DEF CacheInv, Sound, TypeOK, CACHE_HIT_LAT
<1>b. Places /\ Waited
  BY DEF CacheInv, Sound
<1>c. /\ req # None => ~busy
      /\ flash_req /\ ~flash_done => fl_age # FLASH_LAT - 1
  BY DEF Presented, Completing
<1>d. /\ fl_age' = IF flash_req /\ ~flash_done THEN fl_age + 1 ELSE 0
      /\ fl_age' \in 0 .. FLASH_LAT - 1
  BY <1>a, <1>c DEF Observe
<1>e. ObserveDemand(req)
  BY DEF Observe
<1> USE DEF Places, Owed, Waited, BoundedLatency
<1>1. CASE IdleHitRead
  BY <1>1, <1>a, <1>b, <1>c, <1>d, <1>e DEF IdleHitRead, HitRead
<1>2. CASE IdleDemandHit(req)
  BY <1>2, <1>a, <1>b, <1>c, <1>d, <1>e DEF IdleDemandHit, ServeHit
<1>3. CASE IdleDemandMiss(req)
  BY <1>3, <1>a, <1>b, <1>c, <1>d, <1>e DEF IdleDemandMiss
<1>4. CASE IdlePrefetch(req, hint)
  BY <1>4, <1>a, <1>b, <1>c, <1>d, <1>e DEF IdlePrefetch, pf_ready
<1>5. CASE Idle(req, hint)
  BY <1>5, <1>a, <1>b, <1>c, <1>d, <1>e DEF Idle
<1>6. CASE FetchDone
  BY <1>6, <1>a, <1>b, <1>c, <1>d, <1>e DEF FetchDone
<1>7. CASE PrefetchDone(req)
  BY <1>7, <1>a, <1>b, <1>c, <1>d, <1>e DEF PrefetchDone, late_demand
<1>8. CASE ~flash_done /\ FetchWait
  BY <1>8, <1>a, <1>b, <1>c, <1>d, <1>e DEF FetchWait
<1>9. CASE PrefetchHitRead
  BY <1>9, <1>a, <1>b, <1>c, <1>d, <1>e DEF PrefetchHitRead, HitRead
<1>10. CASE PrefetchDemandHit(req)
  BY <1>10, <1>a, <1>b, <1>c, <1>d, <1>e DEF PrefetchDemandHit, ServeHit
<1>11. CASE ~flash_done /\ PrefetchDemandMiss(req)
  BY <1>11, <1>a, <1>b, <1>c, <1>d, <1>e DEF PrefetchDemandMiss
<1>12. CASE ~flash_done /\ PrefetchWait(req)
  BY <1>12, <1>a, <1>b, <1>c, <1>d, <1>e DEF PrefetchWait
<1>13. CASE RestHit(req)
  BY <1>13, <1>a, <1>b, <1>c, <1>d, <1>e DEF RestHit, ServeHit
<1>14. CASE RestMiss(req)
  BY <1>14, <1>a, <1>b, <1>c, <1>d, <1>e DEF RestMiss
<1> QED
  BY <1>1, <1>2, <1>3, <1>4, <1>5, <1>6, <1>7, <1>8, <1>9, <1>10, <1>11,
     <1>12, <1>13, <1>14 DEF Edge
LEMMA CacheStep == CacheInv /\ [Next]_vars => CacheInv'
<1> SUFFICES ASSUME CacheInv, [Next]_vars
             PROVE  CacheInv'
  OBVIOUS
<1>1. CASE Cycle /\ UNCHANGED build
  <2>1. PICK req \in Presented, hint \in build.Hint \cup {None}, flash_done \in Completing :
          Edge(req, hint, flash_done) /\ Observe(req, flash_done)
    BY <1>1 DEF Cycle
  <2>2. /\ req \in Expert \cup {None} /\ (req # None => ~busy)
        /\ flash_done \in BOOLEAN /\ ObserveDemand(req)
    BY <2>1 DEF Presented, Completing, Observe
  <2>3. Waited' /\ fl_age' \in 0 .. FLASH_LAT - 1
    BY <1>1, <2>1, WaitedStep
  <2>4. Sound'
    BY <1>1, <2>1, <2>2, <2>3, SoundStep DEF CacheInv
  <2> QED
    BY <2>3, <2>4 DEF CacheInv
<1>2. CASE Reset /\ UNCHANGED build
  BY <1>2, CacheReset DEF CacheInv, Sound, TypeOK
<1>3. CASE UNCHANGED vars
  <2>1. Sound'
    BY <1>3, SoundStutter DEF CacheInv
  <2>2. Waited'
    BY <1>3 DEF vars, ctrl, answer, queued, CacheInv, Waited, BoundedLatency, CACHE_HIT_LAT
  <2> QED
    BY <2>1, <2>2 DEF CacheInv
<1> QED
  BY <1>1, <1>2, <1>3 DEF Next

LEMMA CacheInvariance == Spec => []CacheInv
  BY CacheInit, CacheStep, PTL DEF Spec

(* A hit can be trusted: every answer names the slot of its expert, and no *)
(* expert is cached twice, whatever is prefetched.  Of builds whose hits   *)
(* wait for the GDDR6 read, this holds for those with LRU and at least two *)
(* slots; the others may evict the slot of a hit before its answer.        *)
THEOREM HitsAreTrusted == Spec => [](SlowHitsAreSafe => HitsAreSound)
<1>1. CacheInv => (SlowHitsAreSafe => HitsAreSound)
  BY DEF CacheInv, Sound, HitIsHeld, HitsAreSound
<1> QED
  BY <1>1, CacheInvariance, PTL

(* Of every build: no expert is cached twice (docs/FORMAL.md P2b, there    *)
(* only without prefetch).                                                 *)
THEOREM NeverCachedTwice == Spec => [](TypeOK /\ NoDuplicate)
<1>1. CacheInv => TypeOK /\ NoDuplicate
  BY DEF CacheInv, Sound
<1> QED
  BY <1>1, CacheInvariance, PTL

(* A demand not yet answered is in exactly one of the places that lead to  *)
(* its answer, with its own id, and stalls the router.                     *)
THEOREM NoDemandIsLost == Spec => []OwedIsTracked
<1>1. CacheInv => OwedIsTracked
  BY DEF CacheInv, Sound, Places, Owed, TypeOK, OwedIsTracked
<1> QED
  BY <1>1, CacheInvariance, PTL

(* Every demand is answered within its bound (docs/FORMAL.md P3), for      *)
(* every Flash latency and every latency of a hit.                         *)
THEOREM LatencyIsBounded == Spec => []BoundedLatency
<1>1. CacheInv => BoundedLatency
  BY DEF CacheInv, Waited
<1> QED
  BY <1>1, CacheInvariance, PTL
-----------------------------------------------------------------------------
(* The id of a fetch holds until it ends: only an edge without a fetch     *)
(* under way loads it.                                                     *)
LEMMA FlashIdHolds ==
  CacheInv /\ [Next]_vars => (flash_req /\ flash_req' => flash_expert_id' = flash_expert_id)
<1> SUFFICES ASSUME CacheInv, [Next]_vars, flash_req, flash_req'
             PROVE  flash_expert_id' = flash_expert_id
  OBVIOUS
<1>1. state \in {"FETCH", "PF_FETCH"}
  BY DEF CacheInv, Sound, Places
<1>2. CASE Cycle
  BY <1>1, <1>2 DEF Cycle, Edge, IdleHitRead, IdleDemandHit, IdleDemandMiss, IdlePrefetch,
     pf_ready, Idle, FetchDone, PrefetchDone, FetchWait, PrefetchHitRead, PrefetchDemandHit,
     PrefetchDemandMiss, PrefetchWait, RestHit, RestMiss, ctrl
<1>3. CASE Reset
  BY <1>3 DEF Reset
<1>4. CASE UNCHANGED vars
  BY <1>4 DEF vars, ctrl
<1> QED
  BY <1>2, <1>3, <1>4 DEF Next

(* The two victims are the same CHOOSE.                                    *)
LEMMA CtrlDirectory ==
  /\ REPL_POLICY = 0 => Ctrl!victim_slot = victim_slot
  /\ \A e : Ctrl!Resident(e) <=> Resident(e)
  /\ \A e : Ctrl!lookup_slot(e) = lookup_slot(e)
  /\ \A s : Ctrl!ToFront(s) = ToFront(s)
  /\ \A s, e : Ctrl!Install(s, e) <=> Install(s, e)
  BY DEF Ctrl!victim_slot, victim_slot, Ctrl!Empty, Empty, Ctrl!invalid_slot, invalid_slot,
     Ctrl!lru_slot, lru_slot, Ctrl!Slot, Slot, Ctrl!Resident, Resident, Ctrl!Holds, Holds,
     Ctrl!lookup_slot, lookup_slot, Ctrl!ToFront, ToFront, Ctrl!Install, Install
(* Without hints and hit latency an edge of the demand path is a step of   *)
(* expert_cache_ctrl.                                                      *)
LEMMA CtrlStep ==
  CacheInv /\ [Next]_vars => (build.Hint = {} /\ REPL_POLICY = 0 /\ CACHE_HIT_LAT = 0
                                => [Ctrl!Next]_(Ctrl!vars))
<1> SUFFICES ASSUME CacheInv, [Next]_vars, build.Hint = {}, REPL_POLICY = 0, CACHE_HIT_LAT = 0
             PROVE  [Ctrl!Next]_(Ctrl!vars)
  OBVIOUS
<1>1. CASE Cycle
  <2>1. PICK req \in Presented, hint \in build.Hint \cup {None}, flash_done \in Completing :
          Edge(req, hint, flash_done)
    BY <1>1 DEF Cycle
  <2>a. hit_wait = 0 /\ busy \in BOOLEAN
    BY DEF CacheInv, Sound, TypeOK
  <2>b. state \in {"IDLE", "FETCH"} /\ (state = "IDLE" => busy = FALSE)
    BY <2>a DEF CacheInv, Sound, NoHintNoPrefetch, Places, Owed
  <2>c. hint = None /\ req \in Expert \cup {None} /\ flash_done \in BOOLEAN
    BY <2>1 DEF Presented, Completing
  <2> USE <2>a, <2>b, <2>c DEF ctrl, dir, SameDir, NoAnswer, query_id
  <2>3. CASE IdleDemandHit(req)
    <3>1. Ctrl!Hit(req) /\ req \in Expert
      BY <2>3, CtrlDirectory DEF IdleDemandHit, ServeHit, Ctrl!Hit
    <3> QED
      BY <3>1 DEF Ctrl!Next
  <2>4. CASE IdleDemandMiss(req)
    <3>1. Ctrl!Miss(req) /\ req \in Expert
      BY <2>4, CtrlDirectory DEF IdleDemandMiss, Ctrl!Miss
    <3> QED
      BY <3>1 DEF Ctrl!Next
  <2>5. CASE Idle(req, hint)
    <3>1. Ctrl!Idle
      BY <2>5 DEF Idle, Ctrl!Idle
    <3> QED
      BY <3>1 DEF Ctrl!Next
  <2>6. CASE FetchDone
    <3>1. Ctrl!Fetch(TRUE)
      BY <2>6, CtrlDirectory DEF FetchDone, Ctrl!Fetch
    <3> QED
      BY <3>1 DEF Ctrl!Next
  <2>7. CASE FetchWait
    <3>1. Ctrl!Fetch(FALSE)
      BY <2>7 DEF FetchWait, Ctrl!Fetch
    <3> QED
      BY <3>1 DEF Ctrl!Next
  <2> QED
    BY <2>1, <2>3, <2>4, <2>5, <2>6, <2>7 DEF Edge, IdleHitRead, IdlePrefetch, PrefetchDone,
       PrefetchHitRead, PrefetchDemandHit, PrefetchDemandMiss, PrefetchWait, RestHit, RestMiss
<1>2. CASE Reset
  BY <1>2 DEF Reset, DirReset, Slot, Ctrl!Next, Ctrl!Reset, Ctrl!DirReset, Ctrl!Slot
<1>3. CASE UNCHANGED vars
  BY <1>3 DEF vars, dir, ctrl, answer, Ctrl!vars
<1> QED
  BY <1>1, <1>2, <1>3 DEF Next

(* The Flash sees expert_cache_ctrl: the id of a fetch holds until it ends,*)
(* and without hints the two are the same machine, edge for edge.          *)
THEOREM FlashSeesCtrl == Spec => DrivesFlashAsCtrl
<1>1. Init => Ctrl!Init
  BY DEF Init, DirInit, Slot, Ctrl!Init, Ctrl!DirInit, Ctrl!Slot
<1> QED
  BY <1>1, CacheInvariance, FlashIdHolds, CtrlStep, PTL
     DEF Spec, DrivesFlashAsCtrl, FlashIdStable, ImplementsCtrl
-----------------------------------------------------------------------------
(* The LRU stack: as the resident slots are the most recent ones, the      *)
(* stack is read off the ranks, rank 0 at its top.                         *)
Depth == Cardinality(Slot \ Empty)

LEMMA SlotsAreFinite == IsFiniteSet(Slot) /\ Cardinality(Slot) = SLOTS
  BY FS_Interval, DirectoryAssumption DEF Slot

LEMMA DepthFacts ==
  ASSUME DirTypeOK, RankIsOrder, RecentAreResident
  PROVE  /\ Depth \in 0 .. SLOTS
         /\ \A s \in Slot : valid[s] <=> rank[s] < Depth
<1>1. \A s \in Slot : rank[s] \in Nat /\ rank[s] < SLOTS
  BY DirectoryAssumption, SMTT(30) DEF DirTypeOK, Slot
<1>2. CASE Empty = {}
  <2>1. Slot \ Empty = Slot /\ Depth = SLOTS
    BY <1>2, SlotsAreFinite DEF Depth
  <2> QED
    BY <1>1, <1>2, <2>1, DirectoryAssumption DEF Empty
<1>3. CASE Empty # {}
  <2> DEFINE f == [s \in Empty |-> rank[s]]
  <2>1. f \in [Empty -> Nat]
    BY <1>1 DEF Empty
  <2>2. PICK e \in Empty : \A t \in Empty : f[e] <= f[t]
    <3> HIDE DEF f
    <3> QED
      BY <1>3, <2>1, LeastOf
  <2>3. e \in Slot /\ ~valid[e] /\ \A t \in Empty : rank[e] <= rank[t]
    BY <2>2 DEF Empty
  <2> DEFINE V == Slot \ Empty
             m == rank[e]
             g == [s \in V |-> rank[s]]
  <2>4. \A s \in Slot : s \in V <=> rank[s] < m
    <3> SUFFICES ASSUME NEW s \in Slot PROVE valid[s] <=> rank[s] < m
      BY DEF Empty
    <3>1. valid[s] => ~(m < rank[s])
      BY <2>3 DEF RecentAreResident
    <3>2. rank[s] = m => s = e
      BY <2>3 DEF RankIsOrder
    <3>3. ~valid[s] => m <= rank[s]
      BY <2>3 DEF Empty
    <3> QED
      BY <1>1, <2>3, <3>1, <3>2, <3>3
  <2>5. m \in Nat /\ m < SLOTS
    BY <1>1, <2>3
  <2>6. \A s \in V : rank[s] \in 0 .. m - 1
    BY <1>1, <2>4, <2>5
  <2>7. \A s, t \in V : g[s] = g[t] => s = t
    BY DEF RankIsOrder
  <2>8. \A i \in 0 .. m - 1 : \E s \in V : g[s] = i
    <3> SUFFICES ASSUME NEW i \in 0 .. m - 1 PROVE \E s \in V : g[s] = i
      OBVIOUS
    <3>1. i \in Slot /\ i < m
      BY <2>5, DirectoryAssumption DEF Slot
    <3>2. PICK s \in Slot : rank[s] = i
      BY <3>1 DEF RankIsOrder
    <3> QED
      BY <3>1, <3>2, <2>4
  <2>9. g \in Bijection(V, 0 .. m - 1)
    <3>1. g \in [V -> 0 .. m - 1]
      BY <2>6
    <3> HIDE DEF g, V
    <3>2. g \in Injection(V, 0 .. m - 1)
      BY <3>1, <2>7 DEF Injection, IsInjective
    <3>3. g \in Surjection(V, 0 .. m - 1)
      BY <3>1, <2>8 DEF Surjection
    <3> QED
      BY <3>2, <3>3 DEF Bijection
  <2>10. IsFiniteSet(V)
    BY SlotsAreFinite, FS_Subset
  <2>11. Cardinality(V) = m
    <3>1. Cardinality(0 .. m - 1) = m
      BY <2>5, FS_Interval
    <3> HIDE DEF V, g, m
    <3> QED
      BY <2>9, <2>10, <3>1, FS_Bijection DEF ExistsBijection
  <2>12. Depth = m
    BY <2>11 DEF Depth
  <2> QED
    BY <2>4, <2>5, <2>12, DirectoryAssumption DEF Empty
<1> QED
  BY <1>2, <1>3

(* The stack of a directory in which the resident slots are the most       *)
(* recent: its places are the ranks.                                       *)
StackIsDirectory ==
  /\ Depth \in 0 .. SLOTS
  /\ Stack \in Seq(Expert) /\ Len(Stack) = Depth
  /\ \A s \in Slot : valid[s] <=> rank[s] < Depth
  /\ \A s \in Slot, i \in 1 .. Depth : rank[s] = i - 1 => Stack[i] = tag[s]
  /\ \A i \in 1 .. Depth : \E s \in Slot : rank[s] = i - 1 /\ valid[s]

LEMMA StackFacts == DirTypeOK /\ RankIsOrder /\ RecentAreResident => StackIsDirectory
<1> SUFFICES ASSUME DirTypeOK, RankIsOrder, RecentAreResident
             PROVE  StackIsDirectory
  OBVIOUS
<1> DEFINE at(i) == CHOOSE s \in Slot : rank[s] = i - 1
<1>1. Depth \in 0 .. SLOTS /\ \A s \in Slot : valid[s] <=> rank[s] < Depth
  BY DepthFacts
<1>2. ASSUME NEW i \in 1 .. Depth
      PROVE  at(i) \in Slot /\ rank[at(i)] = i - 1
  <2>1. i - 1 \in Slot
    BY <1>1, DirectoryAssumption DEF Slot
  <2>2. \E s \in Slot : rank[s] = i - 1
    BY <2>1 DEF RankIsOrder
  <2> QED
    BY <2>2
<1>3. \A i \in 1 .. Depth : tag[at(i)] \in Expert /\ valid[at(i)]
  <2> SUFFICES ASSUME NEW i \in 1 .. Depth PROVE tag[at(i)] \in Expert /\ valid[at(i)]
    OBVIOUS
  <2> HIDE DEF at
  <2> QED
    BY <1>1, <1>2 DEF DirTypeOK
<1>4. Stack = [i \in 1 .. Depth |-> tag[at(i)]]
  BY DEF Stack, Depth
<1>5. Stack \in Seq(Expert) /\ Len(Stack) = Depth
  <2> HIDE DEF at
  <2>1. Stack \in [1 .. Depth -> Expert]
    BY <1>3, <1>4
  <2>2. Depth \in Nat
    BY <1>1
  <2>3. Stack \in Seq(Expert)
    BY <2>1, <2>2, SeqDef
  <2> QED
    BY <2>1, <2>2, <2>3, LenProperties
<1>6. ASSUME NEW s \in Slot, NEW i \in 1 .. Depth, rank[s] = i - 1
      PROVE  Stack[i] = tag[s]
  <2> HIDE DEF at
  <2>1. at(i) = s
    BY <1>2, <1>6 DEF RankIsOrder
  <2> QED
    BY <1>4, <2>1
<1>7. \A i \in 1 .. Depth : \E s \in Slot : rank[s] = i - 1 /\ valid[s]
  <2> HIDE DEF at
  <2> QED
    BY <1>2, <1>3
<1> QED
  BY <1>1, <1>5, <1>6, <1>7 DEF StackIsDirectory

(* What the operations on a stack give, place by place.                    *)
LEMMA MovedToFront ==
  ASSUME NEW S, NEW q \in Seq(S), NEW k \in 1 .. Len(q), NEW e \in S
  PROVE  /\ <<e>> \o Lru!RemoveAt(q, k) \in Seq(S)
         /\ Len(<<e>> \o Lru!RemoveAt(q, k)) = Len(q)
         /\ \A j \in 1 .. Len(q) : (<<e>> \o Lru!RemoveAt(q, k))[j] =
              IF j = 1 THEN e ELSE IF j <= k THEN q[j - 1] ELSE q[j]
<1> DEFINE n == Len(q)
           a == SubSeq(q, 1, k - 1)
           b == SubSeq(q, k + 1, n)
           r == a \o b
<1>1. n \in Nat /\ k \in Nat /\ 1 <= k /\ k <= n /\ \A i \in 1 .. n : q[i] \in S
  BY LenProperties, ElementOfSeq
<1>2. a \in Seq(S) /\ Len(a) = k - 1 /\ \A i \in 1 .. k - 1 : a[i] = q[i]
  <2>1. /\ a \in Seq(S) /\ Len(a) = IF 1 <= k - 1 THEN (k - 1) - 1 + 1 ELSE 0
        /\ \A i \in 1 .. (k - 1) - 1 + 1 : a[i] = q[1 + i - 1]
    <3>1. \A i \in 1 .. k - 1 : q[i] \in S
      BY <1>1
    <3>2. 1 \in Int /\ k - 1 \in Int
      BY <1>1
    <3> HIDE DEF n
    <3> QED
      BY <3>1, <3>2, SubSeqProperties
  <2> HIDE DEF a, n
  <2> QED
    BY <2>1, <1>1
<1>3. b \in Seq(S) /\ Len(b) = n - k /\ \A i \in 1 .. n - k : b[i] = q[k + i]
  <2>1. /\ b \in Seq(S) /\ Len(b) = IF k + 1 <= n THEN n - (k + 1) + 1 ELSE 0
        /\ \A i \in 1 .. n - (k + 1) + 1 : b[i] = q[k + 1 + i - 1]
    <3>1. \A i \in k + 1 .. n : q[i] \in S
      BY <1>1
    <3>2. k + 1 \in Int /\ n \in Int
      BY <1>1
    <3> HIDE DEF n
    <3> QED
      BY <3>1, <3>2, SubSeqProperties
  <2> HIDE DEF b, n
  <2> QED
    BY <2>1, <1>1
<1>4. /\ r \in Seq(S) /\ Len(r) = n - 1
      /\ \A i \in 1 .. n - 1 : r[i] = IF i < k THEN q[i] ELSE q[i + 1]
  <2>1. /\ r \in Seq(S) /\ Len(r) = Len(a) + Len(b)
        /\ \A i \in 1 .. Len(a) + Len(b) : r[i] = IF i <= Len(a) THEN a[i] ELSE b[i - Len(a)]
    <3> HIDE DEF a, b
    <3> QED
      BY <1>2, <1>3, ConcatProperties
  <2> HIDE DEF a, b, n, r
  <2>2. Len(r) = n - 1
    BY <2>1, <1>1, <1>2, <1>3
  <2>3. ASSUME NEW i \in 1 .. n - 1
        PROVE  r[i] = IF i < k THEN q[i] ELSE q[i + 1]
    <3>1. CASE i < k
      BY <3>1, <2>1, <1>1, <1>2, <1>3
    <3>2. CASE ~(i < k)
      <4> DEFINE j == i - (k - 1)
      <4>1. j \in 1 .. n - k /\ k + j = i + 1
        BY <3>2, <1>1
      <4>2. r[i] = b[j]
        BY <3>2, <2>1, <1>1, <1>2, <1>3
      <4> HIDE DEF j
      <4> QED
        BY <3>2, <4>1, <4>2, <1>3
    <3> QED
      BY <3>1, <3>2
  <2> QED
    BY <2>1, <2>2, <2>3
<1> HIDE DEF r, n
<1>5. <<e>> \in Seq(S) /\ Len(<<e>>) = 1 /\ <<e>>[1] = e
  OBVIOUS
<1>6. /\ <<e>> \o r \in Seq(S) /\ Len(<<e>> \o r) = 1 + Len(r)
      /\ \A j \in 1 .. 1 + Len(r) : (<<e>> \o r)[j] = IF j <= 1 THEN <<e>>[j] ELSE r[j - 1]
  BY <1>4, <1>5, ConcatProperties
<1>7. ASSUME NEW j \in 1 .. n
      PROVE  (<<e>> \o r)[j] = IF j = 1 THEN e ELSE IF j <= k THEN q[j - 1] ELSE q[j]
  <2>1. CASE j = 1
    BY <2>1, <1>1, <1>4, <1>5, <1>6
  <2>2. CASE j # 1
    <3> DEFINE i == j - 1
    <3>1. i \in 1 .. n - 1 /\ i + 1 = j
      BY <2>2, <1>1
    <3>2. (<<e>> \o r)[j] = r[i]
      BY <2>2, <1>1, <1>4, <1>6
    <3>3. r[i] = IF i < k THEN q[i] ELSE q[i + 1]
      BY <3>1, <1>4
    <3>4. i < k <=> j <= k
      BY <1>1
    <3>5. (<<e>> \o r)[j] = IF j <= k THEN q[j - 1] ELSE q[j]
      <4> HIDE DEF i
      <4>1. (<<e>> \o r)[j] = IF j <= k THEN q[i] ELSE q[j]
        BY <3>1, <3>2, <3>3, <3>4
      <4> QED
        BY <4>1 DEF i
    <3> QED
      BY <2>2, <3>5
  <2> QED
    BY <2>1, <2>2
<1>8. Lru!RemoveAt(q, k) = r
  BY DEF Lru!RemoveAt, r, n
<1>9. Len(<<e>> \o r) = n
  BY <1>1, <1>4, <1>6
<1> QED
  BY <1>6, <1>7, <1>8, <1>9 DEF n

LEMMA PutInFront ==
  ASSUME NEW S, NEW q \in Seq(S), NEW e \in S, Len(q) <= SLOTS
  PROVE  /\ Lru!InFront(e, q) \in Seq(S)
         /\ Len(Lru!InFront(e, q)) = IF Len(q) = SLOTS THEN SLOTS ELSE Len(q) + 1
         /\ \A j \in 1 .. Len(Lru!InFront(e, q)) :
              Lru!InFront(e, q)[j] = IF j = 1 THEN e ELSE q[j - 1]
<1> DEFINE r == <<e>> \o q
           n == IF Len(q) = SLOTS THEN SLOTS ELSE Len(q) + 1
           u == SubSeq(r, 1, n)
<1>1. <<e>> \in Seq(S) /\ Len(<<e>>) = 1 /\ <<e>>[1] = e
  OBVIOUS
<1>2. /\ r \in Seq(S) /\ Len(r) = 1 + Len(q)
      /\ \A j \in 1 .. 1 + Len(q) : r[j] = IF j <= 1 THEN <<e>>[j] ELSE q[j - 1]
  BY <1>1, ConcatProperties
<1>3. Len(q) \in Nat /\ n \in Nat /\ 1 <= n /\ n <= 1 + Len(q)
  BY LenProperties, DirectoryAssumption
<1> HIDE DEF r, n
<1>4. \A j \in 1 .. n : r[j] \in S
  BY <1>2, <1>3, ElementOfSeq
<1>5. /\ u \in Seq(S) /\ Len(u) = IF 1 <= n THEN n - 1 + 1 ELSE 0
      /\ \A j \in 1 .. n - 1 + 1 : u[j] = r[1 + j - 1]
  <2>1. 1 \in Int /\ n \in Int
    BY <1>3
  <2> QED
    BY <2>1, <1>4, SubSeqProperties
<1> HIDE DEF u
<1>6. Len(u) = n
  BY <1>3, <1>5
<1>7. \A j \in 1 .. n : u[j] = IF j = 1 THEN e ELSE q[j - 1]
  BY <1>1, <1>2, <1>3, <1>5
<1>8. Lru!InFront(e, q) = u
  BY DEF Lru!InFront, u, r, n
<1> QED
  BY <1>5, <1>6, <1>7, <1>8 DEF n

(* A touched slot's expert moves from its place to the top.                *)
LEMMA StackTouched ==
  ASSUME DirTypeOK, RankIsOrder, StackIsDirectory, StackIsDirectory',
         NEW s \in Slot, valid[s], rank' = ToFront(s), UNCHANGED <<valid, tag>>
  PROVE  \E k \in DOMAIN Stack :
           Stack[k] = tag[s] /\ Stack' = <<tag[s]>> \o Lru!RemoveAt(Stack, k)
<1> DEFINE k == rank[s] + 1
           moved == <<tag[s]>> \o Lru!RemoveAt(Stack, k)
<1>1. \A t \in Slot : rank[t] \in Nat /\ tag[t] \in Expert
  BY DirectoryAssumption, SMTT(30) DEF DirTypeOK, Slot
<1>2. /\ Depth \in Nat /\ Stack \in Seq(Expert) /\ Len(Stack) = Depth
      /\ \A t \in Slot : valid[t] <=> rank[t] < Depth
      /\ \A t \in Slot, i \in 1 .. Depth : rank[t] = i - 1 => Stack[i] = tag[t]
  BY DirectoryAssumption DEF StackIsDirectory
<1>3. Depth' = Depth
  BY DEF Depth, Empty, Slot
<1>4. /\ Stack' \in Seq(Expert) /\ Len(Stack') = Depth
      /\ \A t \in Slot, i \in 1 .. Depth : rank'[t] = i - 1 => Stack'[i] = tag[t]
      /\ \A i \in 1 .. Depth : \E t \in Slot : rank'[t] = i - 1
  BY <1>3 DEF StackIsDirectory, Slot
<1>5. k \in 1 .. Depth /\ rank[s] = k - 1
  BY <1>1, <1>2
<1> HIDE DEF k
<1>6. /\ moved \in Seq(Expert) /\ Len(moved) = Depth
      /\ \A j \in 1 .. Depth : moved[j] =
           IF j = 1 THEN tag[s] ELSE IF j <= k THEN Stack[j - 1] ELSE Stack[j]
  <2>1. Stack \in Seq(Expert) /\ k \in 1 .. Len(Stack) /\ tag[s] \in Expert
    BY <1>1, <1>2, <1>5
  <2>2. /\ moved \in Seq(Expert) /\ Len(moved) = Len(Stack)
        /\ \A j \in 1 .. Len(Stack) : moved[j] =
             IF j = 1 THEN tag[s] ELSE IF j <= k THEN Stack[j - 1] ELSE Stack[j]
    BY <2>1, MovedToFront
  <2> HIDE DEF moved
  <2> QED
    BY <2>2, <1>2
<1> HIDE DEF moved
<1>7. ASSUME NEW j \in 1 .. Depth
      PROVE  Stack'[j] = moved[j]
  <2>1. PICK t \in Slot : rank'[t] = j - 1
    BY <1>4
  <2>2. Stack'[j] = tag[t]
    BY <1>4, <2>1
  <2>3. rank'[s] = 0 /\ (t # s => rank'[t] = IF rank[t] < rank[s] THEN rank[t] + 1 ELSE rank[t])
    BY ToFrontFacts
  <2>4. CASE t = s
    BY <2>1, <2>2, <2>3, <2>4, <1>6
  <2>5. CASE t # s /\ rank[t] < rank[s]
    <3> DEFINE i == j - 1
    <3>1. rank[t] + 1 = j - 1 /\ rank[t] \in Nat /\ rank[s] \in Nat
      BY <2>1, <2>3, <2>5, <1>1
    <3>2. i \in 1 .. Depth /\ rank[t] = i - 1 /\ j # 1 /\ j <= k
      BY <3>1, <2>5, <1>2, <1>5
    <3>3. moved[j] = Stack[i]
      BY <3>2, <1>6
    <3> HIDE DEF i
    <3> QED
      BY <3>2, <3>3, <2>2, <1>2
  <2>6. CASE t # s /\ ~(rank[t] < rank[s])
    <3>1. rank[t] # rank[s]
      BY <2>6 DEF RankIsOrder
    <3>2. rank[t] = j - 1 /\ j # 1 /\ ~(j <= k)
      BY <2>1, <2>3, <2>6, <3>1, <1>1, <1>5
    <3> QED
      BY <3>2, <2>2, <1>2, <1>6
  <2> QED
    BY <2>4, <2>5, <2>6
<1>8. Stack' = moved
  BY <1>2, <1>4, <1>6, <1>7, SeqEqual
<1>9. k \in DOMAIN Stack /\ Stack[k] = tag[s]
  BY <1>2, <1>5, LenProperties
<1> QED
  BY <1>8, <1>9 DEF moved

(* An expert installed in the victim comes on top, and when the cache is   *)
(* full the last one, which is the least recently used, drops out.         *)
LEMMA StackInstalled ==
  ASSUME DirTypeOK, RankIsOrder, StackIsDirectory, StackIsDirectory',
         NEW s \in Slot, NEW e \in Expert, ~Resident(e), Install(s, e),
         s \in Empty \/ (Empty = {} /\ rank[s] = SLOTS - 1)
  PROVE  /\ ~Lru!Contains(Stack, e)
         /\ Stack' = Lru!InFront(e, Stack)
<1> DEFINE front == Lru!InFront(e, Stack)
<1>1. \A t \in Slot : rank[t] \in Nat /\ rank[t] < SLOTS /\ tag[t] \in Expert
  BY DirectoryAssumption, SMTT(30) DEF DirTypeOK, Slot
<1>2. /\ Depth \in Nat /\ Depth <= SLOTS /\ SLOTS \in Nat
      /\ Stack \in Seq(Expert) /\ Len(Stack) = Depth
      /\ \A t \in Slot : valid[t] <=> rank[t] < Depth
      /\ \A t \in Slot, i \in 1 .. Depth : rank[t] = i - 1 => Stack[i] = tag[t]
      /\ \A i \in 1 .. Depth : \E t \in Slot : rank[t] = i - 1 /\ valid[t]
  BY DirectoryAssumption DEF StackIsDirectory
<1>3. /\ valid'[s] /\ tag'[s] = e /\ rank' = ToFront(s)
      /\ \A t \in Slot : t # s => valid'[t] = valid[t] /\ tag'[t] = tag[t]
  BY InstallFacts DEF Install
<1>4. ~Lru!Contains(Stack, e)
  <2> SUFFICES ASSUME NEW i \in 1 .. Depth, Stack[i] = e
               PROVE  FALSE
    BY <1>2 DEF Lru!Contains
  <2>1. PICK t \in Slot : rank[t] = i - 1 /\ valid[t]
    BY <1>2
  <2> QED
    BY <2>1, <1>2 DEF Resident, Holds
<1>5. Depth' = IF Depth = SLOTS THEN SLOTS ELSE Depth + 1
  <2>1. CASE s \in Empty
    <3>1. Slot \ Empty' = (Slot \ Empty) \cup {s}
      BY <1>3 DEF Empty, Slot
    <3>2. IsFiniteSet(Slot \ Empty) /\ s \notin Slot \ Empty
      BY <2>1, SlotsAreFinite, FS_Subset
    <3>3. Depth' = Depth + 1
      BY <3>1, <3>2, FS_AddElement DEF Depth, Slot
    <3>4. Depth # SLOTS
      BY <2>1, <1>1, <1>2 DEF Empty
    <3> QED
      BY <3>3, <3>4
  <2>2. CASE Empty = {}
    <3>1. Empty' = {}
      BY <2>2, <1>3 DEF Empty, Slot
    <3>2. Depth = SLOTS /\ Depth' = SLOTS
      BY <2>2, <3>1, SlotsAreFinite DEF Depth, Slot
    <3> QED
      BY <3>2
  <2> QED
    BY <2>1, <2>2
<1>6. /\ Stack' \in Seq(Expert) /\ Len(Stack') = Depth'
      /\ \A t \in Slot, i \in 1 .. Depth' : rank'[t] = i - 1 => Stack'[i] = tag'[t]
      /\ \A i \in 1 .. Depth' : \E t \in Slot : rank'[t] = i - 1 /\ valid'[t]
  BY DEF StackIsDirectory, Slot
<1>7. /\ front \in Seq(Expert) /\ Len(front) = Depth'
      /\ \A j \in 1 .. Depth' : front[j] = IF j = 1 THEN e ELSE Stack[j - 1]
  <2>1. Stack \in Seq(Expert) /\ Len(Stack) <= SLOTS
    BY <1>2
  <2>2. /\ front \in Seq(Expert)
        /\ Len(front) = IF Len(Stack) = SLOTS THEN SLOTS ELSE Len(Stack) + 1
        /\ \A j \in 1 .. Len(front) : front[j] = IF j = 1 THEN e ELSE Stack[j - 1]
    BY <2>1, PutInFront
  <2> HIDE DEF front
  <2> QED
    BY <2>2, <1>2, <1>5
<1> HIDE DEF front
<1>8. ASSUME NEW t \in Slot, t # s, valid[t]
      PROVE  rank[t] < rank[s] /\ rank[t] < Depth /\ rank'[t] = rank[t] + 1
  <2>1. rank[t] < Depth
    BY <1>2, <1>8
  <2>2. rank[t] # rank[s]
    BY <1>8 DEF RankIsOrder
  <2>3. rank[t] < rank[s]
    BY <2>1, <2>2, <1>1, <1>2 DEF Empty
  <2>4. rank'[t] = IF rank[t] < rank[s] THEN rank[t] + 1 ELSE rank[t]
    BY <1>3, <1>8, ToFrontFacts
  <2> QED
    BY <2>1, <2>3, <2>4
<1>9. ASSUME NEW j \in 1 .. Depth'
      PROVE  Stack'[j] = front[j]
  <2>1. PICK t \in Slot : rank'[t] = j - 1 /\ valid'[t]
    BY <1>6
  <2>2. Stack'[j] = tag'[t]
    BY <1>6, <2>1
  <2>3. CASE t = s
    <3>1. rank'[s] = 0
      BY <1>3, ToFrontFacts
    <3> QED
      BY <2>1, <2>2, <2>3, <3>1, <1>3, <1>7
  <2>4. CASE t # s
    <3> DEFINE i == j - 1
    <3>1. i \in 1 .. Depth /\ rank[t] = i - 1 /\ j # 1 /\ tag'[t] = tag[t]
      BY <2>1, <2>4, <1>1, <1>2, <1>3, <1>8
    <3>2. front[j] = Stack[i]
      BY <3>1, <1>7
    <3> HIDE DEF i
    <3> QED
      BY <3>1, <3>2, <2>2, <1>2
  <2> QED
    BY <2>3, <2>4
<1>10. Stack' = front
  BY <1>6, <1>7, <1>9, SeqEqual
<1> QED
  BY <1>4, <1>10 DEF front

LEMMA StackAtStart == Init => StackIsDirectory /\ Stack = << >>
<1> SUFFICES ASSUME Init PROVE StackIsDirectory /\ Stack = << >>
  OBVIOUS
<1>1. StackIsDirectory
  <2>1. RecentAreResident /\ DirTypeOK /\ RankIsOrder
    BY CacheInit DEF Init, DirInit, RecentAreResident, CacheInv, Sound, TypeOK
  <2> QED
    BY <2>1, StackFacts
<1>2. Depth = 0
  <2>1. Slot \ Empty = {}
    BY DEF Init, DirInit, Empty
  <2> QED
    BY <2>1, FS_EmptySet DEF Depth
<1>3. Stack \in Seq(Expert) /\ Len(Stack) = 0
  BY <1>1, <1>2 DEF StackIsDirectory
<1> QED
  BY <1>1, <1>3, EmptySeq

LEMMA LruHit ==
  ASSUME CacheInv, StackIsDirectory, StackIsDirectory', CACHE_HIT_LAT = 0,
         NEW s \in Slot, valid[s], ServeHit(s)
  PROVE  Lru!Next
<1>1. /\ resp_valid' /\ hit' = TRUE /\ resp_slot' = s
      /\ rank' = ToFront(s) /\ UNCHANGED <<valid, tag>>
  BY DEF ServeHit
<1>2. DirTypeOK /\ RankIsOrder
  BY DEF CacheInv, Sound, TypeOK
<1>3. \E k \in DOMAIN Stack :
        Stack[k] = tag[s] /\ Stack' = <<tag[s]>> \o Lru!RemoveAt(Stack, k)
  BY <1>1, <1>2, StackTouched
<1>4. tag[s] \in Expert /\ tag'[resp_slot'] = tag[s]
  BY <1>1, <1>2 DEF DirTypeOK
<1>5. Lru!Hit(tag[s])
  BY <1>1, <1>3, <1>4 DEF Lru!Hit
<1> QED
  BY <1>4, <1>5 DEF Lru!Next

LEMMA LruQuiet ==
  ASSUME UNCHANGED <<valid, tag, rank>>, ~resp_valid'
  PROVE  Lru!Next
<1>1. Stack' = Stack
  BY DEF Stack, Empty, Slot
<1> QED
  BY <1>1 DEF Lru!Next, Lru!Quiet

LEMMA LruStep ==
  /\ CacheInv /\ [Next]_vars
  /\ REPL_POLICY = 0 => StackIsDirectory
  /\ (REPL_POLICY = 0 => StackIsDirectory)'
  => (REPL_POLICY = 0 /\ CACHE_HIT_LAT = 0 => [Lru!Next]_(Lru!vars))
<1> SUFFICES ASSUME CacheInv, [Next]_vars, StackIsDirectory, REPL_POLICY = 0, CACHE_HIT_LAT = 0,
                    (REPL_POLICY = 0 => StackIsDirectory)'
             PROVE  [Lru!Next]_(Lru!vars)
  OBVIOUS
<1>1. CASE Cycle /\ UNCHANGED build
  <2>1. PICK req \in Presented, hint \in build.Hint \cup {None}, flash_done \in Completing :
          Edge(req, hint, flash_done)
    BY <1>1 DEF Cycle
  <2>2. StackIsDirectory'
    BY <1>1 DEF REPL_POLICY
  <2>3. /\ TypeOK /\ RankIsOrder /\ Places /\ DirTypeOK /\ FetchSettled
        /\ req \in Expert \cup {None} /\ hit_wait = 0
    BY <2>1 DEF CacheInv, Sound, TypeOK, Presented
  <2>4. CASE IdleHitRead \/ PrefetchHitRead
    BY <2>3, <2>4 DEF IdleHitRead, PrefetchHitRead
  <2>5. CASE IdleDemandHit(req) \/ PrefetchDemandHit(req) \/ RestHit(req)
    <3>1. /\ Resident(query_id(req)) /\ ServeHit(lookup_slot(query_id(req)))
          /\ req # None \/ state = "DMD_REST"
      BY <2>5 DEF IdleDemandHit, PrefetchDemandHit, RestHit
    <3>2. lookup_slot(query_id(req)) \in Slot /\ valid[lookup_slot(query_id(req))]
      BY <2>3, <3>1, HitFacts DEF Holds
    <3> QED
      BY <2>2, <3>1, <3>2, LruHit
  <2>6. CASE FetchDone
    <3>1. /\ Install(victim_q, req_id_q) /\ ~Resident(req_id_q) /\ victim_q = victim_slot
          /\ req_id_q \in Expert
      BY <2>3, <2>6 DEF FetchDone, FetchSettled, TypeOK
    <3>2. victim_q \in Slot /\ (victim_q \in Empty \/ (Empty = {} /\ rank[victim_q] = SLOTS - 1))
      BY <2>3, <3>1, VictimFacts
    <3>3. ~Lru!Contains(Stack, req_id_q) /\ Stack' = Lru!InFront(req_id_q, Stack)
      BY <2>2, <2>3, <3>1, <3>2, StackInstalled
    <3>4. tag'[victim_q] = req_id_q
      BY <2>3, <3>1, <3>2 DEF Install, DirTypeOK
    <3>5. Lru!Miss(req_id_q)
      BY <2>6, <3>3, <3>4 DEF FetchDone, Lru!Miss
    <3> QED
      BY <3>1, <3>5 DEF Lru!Next
  <2>7. CASE PrefetchDone(req) /\ ~Resident(pf_id_q)
    <3>1. Install(victim_slot, pf_id_q) /\ pf_id_q \in Expert /\ ~resp_valid'
      BY <2>3, <2>7 DEF PrefetchDone, NoAnswer, TypeOK
    <3>2. victim_slot \in Slot
          /\ (victim_slot \in Empty \/ (Empty = {} /\ rank[victim_slot] = SLOTS - 1))
      BY <2>3, VictimFacts
    <3>3. ~Lru!Contains(Stack, pf_id_q) /\ Stack' = Lru!InFront(pf_id_q, Stack)
      BY <2>2, <2>3, <2>7, <3>1, <3>2, StackInstalled
    <3>4. Lru!Prefetch(pf_id_q)
      BY <3>1, <3>3 DEF Lru!Prefetch
    <3> QED
      BY <3>1, <3>4 DEF Lru!Next
  <2>8. CASE PrefetchDone(req) /\ Resident(pf_id_q)
    BY <2>8, LruQuiet DEF PrefetchDone, NoAnswer, SameDir, dir
  <2>9. CASE IdleDemandMiss(req) \/ IdlePrefetch(req, hint) \/ Idle(req, hint) \/ FetchWait
             \/ PrefetchDemandMiss(req) \/ PrefetchWait(req) \/ RestMiss(req)
    BY <2>9, LruQuiet DEF IdleDemandMiss, IdlePrefetch, Idle, FetchWait, PrefetchDemandMiss,
       PrefetchWait, RestMiss, NoAnswer, SameDir, dir
  <2> QED
    BY <2>1, <2>4, <2>5, <2>6, <2>7, <2>8, <2>9 DEF Edge
<1>2. CASE Reset /\ UNCHANGED build
  <2>1. Init'
    BY <1>2 DEF CacheInv, Sound, TypeOK, Reset, DirReset, Init, DirInit, Slot
  <2>2. (Stack = << >>)'
    BY <2>1, StackAtStart, PTL
  <2> QED
    BY <1>2, <2>2 DEF Reset, Lru!Next, Lru!Reset
<1>3. CASE UNCHANGED vars
  BY <1>3 DEF vars, dir, answer, Stack, Empty, Slot, Lru!vars
<1> QED
  BY <1>1, <1>2, <1>3 DEF Next

(* With the LRU policy and no hit latency the cache is the textbook        *)
(* exact-LRU stack (headers of expert_cache_ctrl.v and expert_cache_pf.v): *)
(* every answer, hit or miss, and every eviction is the stack's, prefetch  *)
(* installs included.                                                      *)
THEOREM CacheIsLru == Spec => ImplementsLru
<1>1. Init => Lru!Init
  BY StackAtStart DEF Init, Lru!Init
<1>2. CacheInv => (REPL_POLICY = 0 => StackIsDirectory)
  BY StackFacts DEF CacheInv, Sound, TypeOK
<1> QED
  BY <1>1, <1>2, CacheInvariance, LruStep, PTL DEF Spec, ImplementsLru
-----------------------------------------------------------------------------
(* The cache in the system.                                                *)
MemTypes ==
  /\ hstate \in {"IDLE", "APPEND", "RUN_W", "DECAP", "DONE"}
  /\ ap_i \in Nat /\ s_len \in Nat
  /\ efifo \in Seq(Expert) /\ awaiting \in BOOLEAN
  /\ fl_busy \in BOOLEAN /\ fl_gnt \in {"EXP", "PG"}
  /\ kv_g_state \in {"IDLE", "FLASH"} /\ kv_flash_req \in BOOLEAN /\ kv_busy \in BOOLEAN
  /\ kv_wait \in Nat

(* The demand under way is the oldest id queued.                           *)
HeadIsAsked ==
  /\ awaiting <=> ask # None
  /\ awaiting => efifo # << >> /\ ask = Head(efifo)

(* A run has been given only what the context has room for, and its window *)
(* has been appended before the die runs.                                  *)
WindowFilled ==
  /\ kv_log \in Seq(Row) /\ kv_count = Len(kv_log) /\ kv_count <= APPENDS
  /\ hstate = "APPEND" => /\ ap_i < s_len /\ ap_i <= kv_count
                          /\ kv_count + (s_len - ap_i) + 1 <= APPENDS
  /\ hstate = "RUN_W" => s_len <= kv_count /\ kv_count + 1 <= APPENDS
  /\ hstate = "DECAP" => kv_count + 1 <= APPENDS

(* The Flash works only for the client it was granted to, whose fetch is   *)
(* still wanted.                                                           *)
GrantIsWanted ==
  /\ fl_busy /\ fl_gnt = "EXP" => flash_req
  /\ fl_busy /\ fl_gnt = "PG" => kv_flash_req
  /\ ~fl_busy => fl_age = 0
  /\ kv_flash_req <=> kv_g_state = "FLASH"
  /\ kv_busy <=> kv_g_state = "FLASH"

(* How long each client has waited, by where its fetch is and by whom the  *)
(* Flash is busy with.  The cache comes first, but between two fetches of  *)
(* its own there is an edge on which a waiting pager is granted.           *)
DemandWaited ==
  /\ ask = None => wait = 0
  /\ state = "PF_FETCH" /\ dmd_pending =>
       wait <= IF ~fl_busy THEN FLASH_LAT
               ELSE IF fl_gnt = "PG" THEN fl_age ELSE FLASH_LAT + 1 + fl_age
  /\ state = "DMD_REST" => ~fl_busy /\ wait <= 2 * FLASH_LAT + 1
  /\ state = "FETCH" =>
       wait <= IF ~fl_busy THEN 3 * FLASH_LAT + 2
               ELSE IF fl_gnt = "PG" THEN 2 * FLASH_LAT + 2 + fl_age
               ELSE 3 * FLASH_LAT + 3 + fl_age
  /\ wait <= 4 * FLASH_LAT + 3

PagerWaited ==
  /\ ~kv_flash_req => kv_wait = 0
  /\ kv_flash_req =>
       kv_wait <= IF ~fl_busy THEN IF flash_req THEN 0 ELSE FLASH_LAT + 1
                  ELSE IF fl_gnt = "PG" THEN FLASH_LAT + 2 + fl_age ELSE 1 + fl_age

SystemInv ==
  /\ Sound /\ CACHE_HIT_LAT = 0
  /\ MemTypes /\ HeadIsAsked /\ WindowFilled /\ GrantIsWanted
  /\ DemandWaited /\ PagerWaited
-----------------------------------------------------------------------------
LEMMA SystemInit == Init /\ MemInit /\ CACHE_HIT_LAT = 0 => SystemInv
<1> SUFFICES ASSUME Init, MemInit, CACHE_HIT_LAT = 0 PROVE SystemInv
  OBVIOUS
<1>1. Sound
  BY CacheInit DEF CacheInv
<1>2. 0 <= APPENDS /\ FLASH_LAT \in Nat
  BY PagerAssumption, CacheAssumption
<1>3. /\ << >> \in Seq(Expert) /\ << >> \in Seq(Row) /\ Len(<< >>) = 0
  OBVIOUS
<1>4. MemTypes
  BY <1>3 DEF MemInit, KvInit, MemTypes
<1>5. HeadIsAsked
  BY DEF Init, MemInit, HeadIsAsked
<1>6. WindowFilled
  BY <1>2, <1>3 DEF MemInit, KvInit, WindowFilled
<1>7. GrantIsWanted
  BY DEF Init, MemInit, KvInit, GrantIsWanted
<1>8. DemandWaited /\ PagerWaited
  BY <1>2 DEF Init, MemInit, KvInit, DemandWaited, PagerWaited
<1> QED
  BY <1>1, <1>4, <1>5, <1>6, <1>7, <1>8 DEF SystemInv

(* What one edge does to a fetch of the cache: it goes on with its id, or  *)
(* is over when the Flash is done with it.                                 *)
LEMMA CacheFetch ==
  ASSUME Sound, NEW req, NEW hint, NEW flash_done, Edge(req, hint, flash_done), flash_req
  PROVE  IF flash_done THEN ~flash_req' ELSE flash_req' /\ flash_expert_id' = flash_expert_id
<1>1. state \in {"FETCH", "PF_FETCH"}
  BY DEF Sound, Places
<1> QED
  BY <1>1 DEF Edge, IdleHitRead, IdleDemandHit, IdleDemandMiss, IdlePrefetch, pf_ready, Idle,
     FetchDone, PrefetchDone, FetchWait, PrefetchHitRead, PrefetchDemandHit,
     PrefetchDemandMiss, PrefetchWait, RestHit, RestMiss, ctrl

(* The same of a fetch of the pager.                                       *)
LEMMA PagerFetch ==
  ASSUME MemTypes, GrantIsWanted, NEW gather, NEW done \in BOOLEAN, PagerEdge(gather, done)
  PROVE  /\ kv_flash_req => IF done THEN ~kv_flash_req'
                            ELSE kv_flash_req' /\ kv_flash_idx' = kv_flash_idx
         /\ kv_g_state' \in {"IDLE", "FLASH"} /\ kv_flash_req' \in BOOLEAN /\ kv_busy' \in BOOLEAN
         /\ kv_flash_req' <=> kv_g_state' = "FLASH"
         /\ kv_busy' <=> kv_g_state' = "FLASH"
  BY DEF PagerEdge, MemTypes, GrantIsWanted, FlashDone, GatherResident, GatherCold, NoGatherTaken

(* The queue presents a demand only to a cache that is not busy, and what  *)
(* the cache works on stays at its head.                                   *)
LEMMA QueueStep ==
  ASSUME Sound, MemTypes, HeadIsAsked, NEW routed \in Routed, QueueEdge(routed),
         ObserveDemand(ec_req)
  PROVE  /\ ec_req \in Expert \cup {None}
         /\ ec_req # None => ~busy
         /\ efifo' \in Seq(Expert) /\ awaiting' \in BOOLEAN
         /\ HeadIsAsked'
<1>1. efifo \in Seq(Expert) /\ awaiting \in BOOLEAN /\ None \notin Expert
  BY DirectoryAssumption DEF MemTypes
<1>2. /\ ec_req \in Expert \cup {None}
      /\ ec_req # None => efifo # << >> /\ ~awaiting /\ ec_req = Head(efifo)
      /\ ec_req = None => efifo = << >> \/ awaiting
  BY <1>1 DEF ec_req
<1>3. ec_req # None => ~busy
  BY <1>2 DEF HeadIsAsked, Sound, Places, Owed, TypeOK
<1> DEFINE answered == awaiting /\ resp_valid
           left == IF answered THEN Tail(efifo) ELSE efifo
<1>4. left \in Seq(Expert)
  BY <1>1 DEF HeadIsAsked
<1>5. /\ efifo' = IF new_episode(routed) /\ Len(efifo) < EFIFO_DEPTH
                    THEN Append(left, routed[1]) ELSE left
      /\ awaiting' = (~answered /\ (awaiting \/ ec_req # None))
  BY DEF QueueEdge
<1>6. new_episode(routed) => routed[1] \in Expert
  BY SystemAssumption DEF new_episode, Routed
<1>7. efifo' \in Seq(Expert) /\ (left # << >> => efifo' # << >> /\ Head(efifo') = Head(left))
  <2> HIDE DEF left
  <2>1. CASE efifo' = left
    BY <1>4, <2>1
  <2>2. CASE efifo' # left
    <3>1. routed[1] \in Expert /\ efifo' = Append(left, routed[1])
      BY <1>5, <1>6, <2>2
    <3>2. /\ Append(left, routed[1]) \in Seq(Expert) /\ Append(left, routed[1]) # << >>
          /\ left # << >> => Head(Append(left, routed[1])) = Head(left)
      BY <1>4, <3>1, AppendProperties, HeadTailAppend
    <3> QED
      BY <3>1, <3>2
  <2> QED
    BY <2>1, <2>2
<1>8. HeadIsAsked'
  <2>1. awaiting' => ~answered /\ efifo # << >>
    BY <1>2, <1>5 DEF HeadIsAsked
  <2>2. awaiting' <=> ask' # None
    BY <1>1, <1>2, <1>5 DEF HeadIsAsked, ObserveDemand
  <2>3. awaiting' => ask' = Head(efifo)
    BY <1>1, <1>2, <1>5 DEF HeadIsAsked, ObserveDemand
  <2> QED
    BY <2>1, <2>2, <2>3, <1>7 DEF HeadIsAsked
<1> QED
  BY <1>2, <1>3, <1>5, <1>7, <1>8

(* The host appends the rows of the window before it starts the die, and   *)
(* the row decoded after it, and the count never wraps.                    *)
LEMMA HostStep ==
  ASSUME MemTypes, WindowFilled, HostEdge,
         AppendRow(IF pg_append_valid THEN <<ZeroRow>> ELSE << >>)
  PROVE  /\ hstate' \in {"IDLE", "APPEND", "RUN_W", "DECAP", "DONE"}
         /\ ap_i' \in Nat /\ s_len' \in Nat
         /\ WindowFilled'
<1>1. /\ kv_log \in Seq(Row) /\ Len(kv_log) \in Nat /\ kv_count = Len(kv_log)
      /\ kv_count <= APPENDS /\ APPENDS \in Nat
      /\ ap_i \in Nat /\ s_len \in Nat
      /\ hstate \in {"IDLE", "APPEND", "RUN_W", "DECAP", "DONE"}
  BY LenProperties, PagerAssumption DEF MemTypes, WindowFilled
<1>2. /\ kv_log' \in Seq(Row) /\ kv_count' = Len(kv_log')
      /\ kv_count' = IF pg_append_valid THEN kv_count + 1 ELSE kv_count
  <2>1. CASE pg_append_valid
    <3>1. kv_count + 1 <= APPENDS
      BY <2>1, <1>1 DEF pg_append_valid, WindowFilled
    <3>2. Trunc(kv_count + 1) = kv_count + 1
      BY <3>1, <1>1, SystemAssumption, PagerAssumption DEF Trunc
    <3>3. <<ZeroRow>> \in Seq(Row) /\ Len(<<ZeroRow>>) = 1 /\ <<ZeroRow>> # << >>
      BY PagerAssumption
    <3>4. kv_log' = kv_log \o <<ZeroRow>> /\ kv_count' = kv_count + 1
      BY <2>1, <3>2, <3>3 DEF AppendRow
    <3>5. kv_log' \in Seq(Row) /\ Len(kv_log') = Len(kv_log) + 1
      BY <1>1, <3>3, <3>4, ConcatProperties
    <3> QED
      BY <2>1, <1>1, <3>4, <3>5
  <2>2. CASE ~pg_append_valid
    <3>1. kv_log' = kv_log \o << >> /\ kv_count' = kv_count
      BY <2>2 DEF AppendRow
    <3>2. kv_log' = kv_log
      BY <1>1, <3>1, ConcatEmptySeq
    <3> QED
      BY <2>2, <1>1, <3>1, <3>2
  <2> QED
    BY <2>1, <2>2
<1>3. CASE \E len \in Window : Len(kv_log) + len + 1 <= APPENDS /\ Start(len)
  <2>1. PICK len \in Window : Len(kv_log) + len + 1 <= APPENDS /\ Start(len)
    BY <1>3
  <2>2. len \in Nat
    BY SystemAssumption
  <2>3. kv_count' = kv_count
    BY <1>2, <2>1 DEF Start, pg_append_valid
  <2> QED
    BY <1>1, <1>2, <2>1, <2>2, <2>3 DEF Start, WindowFilled
<1>4. CASE Fill
  <2>1. kv_count' = kv_count + 1
    BY <1>2, <1>4 DEF Fill, pg_append_valid
  <2> QED
    BY <1>1, <1>2, <1>4, <2>1 DEF Fill, WindowFilled
<1>5. CASE Move("IDLE", "IDLE") \/ Move("DECAP", "DONE") \/ Move("DONE", "IDLE")
  BY <1>1, <1>2, <1>5 DEF Move, WindowFilled, pg_append_valid
<1>6. CASE Move("RUN_W", "RUN_W") \/ Move("RUN_W", "DECAP")
  BY <1>1, <1>2, <1>6 DEF Move, WindowFilled, pg_append_valid
<1> QED
  BY <1>3, <1>4, <1>5, <1>6 DEF HostEdge

(* The arbiter never drops a grant before the Flash has served it, and     *)
(* never serves a fetch that is over.                                      *)
LEMMA GrantStep ==
  ASSUME Sound, MemTypes, GrantIsWanted,
         NEW req, NEW hint, NEW gather, NEW flash_done \in Answering,
         Edge(req, hint, ec_flash_done(flash_done)),
         PagerEdge(gather, pg_flash_done(flash_done)),
         Grant \/ Hold(flash_done),
         fl_age' = IF fl_busy /\ ~flash_done THEN fl_age + 1 ELSE 0
  PROVE  /\ GrantIsWanted'
         /\ fl_busy' \in BOOLEAN /\ fl_gnt' \in {"EXP", "PG"}
         /\ fl_age' \in 0 .. FLASH_LAT - 1
<1>1. /\ flash_done \in BOOLEAN /\ fl_busy \in BOOLEAN /\ fl_gnt \in {"EXP", "PG"}
      /\ fl_age \in 0 .. FLASH_LAT - 1 /\ FLASH_LAT \in Nat \ {0}
      /\ flash_req \in BOOLEAN /\ kv_flash_req \in BOOLEAN
  BY CacheAssumption DEF Answering, MemTypes, Sound, TypeOK
<1>2. fl_age' \in 0 .. FLASH_LAT - 1
  <2>1. fl_busy /\ ~flash_done => fl_age # FLASH_LAT - 1
    BY DEF Answering
  <2> QED
    BY <1>1, <2>1
<1>3. flash_req => flash_req' \/ ec_flash_done(flash_done)
  BY CacheFetch
<1>4. pg_flash_done(flash_done) \in BOOLEAN
  BY <1>1 DEF pg_flash_done
<1>5. /\ kv_flash_req => kv_flash_req' \/ pg_flash_done(flash_done)
      /\ kv_flash_req' <=> kv_g_state' = "FLASH"
      /\ kv_busy' <=> kv_g_state' = "FLASH"
  BY <1>4, PagerFetch
<1>6. CASE Grant
  BY <1>1, <1>2, <1>3, <1>5, <1>6 DEF Grant, GrantIsWanted, arbiterVars, ec_flash_done, pg_flash_done
<1>7. CASE Hold(flash_done)
  BY <1>1, <1>2, <1>3, <1>5, <1>7 DEF Hold, GrantIsWanted, ec_flash_done, pg_flash_done
<1> QED
  BY <1>6, <1>7

(* What the arbiter does on an edge, as the waiting clients see it.        *)
LEMMA ArbiterFacts ==
  ASSUME Sound, MemTypes, GrantIsWanted, NEW flash_done \in Answering,
         Grant \/ Hold(flash_done),
         fl_age' = IF fl_busy /\ ~flash_done THEN fl_age + 1 ELSE 0
  PROVE  /\ fl_age' \in Nat /\ fl_age \in 0 .. FLASH_LAT - 1 /\ FLASH_LAT \in Nat \ {0}
         /\ flash_done \in BOOLEAN /\ fl_busy \in BOOLEAN /\ flash_req \in BOOLEAN
         /\ kv_flash_req \in BOOLEAN
         /\ fl_busy /\ ~flash_done =>
              fl_age + 1 < FLASH_LAT /\ fl_busy' /\ fl_gnt' = fl_gnt /\ fl_age' = fl_age + 1
         /\ fl_busy /\ flash_done => ~fl_busy' /\ fl_age' = 0
         /\ ~fl_busy => ~flash_done /\ fl_age = 0 /\ fl_age' = 0
         /\ ~fl_busy /\ flash_req => fl_busy' /\ fl_gnt' = "EXP"
         /\ ~fl_busy /\ ~flash_req /\ kv_flash_req => fl_busy' /\ fl_gnt' = "PG"
         /\ ~fl_busy /\ ~flash_req /\ ~kv_flash_req => ~fl_busy'
<1>1. /\ flash_done \in BOOLEAN /\ fl_busy \in BOOLEAN /\ fl_gnt \in {"EXP", "PG"}
      /\ fl_age \in 0 .. FLASH_LAT - 1 /\ FLASH_LAT \in Nat \ {0}
      /\ flash_req \in BOOLEAN /\ kv_flash_req \in BOOLEAN
  BY CacheAssumption DEF Answering, MemTypes, Sound, TypeOK
<1>2. fl_busy /\ ~flash_done => fl_age + 1 < FLASH_LAT
  <2>1. fl_busy /\ ~flash_done => fl_age # FLASH_LAT - 1
    BY DEF Answering
  <2> QED
    BY <1>1, <2>1
<1>3. ~fl_busy => ~flash_done /\ fl_age = 0
  BY DEF Answering, GrantIsWanted
<1>4. fl_age' \in Nat
  BY <1>1
<1>5. CASE fl_busy
  BY <1>1, <1>2, <1>4, <1>5 DEF Grant, Hold
<1>6. CASE ~fl_busy
  BY <1>1, <1>3, <1>4, <1>6 DEF Grant, Hold, arbiterVars
<1> QED
  BY <1>5, <1>6

(* The demand waits no longer than its place and the Flash's work allow.   *)
LEMMA DemandWaitedStep ==
  ASSUME Sound, CACHE_HIT_LAT = 0, MemTypes, GrantIsWanted, DemandWaited,
         NEW req, NEW hint, NEW flash_done \in Answering,
         Edge(req, hint, ec_flash_done(flash_done)), ObserveDemand(req),
         req \in Expert \cup {None}, req # None => ~busy,
         Grant \/ Hold(flash_done),
         fl_age' = IF fl_busy /\ ~flash_done THEN fl_age + 1 ELSE 0
  PROVE  DemandWaited'
<1>a. /\ wait \in Nat /\ hit_wait = 0
      /\ resp_valid \in BOOLEAN /\ dmd_pending \in BOOLEAN
      /\ state \in {"IDLE", "FETCH", "PF_FETCH", "DMD_REST"}
      /\ None \notin Expert /\ fl_gnt \in {"EXP", "PG"}
  BY DirectoryAssumption DEF Sound, TypeOK, MemTypes
<1>b. Places /\ DemandWaited
  BY DEF Sound
<1>c. /\ fl_age' \in Nat /\ fl_age \in 0 .. FLASH_LAT - 1 /\ FLASH_LAT \in Nat \ {0}
      /\ flash_done \in BOOLEAN /\ fl_busy \in BOOLEAN /\ flash_req \in BOOLEAN
      /\ kv_flash_req \in BOOLEAN
      /\ fl_busy /\ ~flash_done =>
           fl_age + 1 < FLASH_LAT /\ fl_busy' /\ fl_gnt' = fl_gnt /\ fl_age' = fl_age + 1
      /\ fl_busy /\ flash_done => ~fl_busy' /\ fl_age' = 0
      /\ ~fl_busy => ~flash_done /\ fl_age = 0 /\ fl_age' = 0
      /\ ~fl_busy /\ flash_req => fl_busy' /\ fl_gnt' = "EXP"
      /\ ~fl_busy /\ ~flash_req /\ kv_flash_req => fl_busy' /\ fl_gnt' = "PG"
      /\ ~fl_busy /\ ~flash_req /\ ~kv_flash_req => ~fl_busy'
  BY ArbiterFacts
<1>d. fl_busy /\ fl_gnt = "EXP" => flash_req
  BY DEF GrantIsWanted
<1>e. ec_flash_done(flash_done) <=> flash_done /\ fl_gnt = "EXP"
  BY <1>c DEF ec_flash_done
<1> USE DEF ObserveDemand, NoAnswer, ctrl, queued, Places, Owed, DemandWaited
<1>1. CASE IdleHitRead \/ PrefetchHitRead
  BY <1>1, <1>a DEF IdleHitRead, PrefetchHitRead
<1>2. CASE IdleDemandHit(req)
  BY <1>2, <1>a, <1>b, <1>c DEF IdleDemandHit, ServeHit
<1>3. CASE IdleDemandMiss(req)
  BY <1>3, <1>a, <1>b, <1>c DEF IdleDemandMiss
<1>4. CASE IdlePrefetch(req, hint)
  BY <1>4, <1>a, <1>b, <1>c DEF IdlePrefetch, pf_ready
<1>5. CASE Idle(req, hint)
  BY <1>5, <1>a, <1>b, <1>c DEF Idle
<1>6. CASE ec_flash_done(flash_done) /\ FetchDone
  BY <1>6, <1>a, <1>b, <1>c, <1>d, <1>e DEF FetchDone
<1>7. CASE ec_flash_done(flash_done) /\ PrefetchDone(req)
  BY <1>7, <1>a, <1>b, <1>c, <1>d, <1>e DEF PrefetchDone, late_demand
<1>8. CASE ~ec_flash_done(flash_done) /\ FetchWait
  BY <1>8, <1>a, <1>b, <1>c, <1>d, <1>e DEF FetchWait
<1>10. CASE ~ec_flash_done(flash_done) /\ PrefetchDemandHit(req)
  BY <1>10, <1>a, <1>b, <1>c, <1>d, <1>e DEF PrefetchDemandHit, ServeHit
<1>11. CASE ~ec_flash_done(flash_done) /\ PrefetchDemandMiss(req)
  BY <1>11, <1>a, <1>b, <1>c, <1>d, <1>e DEF PrefetchDemandMiss
<1>12. CASE ~ec_flash_done(flash_done) /\ PrefetchWait(req)
  BY <1>12, <1>a, <1>b, <1>c, <1>d, <1>e DEF PrefetchWait
<1>13. CASE RestHit(req)
  BY <1>13, <1>a, <1>b, <1>c DEF RestHit, ServeHit
<1>14. CASE RestMiss(req)
  BY <1>14, <1>a, <1>b, <1>c DEF RestMiss
<1> QED
  BY <1>1, <1>2, <1>3, <1>4, <1>5, <1>6, <1>7, <1>8, <1>10, <1>11, <1>12, <1>13, <1>14 DEF Edge

(* The pager's fetch waits for one fetch of the cache at most: on the edge *)
(* after it the cache is not asking.                                       *)
LEMMA PagerWaitedStep ==
  ASSUME Sound, MemTypes, GrantIsWanted, PagerWaited,
         NEW req, NEW hint, NEW gather, NEW flash_done \in Answering,
         Edge(req, hint, ec_flash_done(flash_done)),
         PagerEdge(gather, pg_flash_done(flash_done)),
         Grant \/ Hold(flash_done),
         fl_age' = IF fl_busy /\ ~flash_done THEN fl_age + 1 ELSE 0,
         kv_wait' = IF kv_flash_req /\ ~pg_flash_done(flash_done) THEN kv_wait + 1 ELSE 0
  PROVE  PagerWaited' /\ kv_wait' \in Nat
<1>a. kv_wait \in Nat /\ fl_gnt \in {"EXP", "PG"} /\ flash_req' \in BOOLEAN
  <2>1. flash_req' \in BOOLEAN
    BY DEF Sound, TypeOK, Edge, IdleHitRead, IdleDemandHit, IdleDemandMiss, IdlePrefetch, Idle,
       FetchDone, PrefetchDone, FetchWait, PrefetchHitRead, PrefetchDemandHit,
       PrefetchDemandMiss, PrefetchWait, RestHit, RestMiss, ctrl
  <2> QED
    BY <2>1 DEF MemTypes
<1>c. /\ fl_age' \in Nat /\ fl_age \in 0 .. FLASH_LAT - 1 /\ FLASH_LAT \in Nat \ {0}
      /\ flash_done \in BOOLEAN /\ fl_busy \in BOOLEAN /\ flash_req \in BOOLEAN
      /\ kv_flash_req \in BOOLEAN
      /\ fl_busy /\ ~flash_done =>
           fl_age + 1 < FLASH_LAT /\ fl_busy' /\ fl_gnt' = fl_gnt /\ fl_age' = fl_age + 1
      /\ fl_busy /\ flash_done => ~fl_busy' /\ fl_age' = 0
      /\ ~fl_busy => ~flash_done /\ fl_age = 0 /\ fl_age' = 0
      /\ ~fl_busy /\ flash_req => fl_busy' /\ fl_gnt' = "EXP"
      /\ ~fl_busy /\ ~flash_req /\ kv_flash_req => fl_busy' /\ fl_gnt' = "PG"
      /\ ~fl_busy /\ ~flash_req /\ ~kv_flash_req => ~fl_busy'
  BY ArbiterFacts
<1>d. /\ fl_busy /\ fl_gnt = "EXP" => flash_req
      /\ fl_busy /\ fl_gnt = "PG" => kv_flash_req
  BY DEF GrantIsWanted
<1>e. /\ ec_flash_done(flash_done) <=> flash_done /\ fl_gnt = "EXP"
      /\ pg_flash_done(flash_done) <=> flash_done /\ fl_gnt = "PG"
  BY <1>c DEF ec_flash_done, pg_flash_done
<1>f. flash_req => (ec_flash_done(flash_done) <=> ~flash_req')
  BY CacheFetch
<1>g. kv_flash_req => (pg_flash_done(flash_done) <=> ~kv_flash_req')
  <2>1. pg_flash_done(flash_done) \in BOOLEAN
    BY <1>c DEF pg_flash_done
  <2> QED
    BY <2>1, PagerFetch
<1>h. kv_flash_req' \in BOOLEAN
  BY <1>c, PagerFetch DEF pg_flash_done
<1>i. /\ kv_wait' = IF kv_flash_req /\ ~(flash_done /\ fl_busy /\ fl_gnt = "PG")
                     THEN kv_wait + 1 ELSE 0
      /\ kv_wait' \in Nat
  BY <1>a DEF pg_flash_done
<1>1. CASE ~fl_busy
  BY <1>1, <1>a, <1>c, <1>e, <1>f, <1>g, <1>h, <1>i DEF PagerWaited, pg_flash_done
<1>2. CASE fl_busy /\ fl_gnt = "EXP"
  BY <1>2, <1>a, <1>c, <1>d, <1>e, <1>f, <1>g, <1>h, <1>i DEF PagerWaited, pg_flash_done
<1>3. CASE fl_busy /\ fl_gnt = "PG"
  BY <1>3, <1>a, <1>c, <1>d, <1>e, <1>g, <1>h, <1>i DEF PagerWaited, pg_flash_done
<1> QED
  BY <1>1, <1>2, <1>3, <1>a, <1>c

LEMMA SystemReset == SystemInv /\ MemReset /\ UNCHANGED build => SystemInv'
<1>1. SystemInv /\ MemReset /\ UNCHANGED build => (Init /\ MemInit /\ CACHE_HIT_LAT = 0)'
  BY DEF MemReset, Reset, DirReset, KvReset, Init, DirInit, MemInit, KvInit, Slot, KvSlot,
     SystemInv, Sound, TypeOK, CACHE_HIT_LAT
<1> QED
  BY <1>1, SystemInit, PTL

LEMMA SystemStep == SystemInv /\ MemNext => SystemInv'
<1> SUFFICES ASSUME SystemInv, MemNext PROVE SystemInv'
  OBVIOUS
<1>1. CASE MemReset
  BY <1>1, SystemReset DEF MemNext
<1>2. CASE MemCycle
  <2>a. /\ Sound /\ CACHE_HIT_LAT = 0 /\ MemTypes /\ HeadIsAsked /\ WindowFilled
        /\ GrantIsWanted /\ DemandWaited /\ PagerWaited
        /\ build' = build
    BY DEF SystemInv, MemNext
  <2>b. PICK routed \in Routed, gather \in Gathers, hint \in build.Hint \cup {None},
             flash_done \in Answering : MemEdge(routed, gather, hint, flash_done)
    BY <1>2 DEF MemCycle
  <2>1. /\ HostEdge /\ QueueEdge(routed)
        /\ Edge(ec_req, hint, ec_flash_done(flash_done))
        /\ PagerEdge(gather, pg_flash_done(flash_done))
        /\ Grant \/ Hold(flash_done)
        /\ ObserveDemand(ec_req)
        /\ fl_age' = IF fl_busy /\ ~flash_done THEN fl_age + 1 ELSE 0
        /\ kv_wait' = IF kv_flash_req /\ ~pg_flash_done(flash_done) THEN kv_wait + 1 ELSE 0
    BY <2>b DEF MemEdge
  <2>2. /\ ec_req \in Expert \cup {None} /\ (ec_req # None => ~busy)
        /\ efifo' \in Seq(Expert) /\ awaiting' \in BOOLEAN /\ HeadIsAsked'
    BY <2>a, <2>1, QueueStep
  <2>3. /\ GrantIsWanted' /\ fl_busy' \in BOOLEAN /\ fl_gnt' \in {"EXP", "PG"}
        /\ fl_age' \in 0 .. FLASH_LAT - 1
    BY <2>a, <2>1, GrantStep
  <2>4. DemandWaited'
    BY <2>a, <2>1, <2>2, DemandWaitedStep
  <2>5. PagerWaited' /\ kv_wait' \in Nat
    BY <2>a, <2>1, PagerWaitedStep
  <2>6. AppendRow(IF pg_append_valid THEN <<ZeroRow>> ELSE << >>)
    BY <2>1 DEF PagerEdge
  <2>7. /\ hstate' \in {"IDLE", "APPEND", "RUN_W", "DECAP", "DONE"}
        /\ ap_i' \in Nat /\ s_len' \in Nat /\ WindowFilled'
    BY <2>a, <2>1, <2>6, HostStep
  <2>8. ec_flash_done(flash_done) \in BOOLEAN /\ pg_flash_done(flash_done) \in BOOLEAN
    BY DEF ec_flash_done, pg_flash_done, Answering
  <2>9. Sound'
    BY <2>a, <2>1, <2>2, <2>3, <2>8, SoundStep
  <2>10. kv_g_state' \in {"IDLE", "FLASH"} /\ kv_flash_req' \in BOOLEAN /\ kv_busy' \in BOOLEAN
    BY <2>a, <2>1, <2>8, PagerFetch
  <2>11. MemTypes'
    BY <2>2, <2>3, <2>5, <2>7, <2>10 DEF MemTypes
  <2> QED
    BY <2>a, <2>2, <2>3, <2>4, <2>5, <2>7, <2>9, <2>11 DEF SystemInv, CACHE_HIT_LAT
<1> QED
  BY <1>1, <1>2 DEF MemNext

LEMMA SystemStutter == SystemInv /\ UNCHANGED <<vars, memVars>> => SystemInv'
<1> SUFFICES ASSUME SystemInv, UNCHANGED <<vars, memVars>> PROVE SystemInv'
  OBVIOUS
<1> USE DEF vars, dir, ctrl, answer, queued, memVars, hostVars, queueVars, arbiterVars, kvVars
<1>1. Sound'
  BY SoundStutter DEF SystemInv
<1>2. MemTypes' /\ HeadIsAsked' /\ WindowFilled' /\ GrantIsWanted'
  BY DEF SystemInv, MemTypes, HeadIsAsked, WindowFilled, GrantIsWanted
<1>3. DemandWaited' /\ PagerWaited' /\ (CACHE_HIT_LAT = 0)'
  BY DEF SystemInv, DemandWaited, PagerWaited, CACHE_HIT_LAT
<1> QED
  BY <1>1, <1>2, <1>3 DEF SystemInv

(* What a step of the system does to the fetches of its two clients.       *)
LEMMA FetchStep == SystemInv /\ MemNext => FetchEnds
<1> SUFFICES ASSUME SystemInv, MemNext, MemCycle PROVE FetchEnds
  BY DEF MemNext, FetchEnds
<1>1. PICK routed \in Routed, gather \in Gathers, hint \in build.Hint \cup {None},
           flash_done \in Answering : MemEdge(routed, gather, hint, flash_done)
  BY DEF MemCycle
<1>2. /\ Sound /\ MemTypes /\ GrantIsWanted
      /\ flash_done \in BOOLEAN /\ fl_busy \in BOOLEAN /\ fl_gnt \in {"EXP", "PG"}
      /\ flash_req \in BOOLEAN /\ kv_flash_req \in BOOLEAN
  BY <1>1 DEF SystemInv, MemTypes, Sound, TypeOK, Answering
<1>3. flash_req' \in BOOLEAN /\ kv_flash_req' \in BOOLEAN /\ fl_busy' \in BOOLEAN
  BY SystemStep DEF SystemInv, MemTypes, Sound, TypeOK
<1>4. flash_req => IF ec_flash_done(flash_done) THEN ~flash_req'
                   ELSE flash_req' /\ flash_expert_id' = flash_expert_id
  BY <1>1, <1>2, CacheFetch DEF MemEdge
<1>5. kv_flash_req => IF pg_flash_done(flash_done) THEN ~kv_flash_req'
                      ELSE kv_flash_req' /\ kv_flash_idx' = kv_flash_idx
  <2>1. pg_flash_done(flash_done) \in BOOLEAN
    BY <1>2 DEF pg_flash_done
  <2> QED
    BY <1>1, <1>2, <2>1, PagerFetch DEF MemEdge
<1>6. /\ Served("EXP") <=> ec_flash_done(flash_done)
      /\ Served("PG") <=> pg_flash_done(flash_done)
  BY <1>1, <1>2, <1>3 DEF MemEdge, Grant, Hold, Served, ec_flash_done, pg_flash_done, arbiterVars
<1>7. /\ fl_busy /\ fl_gnt = "EXP" => flash_req
      /\ fl_busy /\ fl_gnt = "PG" => kv_flash_req
  BY <1>2 DEF GrantIsWanted
<1>8. /\ Fetch("EXP") # << >> <=> flash_req
      /\ Fetch("PG") # << >> <=> kv_flash_req
      /\ flash_req => Fetch("EXP")' = IF Served("EXP") THEN << >> ELSE Fetch("EXP")
      /\ kv_flash_req => Fetch("PG")' = IF Served("PG") THEN << >> ELSE Fetch("PG")
  BY <1>4, <1>5, <1>6 DEF Fetch
<1> QED
  BY <1>7, <1>8 DEF FetchEnds
-----------------------------------------------------------------------------
(* The cache on its own keeps its invariant, in the system the system's.   *)
JobInv ==
  /\ Sound
  /\ job = "cache" => Waited
  /\ job = "system" => SystemInv

LEMMA JobInvariance == MCSpec => []JobInv
<1>1. MCInit => JobInv
  <2> SUFFICES ASSUME MCInit PROVE JobInv
    OBVIOUS
  <2>1. Init /\ MemInit /\ (job = "system" => CACHE_HIT_LAT = 0)
    BY BuildAssumption DEF MCInit, CACHE_HIT_LAT
  <2> QED
    BY <2>1, CacheInit, SystemInit DEF JobInv, CacheInv
<1>2. JobInv /\ [MCNext]_allVars => JobInv'
  <2> SUFFICES ASSUME JobInv, [MCNext]_allVars PROVE JobInv'
    OBVIOUS
  <2>1. CASE job = "cache" /\ Next /\ UNCHANGED <<job, memVars>>
    BY <2>1, CacheStep DEF JobInv, CacheInv
  <2>2. CASE job = "system" /\ MemNext /\ UNCHANGED job
    BY <2>2, SystemStep DEF JobInv, SystemInv
  <2>3. CASE UNCHANGED allVars
    <3>1. job' = job /\ UNCHANGED vars /\ UNCHANGED <<vars, memVars>>
      BY <2>3 DEF allVars
    <3>2. Sound'
      BY <3>1, SoundStutter DEF JobInv
    <3>3. job = "cache" => Waited'
      BY <3>1, CacheStep DEF JobInv, CacheInv
    <3>4. job = "system" => SystemInv'
      BY <3>1, SystemStutter DEF JobInv
    <3> QED
      BY <3>1, <3>2, <3>3, <3>4 DEF JobInv
  <2> QED
    BY <2>1, <2>2, <2>3 DEF MCNext
<1> QED
  BY <1>1, <1>2, PTL DEF MCSpec

(* No demand is lost or waits without end, whatever is prefetched: on its  *)
(* own within the bound of docs/FORMAL.md P3, behind the queue and the     *)
(* shared Flash within two fetches of the pager and a prefetch besides its *)
(* own; and the pager's fetch is not starved by the cache.                 *)
THEOREM DemandsAreServed == MCSpec => []DemandIsServed
<1>1. JobInv => DemandIsServed
  <2> SUFFICES ASSUME JobInv PROVE DemandIsServed
    OBVIOUS
  <2>1. OwedIsTracked
    BY DEF JobInv, Sound, Places, Owed, TypeOK, OwedIsTracked
  <2>2. job = "cache" => BoundedLatency
    BY DEF JobInv, Waited
  <2>3. ASSUME job = "system" PROVE QueueIsServed
    <3>1. /\ ~awaiting => ask = None
          /\ awaiting \in BOOLEAN
      BY <2>3 DEF JobInv, SystemInv, HeadIsAsked, MemTypes
    <3>2. None \notin Expert
      BY DirectoryAssumption
    <3>3. ec_req # None => ~awaiting
      BY DEF ec_req
    <3>4. ec_req # None => ~busy
      BY <3>1, <3>3 DEF JobInv, Sound, Places, Owed
    <3> QED
      BY <2>3, <3>4 DEF JobInv, SystemInv, HeadIsAsked, WindowFilled, QueueIsServed
  <2>4. ASSUME job = "system" PROVE WaitsAreBounded
    <3>1. /\ FLASH_LAT \in Nat \ {0} /\ fl_age \in 0 .. FLASH_LAT - 1
          /\ kv_wait \in Nat /\ DemandWaited /\ PagerWaited
      BY <2>4, CacheAssumption DEF JobInv, SystemInv, Sound, TypeOK, MemTypes
    <3>2. kv_wait <= 2 * FLASH_LAT + 1
      BY <3>1 DEF PagerWaited
    <3> QED
      BY <3>1, <3>2 DEF DemandWaited, WaitsAreBounded
  <2> QED
    BY <2>1, <2>2, <2>3, <2>4 DEF DemandIsServed
<1> QED
  BY <1>1, JobInvariance, PTL

(* Neither client's fetch is ended by the other's flash_done, changed      *)
(* under way or forgotten, and the Flash works only on one that is wanted. *)
THEOREM NoFetchIsCrossed == MCSpec => FetchesEndWhenServed
<1>1. JobInv /\ [MCNext]_allVars => [job = "system" => FetchEnds]_allVars
  BY FetchStep DEF JobInv, MCNext
<1> QED
  BY <1>1, JobInvariance, PTL DEF MCSpec, FetchesEndWhenServed
=============================================================================
