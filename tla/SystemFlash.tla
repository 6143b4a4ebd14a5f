----------------------------- MODULE SystemFlash -----------------------------
(***************************************************************************)
(* src/glm_fp8_system.v, sections 2 to 6: the host FSM that fills the KV   *)
(* cache and runs the die, the queue of the experts the die routes to, the *)
(* expert cache and the KV pager, and the arbiter of the one Flash both    *)
(* fetch from.  One step is one clock edge.  The die (glm_model_fp8) and   *)
(* the Flash are external.  The die does not wait for either cache: its    *)
(* gathers are acknowledged one cycle later whatever the pager does.  The  *)
(* id FIFO is a sequence, the KV rows are one row, and the dropped-episode *)
(* counter, the token and busy, done and tok_valid, which follow hstate,   *)
(* are left out.                                                           *)
(***************************************************************************)
EXTENDS ExpertCache, KvPager

CONSTANTS
  EFIFO_DEPTH,    \* expert ids the queue holds
  Episode,        \* <<expert, layer>> of the routed fetches considered
  Window          \* prefill lengths considered

ASSUME SystemAssumption ==
  /\ EFIFO_DEPTH \in Nat \ {0}
  /\ Episode \subseteq Expert \X Nat
  /\ Window \subseteq Nat
  /\ APPENDS < 2^POSW      \* the context holds what a run appends

NoEpisode == << >>

VARIABLES
  hstate, ap_i, mdl_start,
  s_len,          \* external: prefill length, which the host holds for a run
  ep,             \* episode under way: ep_active, ep_eidx and ep_layer
  efifo, awaiting,
  fl_busy, fl_gnt,
  kv_wait         \* observation: edges the pager's fetch has waited

hostVars == <<hstate, ap_i, mdl_start, s_len>>
queueVars == <<ep, efifo, awaiting>>
arbiterVars == <<fl_busy, fl_gnt>>
memVars == <<hostVars, queueVars, arbiterVars, kvVars, kv_wait>>

MemInit ==
  /\ hstate = "IDLE" /\ ap_i = 0 /\ mdl_start = FALSE /\ s_len = 0
  /\ ep = NoEpisode /\ efifo = << >> /\ awaiting = FALSE
  /\ fl_busy = FALSE /\ fl_gnt = "EXP"
  /\ KvInit /\ kv_wait = 0
-----------------------------------------------------------------------------
(* The host FSM: it appends the window row by row, runs the die, appends   *)
(* the row of the position decoded, and is idle again.                     *)
pg_append_valid == hstate \in {"APPEND", "DECAP"}

Start(len) ==
  /\ hstate = "IDLE"
  /\ s_len' = len /\ ap_i' = 0
  /\ mdl_start' = (len = 0)
  /\ hstate' = IF len = 0 THEN "RUN_W" ELSE "APPEND"

Fill ==
  /\ hstate = "APPEND"
  /\ ap_i' = ap_i + 1
  /\ mdl_start' = (ap_i = s_len - 1)
  /\ hstate' = IF ap_i = s_len - 1 THEN "RUN_W" ELSE "APPEND"
  /\ UNCHANGED s_len

Move(from, to) ==
  /\ hstate = from /\ hstate' = to
  /\ mdl_start' = FALSE
  /\ UNCHANGED <<ap_i, s_len>>

(* external: a token is asked for while the context has room for its rows; *)
(* the die finishes at any time after it was started.                      *)
DieRuns == hstate = "RUN_W" /\ ~mdl_start
HostEdge ==
  \/ \E len \in Window : Len(kv_log) + len + 1 <= APPENDS /\ Start(len)
  \/ Move("IDLE", "IDLE")
  \/ Fill
  \/ Move("RUN_W", "RUN_W")
  \/ DieRuns /\ Move("RUN_W", "DECAP")
  \/ Move("DECAP", "DONE")
  \/ Move("DONE", "IDLE")
-----------------------------------------------------------------------------
(* A routed fetch opens an episode unless it continues the one before: the *)
(* same expert of the same layer, without a gap.                           *)
new_episode(routed) == routed # NoEpisode /\ routed # ep

ec_req == IF efifo # << >> /\ ~awaiting THEN Head(efifo) ELSE None

QueueEdge(routed) ==
  LET answered == awaiting /\ resp_valid
      left == IF answered THEN Tail(efifo) ELSE efifo
  IN  /\ ep' = routed
      /\ efifo' = IF new_episode(routed) /\ Len(efifo) < EFIFO_DEPTH
                    THEN Append(left, routed[1]) ELSE left
      /\ awaiting' = (~answered /\ (awaiting \/ ec_req # None))

(* The arbiter: the expert cache first; a grant holds until flash_done.    *)
ec_flash_done(flash_done) == flash_done /\ fl_busy /\ fl_gnt = "EXP"
pg_flash_done_any(flash_done) == flash_done /\ fl_busy     \* mutation: whoever was granted
pg_flash_done(flash_done) == flash_done /\ fl_busy /\ fl_gnt = "PG"

Grant ==
  /\ ~fl_busy
  /\ IF flash_req \/ kv_flash_req
       THEN fl_busy' = TRUE /\ fl_gnt' = IF flash_req THEN "EXP" ELSE "PG"
       ELSE UNCHANGED arbiterVars
Hold(flash_done) == fl_busy /\ fl_busy' = ~flash_done /\ UNCHANGED fl_gnt

(* The pager, with the die's gather of this cycle.                         *)
PagerEdge(gather, done) ==
  /\ AppendRow(IF pg_append_valid THEN <<ZeroRow>> ELSE << >>)
  /\ IF kv_g_state = "FLASH" /\ done THEN FlashDone
     ELSE IF gather # NoGather /\ ~kv_busy THEN GatherResident(gather) \/ GatherCold(gather)
     ELSE NoGatherTaken

(* external: what the die routes to and gathers while it runs, and when    *)
(* the Flash answers.                                                      *)
Routed == {NoEpisode} \cup IF DieRuns THEN Episode ELSE {}
Gathers == {NoGather} \cup IF DieRuns THEN 0 .. s_len - 1 ELSE {}
Answering == IF ~fl_busy THEN {FALSE}
             ELSE IF fl_age = FLASH_LAT - 1 THEN {TRUE} ELSE BOOLEAN

MemEdge(routed, gather, hint, flash_done) ==
  /\ HostEdge
  /\ QueueEdge(routed)
  /\ Edge(ec_req, hint, ec_flash_done(flash_done))
  /\ PagerEdge(gather, pg_flash_done(flash_done))
  /\ Grant \/ Hold(flash_done)
  /\ ObserveDemand(ec_req)
  /\ fl_age' = IF fl_busy /\ ~flash_done THEN fl_age + 1 ELSE 0
  /\ kv_wait' = IF kv_flash_req /\ ~pg_flash_done(flash_done) THEN kv_wait + 1 ELSE 0

MemCycle == \E routed \in Routed, gather \in Gathers, hint \in build.Hint \cup {None},
               flash_done \in Answering :
              MemEdge(routed, gather, hint, flash_done)

MemReset ==
  /\ Reset
  /\ hstate' = "IDLE" /\ ap_i' = 0 /\ mdl_start' = FALSE /\ s_len' = 0
  /\ ep' = NoEpisode /\ efifo' = << >> /\ awaiting' = FALSE
  /\ fl_busy' = FALSE /\ fl_gnt' = "EXP"
  /\ KvReset /\ kv_wait' = 0

MemNext == (MemCycle \/ MemReset) /\ UNCHANGED build
-----------------------------------------------------------------------------
(* The demand the cache works on is the oldest id queued, and one is only  *)
(* presented to a cache that is not busy, which would drop it (the queue   *)
(* does not look at busy); a run's window is in the KV cache.              *)
QueueIsServed ==
  /\ awaiting <=> ask # None
  /\ awaiting => efifo # << >> /\ ask = Head(efifo)
  /\ ec_req # None => ~busy
  /\ hstate = "RUN_W" => s_len <= kv_count

(* Behind the one Flash a demand waits for at most two fetches of the      *)
(* pager and a prefetch besides its own, a cold row for at most one fetch  *)
(* of the cache, although the cache always comes first.                    *)
WaitsAreBounded ==
  /\ wait <= 4 * FLASH_LAT + 3
  /\ kv_wait <= 2 * FLASH_LAT + 1

(* What a step may do to the fetches of the two clients: each keeps its id *)
(* and is ended exactly when the Flash has served it, never by the other's *)
(* flash_done, and the Flash works only on a fetch that is wanted.         *)
Fetch(client) == IF client = "EXP"
                   THEN IF flash_req THEN <<flash_expert_id>> ELSE << >>
                   ELSE IF kv_flash_req THEN <<kv_flash_idx>> ELSE << >>
Served(client) == fl_busy /\ ~fl_busy' /\ fl_gnt = client
FetchEnds ==
  \/ MemReset
  \/ \A client \in {"EXP", "PG"} :
       /\ fl_busy /\ fl_gnt = client => Fetch(client) # << >>
       /\ Fetch(client) # << >> =>
            Fetch(client)' = IF Served(client) THEN << >> ELSE Fetch(client)
=============================================================================
