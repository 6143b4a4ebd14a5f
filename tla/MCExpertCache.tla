---------------------------- MODULE MCExpertCache ----------------------------
(***************************************************************************)
(* The expert cache on its own, whatever the router, the predictor and the *)
(* Flash do, or, in other behaviours, as the system wires it up.           *)
(***************************************************************************)
EXTENDS SystemFlash

CONSTANTS
  Jobs,         \* which of the two
  SystemBuilds  \* the caches the system is built with

(* glm_fp8_system leaves CACHE_HIT_LAT at 0.                               *)
ASSUME BuildAssumption == \A b \in SystemBuilds : b.CACHE_HIT_LAT = 0

VARIABLE job

(* LRU with prefetches; LRU with a hit latency longer than a fetch;        *)
(* frequency replacement; and the demand-only LRU cache.                   *)
MCBuilds ==
  {[REPL_POLICY |-> 0, CACHE_HIT_LAT |-> 0, Hint |-> {0, 1}],
   [REPL_POLICY |-> 0, CACHE_HIT_LAT |-> 3, Hint |-> {0}],
   [REPL_POLICY |-> 1, CACHE_HIT_LAT |-> 0, Hint |-> {0}],
   [REPL_POLICY |-> 0, CACHE_HIT_LAT |-> 0, Hint |-> {}]}

(* Frequency replacement together with a hit latency.                      *)
MCSlowHits == {[REPL_POLICY |-> 1, CACHE_HIT_LAT |-> 2, Hint |-> Expert]}

(* Two layers, so that an expert may be wanted again at once.              *)
MCEpisode == {<<0, 1>>, <<2, 1>>, <<2, 2>>}
MCSystemBuilds == {[REPL_POLICY |-> 0, CACHE_HIT_LAT |-> 0, Hint |-> {1}]}
MCAllBuilds == MCBuilds \cup MCSystemBuilds

allVars == <<job, vars, memVars>>
MCInit ==
  /\ job \in Jobs /\ Init /\ MemInit
  /\ job = "system" <=> build \in SystemBuilds
MCNext ==
  \/ job = "cache" /\ Next /\ UNCHANGED <<job, memVars>>
  \/ job = "system" /\ MemNext /\ UNCHANGED job
MCSpec == MCInit /\ [][MCNext]_allVars

(* No demand is lost or waits without end: it is in one of the places that *)
(* lead to its answer and, on its own or behind the queue and the shared   *)
(* Flash, answered within a bound.                                         *)
DemandIsServed ==
  /\ OwedIsTracked
  /\ job = "cache" => BoundedLatency
  /\ job = "system" => QueueIsServed /\ WaitsAreBounded

(* In the system neither client's fetch is ended by the other's flash_done,*)
(* changed under way or forgotten.                                         *)
FetchesEndWhenServed == [][job = "system" => FetchEnds]_allVars
=============================================================================
