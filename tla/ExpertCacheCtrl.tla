--------------------------- MODULE ExpertCacheCtrl ---------------------------
(***************************************************************************)
(* src/expert_cache_ctrl.v: the demand-only expert cache.  One request at  *)
(* a time; a hit is answered at the next edge, a miss after one Flash      *)
(* fetch into the lowest empty slot, or else the least recently used one.  *)
(***************************************************************************)
EXTENDS ExpertDirectory

VARIABLES
  state, victim_q, req_id_q,
  flash_req, flash_expert_id,
  resp_valid, hit, resp_slot, busy

vars == <<valid, tag, rank, state, victim_q, req_id_q, flash_req,
          flash_expert_id, resp_valid, hit, resp_slot, busy>>

victim_slot == IF Empty # {} THEN invalid_slot ELSE lru_slot

Init ==
  /\ DirInit
  /\ state = "IDLE" /\ victim_q = 0 /\ req_id_q = 0
  /\ flash_req = FALSE /\ flash_expert_id = 0
  /\ resp_valid = FALSE /\ hit = FALSE /\ resp_slot = 0 /\ busy = FALSE

Idle ==
  /\ state = "IDLE"
  /\ resp_valid' = FALSE
  /\ UNCHANGED <<valid, tag, rank, state, victim_q, req_id_q, flash_req,
                 flash_expert_id, hit, resp_slot, busy>>

Hit(req) ==
  /\ state = "IDLE"
  /\ Resident(req)
  /\ resp_valid' = TRUE /\ hit' = TRUE /\ resp_slot' = lookup_slot(req)
  /\ rank' = ToFront(lookup_slot(req))
  /\ UNCHANGED <<valid, tag, state, victim_q, req_id_q, flash_req,
                 flash_expert_id, busy>>

Miss(req) ==
  /\ state = "IDLE"
  /\ ~Resident(req)
  /\ busy' = TRUE /\ flash_req' = TRUE /\ flash_expert_id' = req
  /\ req_id_q' = req /\ victim_q' = victim_slot
  /\ state' = "FETCH"
  /\ resp_valid' = FALSE
  /\ UNCHANGED <<valid, tag, rank, hit, resp_slot>>

Fetch(flash_done) ==
  /\ state = "FETCH"
  /\ IF flash_done
       THEN /\ flash_req' = FALSE
            /\ Install(victim_q, req_id_q)
            /\ resp_valid' = TRUE /\ hit' = FALSE /\ resp_slot' = victim_q
            /\ busy' = FALSE
            /\ state' = "IDLE"
       ELSE /\ resp_valid' = FALSE
            /\ UNCHANGED <<valid, tag, rank, state, flash_req, hit, resp_slot, busy>>
  /\ UNCHANGED <<victim_q, req_id_q, flash_expert_id>>

Reset ==
  /\ DirReset
  /\ state' = "IDLE" /\ victim_q' = 0 /\ req_id_q' = 0
  /\ flash_req' = FALSE /\ flash_expert_id' = 0
  /\ resp_valid' = FALSE /\ hit' = FALSE /\ resp_slot' = 0 /\ busy' = FALSE

Next ==
  \/ Idle
  \/ \E req \in Expert : Hit(req) \/ Miss(req)
  \/ \E flash_done \in BOOLEAN : Fetch(flash_done)
  \/ Reset

Spec == Init /\ [][Next]_vars
=============================================================================
