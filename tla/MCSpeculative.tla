---------------------------- MODULE MCSpeculative ----------------------------
(***************************************************************************)
(* The two speculative-decode loops, checked in one run: a behaviour is    *)
(* one of the rolling loop or one of the batched loop, and the other loop  *)
(* stays in its reset state.                                               *)
(***************************************************************************)
EXTENDS SpecDecodeTop

CONSTANT MAX_BATCHES

VARIABLES
  loop_kind,    \* "rolling" or "batched"
  b_running, b_obuf, b_ocnt, b_oidx, b_draining, b_commit_valid,
  b_commit_tok, b_accepted, b_total_tokens, b_main_passes, b_accepts,
  b_rejects, b_state, b_busy, b_done, b_mdl_start, b_seq_arm, b_seq_pass,
  b_cur_tok, b_cur_pos, b_pass_idx, b_npass_q, b_draft_q, b_nd_q,
  b_truth_q, b_drain_cnt, b_argmax, b_mdl_busy, b_last, b_pos, b_base

B == INSTANCE SpecBatchedTop WITH
       running <- b_running, obuf <- b_obuf, ocnt <- b_ocnt,
       oidx <- b_oidx, draining <- b_draining,
       commit_valid <- b_commit_valid, commit_tok <- b_commit_tok,
       accepted <- b_accepted, total_tokens <- b_total_tokens,
       main_passes <- b_main_passes, accepts <- b_accepts,
       rejects <- b_rejects, state <- b_state, busy <- b_busy,
       done <- b_done, mdl_start <- b_mdl_start, seq_arm <- b_seq_arm,
       seq_pass <- b_seq_pass, cur_tok <- b_cur_tok, cur_pos <- b_cur_pos,
       pass_idx <- b_pass_idx, npass_q <- b_npass_q, draft_q <- b_draft_q,
       nd_q <- b_nd_q, truth_q <- b_truth_q, drain_cnt <- b_drain_cnt,
       argmax <- b_argmax, mdl_busy <- b_mdl_busy, last <- b_last,
       pos <- b_pos, base <- b_base

batched_vars == <<
  b_running, b_obuf, b_ocnt, b_oidx, b_draining, b_commit_valid,
  b_commit_tok, b_accepted, b_total_tokens, b_main_passes, b_accepts,
  b_rejects, b_state, b_busy, b_done, b_mdl_start, b_seq_arm, b_seq_pass,
  b_cur_tok, b_cur_pos, b_pass_idx, b_npass_q, b_draft_q, b_nd_q,
  b_truth_q, b_drain_cnt, b_argmax, b_mdl_busy, b_last, b_pos, b_base>>

(* The models that keep the token at some positions and change it at the   *)
(* others: their choice depends on the token and on the position.          *)
MCModels == {[tp \in Token \X Pos |-> IF tp[2] \in keep THEN tp[1] ELSE 1 - tp[1]] :
               keep \in SUBSET Pos}

RollingDoes(A) == loop_kind = "rolling" /\ A /\ UNCHANGED <<loop_kind, batched_vars>>
BatchedDoes(A) == loop_kind = "batched" /\ A /\ UNCHANGED <<loop_kind, vars>>

MCInit ==
  /\ loop_kind \in {"rolling", "batched"}
  /\ Init /\ B!Init
  /\ b_argmax = argmax           \* one model for both loops

MCNext ==
  \/ RollingDoes(StartRun) \/ RollingDoes(Cycle) \/ RollingDoes(Reset)
  \/ BatchedDoes(B!StartRun) \/ BatchedDoes(B!Cycle) \/ BatchedDoes(B!Reset)

MCSpec == MCInit /\ [][MCNext]_<<loop_kind, vars, batched_vars>>

(* The batched loop's cursor, computed apart from the controller, is the   *)
(* last token committed, and done comes after the last beat.               *)
CursorIsFrontier == B!CursorIsFrontier /\ B!DoneAfterStream

(* The batched loop's stream is the chain of the model's own choices       *)
(* (SpecBatchedTop, ImplementsPassStream).                                 *)
ImplementsPassStream == B!ImplementsPassStream
=============================================================================
