---------------------------- MODULE SpecSeqBatch ----------------------------
(***************************************************************************)
(* src/spec_decode_seq.v with DRAFT_K > 1: the accept/reject controller of *)
(* batched speculative decoding.  A pass presents K drafts and the model's *)
(* K + 1 choices; the choices up to the first wrong draft are committed,   *)
(* the first at once and the others one per idle cycle.  The tops that     *)
(* contain it add this state to theirs.                                    *)
(***************************************************************************)
EXTENDS SpecParams, Sequences, FiniteSets

VARIABLES
  running, obuf, ocnt, oidx, draining,
  commit_valid, commit_tok, accepted,
  total_tokens, main_passes, accepts, rejects

beat == <<commit_valid, commit_tok, accepted>>
counters == <<total_tokens, main_passes, accepts, rejects>>
drain == <<obuf, ocnt, oidx, draining>>
seq_vars == <<running, drain, beat, counters>>

SeqInit ==
  /\ running = FALSE
  /\ obuf = [j \in 0 .. DRAFT_K |-> ZeroToken]
  /\ ocnt = 0 /\ oidx = 0 /\ draining = FALSE
  /\ commit_valid = FALSE /\ commit_tok = ZeroToken /\ accepted = FALSE
  /\ total_tokens = 0 /\ main_passes = 0 /\ accepts = 0 /\ rejects = 0

(* The number of leading drafts equal to the model's choice.               *)
acc_matches(dv, tv, nd) ==                  \* mutation: a later match counts
  Cardinality({j \in 1 .. nd : dv[j] = tv[j]})
acc_prefix(dv, tv, nd) ==
  Cardinality({j \in 1 .. nd : \A i \in 1 .. j : dv[i] = tv[i]})

(* A draft count beyond K is clamped.                                      *)
Clamp(nd) == IF nd > DRAFT_K THEN DRAFT_K ELSE nd

SeqPass(dv, tv, n_draft) ==
  LET nd == Clamp(n_draft)
      pfx == acc_prefix(dv, tv, nd)
  IN
  /\ main_passes' = main_passes + 1
  /\ total_tokens' = total_tokens + pfx + 1
  /\ accepts' = accepts + pfx
  /\ rejects' = rejects + nd - pfx
  /\ accepted' = (pfx # 0)
  /\ commit_valid' = TRUE /\ commit_tok' = tv[1]
  /\ obuf' = [j \in 0 .. DRAFT_K |-> IF j = 0 THEN obuf[0] ELSE tv[j + 1]]
  /\ ocnt' = pfx + 1 /\ oidx' = 1 /\ draining' = (pfx >= 1)

last_beat == oidx + 1 >= ocnt

SeqDrain ==
  /\ draining
  /\ commit_valid' = TRUE /\ commit_tok' = obuf[oidx] /\ accepted' = FALSE
  /\ draining' = ~last_beat
  /\ oidx' = oidx + 1
  /\ UNCHANGED <<obuf, ocnt, counters>>

SeqIdle ==
  /\ ~draining
  /\ commit_valid' = FALSE /\ accepted' = FALSE
  /\ UNCHANGED <<commit_tok, drain, counters>>

(* One edge, with this cycle's start and pass inputs.                      *)
SeqEdge(start, pass_valid, dv, tv, n_draft) ==
  /\ running' = (running \/ start)
  /\ IF pass_valid /\ (running \/ start) THEN SeqPass(dv, tv, n_draft)
                                         ELSE SeqDrain \/ SeqIdle

SeqReset ==
  /\ running' = FALSE
  /\ obuf' = [j \in 0 .. DRAFT_K |-> ZeroToken]
  /\ ocnt' = 0 /\ oidx' = 0 /\ draining' = FALSE
  /\ commit_valid' = FALSE /\ commit_tok' = ZeroToken /\ accepted' = FALSE
  /\ total_tokens' = 0 /\ main_passes' = 0 /\ accepts' = 0 /\ rejects' = 0

=============================================================================
