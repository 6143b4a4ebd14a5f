--------------------------- MODULE SpecDecodeTop ---------------------------
(***************************************************************************)
(* The rolling speculative-decode loop: src/spec_decode_seq.v with         *)
(* DRAFT_K = 1 and, around it, src/spec_decode_top.v.                      *)
(*                                                                         *)
(* The controller: a pass presents the model's verified token, which is    *)
(* committed, and a draft for the pass after it.  When the verified token  *)
(* equals the draft of the pass before, the draft is committed as well, as *)
(* a bonus beat in the next cycle without a pass.                          *)
(*                                                                         *)
(* The loop: each pass runs the main model on the cursor, gathers the      *)
(* embedding of its choice, runs the draft head and feeds both tokens to   *)
(* the controller.  The main model is external, a function of token and    *)
(* position; so is the draft head, which may answer anything.  Both        *)
(* deliver any time after the cycle that follows their start.  One step is *)
(* one clock edge.  Hidden states and embedding values are left out, and   *)
(* s_len and mtp_mode that only steer the two models.                      *)
(***************************************************************************)
EXTENDS SpecParams

CONSTANTS
  MODEL_DIM,    \* elements of an embedding, one per cycle
  MAX_PASSES    \* bound: passes between two resets

ASSUME TopAssumption == MODEL_DIM \in Nat \ {0}

\* The controller.
VARIABLES
  running, have_draft, pending_draft,
  second_pending, second_tok,
  commit_valid, commit_tok, accepted,
  total_tokens, main_passes, accepts, rejects

counters == <<total_tokens, main_passes, accepts, rejects>>
draft == <<have_draft, pending_draft>>
beat == <<commit_valid, commit_tok, accepted>>
seq_vars == <<running, draft, second_pending, second_tok, beat, counters>>

SeqInit ==
  /\ running = FALSE
  /\ have_draft = FALSE /\ pending_draft = ZeroToken
  /\ second_pending = FALSE /\ second_tok = ZeroToken
  /\ commit_valid = FALSE /\ commit_tok = ZeroToken /\ accepted = FALSE
  /\ total_tokens = 0 /\ main_passes = 0 /\ accepts = 0 /\ rejects = 0

do_verify(draft_present) == draft_present /\ have_draft
accept(tok, draft_present) == do_verify(draft_present) /\ tok = pending_draft

tokens(ok) == IF ok THEN 2 ELSE 1

SeqPass(tok, draft_tok, draft_present) ==
  LET ok == accept(tok, draft_present)
      wrong == do_verify(draft_present) /\ ~ok
  IN
  /\ commit_valid' = TRUE /\ commit_tok' = tok /\ accepted' = ok
  /\ main_passes' = main_passes + 1
  /\ total_tokens' = total_tokens + tokens(ok)
  /\ accepts' = accepts + IF ok THEN 1 ELSE 0
  /\ rejects' = rejects + IF wrong THEN 1 ELSE 0
  /\ IF ok THEN second_pending' = TRUE /\ second_tok' = pending_draft
           ELSE UNCHANGED <<second_pending, second_tok>>
  /\ pending_draft' = draft_tok /\ have_draft' = TRUE

bonus_tok == second_tok

SeqBonus ==
  /\ second_pending
  /\ commit_valid' = TRUE /\ commit_tok' = bonus_tok /\ accepted' = FALSE
  /\ second_pending' = FALSE
  /\ UNCHANGED <<draft, second_tok, counters>>

SeqIdle ==
  /\ ~second_pending
  /\ commit_valid' = FALSE /\ accepted' = FALSE
  /\ UNCHANGED <<draft, second_pending, second_tok, commit_tok, counters>>

(* One edge, with this cycle's start and pass inputs.                      *)
SeqEdge(start, pass_valid, tok, draft_tok, draft_present) ==
  /\ running' = (running \/ start)
  /\ IF pass_valid /\ (running \/ start) THEN SeqPass(tok, draft_tok, draft_present)
                                         ELSE SeqBonus \/ SeqIdle

SeqReset ==
  /\ running' = FALSE
  /\ have_draft' = FALSE /\ pending_draft' = ZeroToken
  /\ second_pending' = FALSE /\ second_tok' = ZeroToken
  /\ commit_valid' = FALSE /\ commit_tok' = ZeroToken /\ accepted' = FALSE
  /\ total_tokens' = 0 /\ main_passes' = 0 /\ accepts' = 0 /\ rejects' = 0
-----------------------------------------------------------------------------
\* The loop.
VARIABLES
  state, busy, done,
  m_start, t_start, seq_arm, seq_pass,
  cur_tok, cur_pos, pass_idx, npass_q,
  verified_q, draft_q, dpresent_q,
  e_cnt, e_loading,
  argmax,               \* external: the main model
  m_busy, t_busy,       \* external: a pass of the model, of the head, under way
  last, pos,            \* observation: last verified token and its position
  stream_pos, beats,    \* observation: position counted by all beats of the
                        \* run, and beats since reset
  bonus,                \* observation: this beat is a bonus beat
  runs                  \* observation: runs started since reset

cursor == <<cur_tok, cur_pos>>
latched == <<verified_q, draft_q, dpresent_q>>
gather == <<e_cnt, e_loading>>
run == <<busy, done, pass_idx, npass_q>>
pulses == <<m_start, t_start, seq_arm, seq_pass>>
seen == <<last, pos, stream_pos, beats, bonus, runs>>
vars == <<seq_vars, state, run, pulses, cursor, latched, gather, argmax,
          m_busy, t_busy, seen>>

Init ==
  /\ SeqInit
  /\ state = "IDLE" /\ busy = FALSE /\ done = FALSE
  /\ m_start = FALSE /\ t_start = FALSE /\ seq_arm = FALSE /\ seq_pass = FALSE
  /\ cur_tok = ZeroToken /\ cur_pos = 0 /\ pass_idx = 0 /\ npass_q = 0
  /\ verified_q = ZeroToken /\ draft_q = ZeroToken /\ dpresent_q = FALSE
  /\ e_cnt = 0 /\ e_loading = FALSE
  /\ argmax \in Models /\ m_busy = FALSE /\ t_busy = FALSE
  /\ last = ZeroToken /\ pos = 0 /\ stream_pos = 0 /\ beats = 0
  /\ bonus = FALSE /\ runs = 0

(* The pulse registers: those in up are set, the others cleared.           *)
Pulse(up) ==
  /\ m_start' = ("m_start" \in up) /\ t_start' = ("t_start" \in up)
  /\ seq_arm' = ("seq_arm" \in up) /\ seq_pass' = ("seq_pass" \in up)

Start(tok, p, n) ==
  /\ state = "IDLE" /\ state' = "MWAIT"
  /\ main_passes + n <= MAX_PASSES
  /\ busy' = TRUE /\ done' = FALSE
  /\ cur_tok' = tok /\ cur_pos' = p
  /\ npass_q' = n /\ pass_idx' = 0
  /\ Pulse({"seq_arm", "m_start"})
  /\ UNCHANGED <<latched, gather>>

Idle ==
  /\ state = "IDLE"
  /\ busy' = FALSE /\ done' = FALSE
  /\ Pulse({})
  /\ UNCHANGED <<state, cursor, latched, gather, pass_idx, npass_q>>

MainWait(m_done) ==
  /\ state = "MWAIT"
  /\ IF m_done
       THEN /\ verified_q' = argmax[<<cur_tok, cur_pos>>]
            /\ e_loading' = TRUE /\ e_cnt' = 0
            /\ state' = "EMB"
       ELSE UNCHANGED <<verified_q, gather, state>>
  /\ Pulse({})
  /\ UNCHANGED <<run, cursor, draft_q, dpresent_q>>

gathered == e_cnt = MODEL_DIM - 1

Embed ==
  /\ state = "EMB" /\ e_loading
  /\ IF gathered
       THEN e_loading' = FALSE /\ state' = "TWAIT" /\ Pulse({"t_start"}) /\ UNCHANGED e_cnt
       ELSE e_cnt' = e_cnt + 1 /\ Pulse({}) /\ UNCHANGED <<e_loading, state>>
  /\ UNCHANGED <<run, cursor, latched>>

(* Only the first pass of a run has no draft to verify.                    *)
prior_any == TRUE                       \* mutation: a draft left by the run before counts
prior_draft == pass_idx # 0

DraftWait(t_done, t_argmax) ==
  /\ state = "TWAIT"
  /\ IF t_done
       THEN draft_q' = t_argmax /\ dpresent_q' = prior_draft /\ state' = "FEED"
       ELSE UNCHANGED <<draft_q, dpresent_q, state>>
  /\ Pulse({})
  /\ UNCHANGED <<run, cursor, gather, verified_q>>

last_pass == pass_idx = npass_q - 1

feed_pos_twice == After(cur_pos, 2)     \* mutation: the cursor skips a position
feed_pos == After(cur_pos, 1)

Feed ==
  /\ state = "FEED"
  /\ cur_tok' = verified_q /\ cur_pos' = feed_pos
  /\ IF last_pass
       THEN state' = "DRAIN" /\ Pulse({"seq_pass"}) /\ UNCHANGED pass_idx
       ELSE state' = "MWAIT" /\ Pulse({"seq_pass", "m_start"}) /\ pass_idx' = pass_idx + 1
  /\ UNCHANGED <<busy, done, npass_q, latched, gather>>

Drain ==
  /\ state = "DRAIN" /\ state' = "DONE"
  /\ Pulse({})
  /\ UNCHANGED <<run, cursor, latched, gather>>

Done ==
  /\ state = "DONE" /\ state' = "IDLE"
  /\ done' = TRUE /\ busy' = FALSE
  /\ Pulse({})
  /\ UNCHANGED <<pass_idx, npass_q, cursor, latched, gather>>

(* A model takes its start at the next edge and answers while busy.        *)
Loop(m_done, t_done) ==
  /\ (m_done => m_busy) /\ (t_done => t_busy)
  /\ \/ Idle
     \/ MainWait(m_done)
     \/ Embed
     \/ \E t_argmax \in Token : DraftWait(t_done, t_argmax)
     \/ Feed \/ Drain \/ Done
  /\ m_busy' = (m_start \/ (m_busy /\ ~m_done))
  /\ t_busy' = (t_start \/ (t_busy /\ ~t_done))

Controller == SeqEdge(seq_arm, seq_pass, verified_q, draft_q, dpresent_q)

Observe ==
  /\ bonus' = (commit_valid' /\ ~seq_pass)
  /\ last' = IF commit_valid' /\ ~bonus' THEN commit_tok' ELSE last
  /\ pos' = IF commit_valid' /\ ~bonus' THEN After(pos, 1) ELSE pos
  /\ stream_pos' = IF commit_valid' THEN After(stream_pos, 1) ELSE stream_pos
  /\ beats' = IF commit_valid' THEN beats + 1 ELSE beats
  /\ UNCHANGED <<argmax, runs>>

StartRun == \E tok \in Token, p \in Pos, n \in NumPasses :
  /\ Start(tok, p, n) /\ Controller
  /\ last' = tok /\ pos' = p /\ stream_pos' = p
  /\ beats' = IF commit_valid' THEN beats + 1 ELSE beats
  /\ bonus' = FALSE /\ runs' = runs + 1
  /\ UNCHANGED <<argmax, m_busy, t_busy>>

Cycle == (\E m_done, t_done \in BOOLEAN : Loop(m_done, t_done)) /\ Controller /\ Observe

Reset ==
  /\ SeqReset
  /\ state' = "IDLE" /\ busy' = FALSE /\ done' = FALSE
  /\ Pulse({})
  /\ cur_tok' = ZeroToken /\ cur_pos' = 0 /\ pass_idx' = 0 /\ npass_q' = 0
  /\ verified_q' = ZeroToken /\ draft_q' = ZeroToken /\ dpresent_q' = FALSE
  /\ e_cnt' = 0 /\ e_loading' = FALSE
  /\ m_busy' = FALSE /\ t_busy' = FALSE
  /\ last' = ZeroToken /\ pos' = 0 /\ stream_pos' = 0 /\ beats' = 0
  /\ bonus' = FALSE /\ runs' = 0
  /\ UNCHANGED argmax

Next == StartRun \/ Cycle \/ Reset

Spec == Init /\ [][Next]_vars
-----------------------------------------------------------------------------
(* The verified beats, one per pass, are greedy decoding from the prompt,  *)
(* whatever the draft head answers and however the passes are accepted.    *)
Verified == INSTANCE GreedyStream
              WITH Window <- 1, base <- After(pos, 2^POSW - 1),
                   out <- IF commit_valid /\ ~bonus THEN commit_tok ELSE NoToken
ImplementsVerifiedGreedy == Verified!Spec

(* Every beat counts: the commit stream as it leaves the chip is greedy    *)
(* decoding (spec_decode_seq.v: no commit is ever lost or duplicated, and  *)
(* after an accept the next pass starts after the accepted token).         *)
Committed == INSTANCE GreedyStream
               WITH Window <- 1, pos <- stream_pos,
                    base <- After(stream_pos, 2^POSW - 1),
                    out <- IF commit_valid THEN commit_tok ELSE NoToken
ImplementsCommittedGreedy == Committed!Spec

(* The beats that have left and the one still queued are the tokens that   *)
(* total_tokens counts, across runs, accepts and rejects.                  *)
TokensAreBeats ==
  /\ total_tokens = beats + IF second_pending THEN 1 ELSE 0
  /\ total_tokens = main_passes + accepts

(* When a run ends, every pass but the first of each run has judged one    *)
(* draft, the one of the pass before it; the draft a run leaves behind is  *)
(* never held against the next run.                                        *)
EachPassJudgesOneDraft == done => accepts + rejects = main_passes - runs

(* done comes after the last beat of the run has left.                     *)
DoneAfterStream == done => ~second_pending /\ ~seq_pass

(* The host's view of a run is exact: the counters agree with the beats    *)
(* and the drafts, and no beat comes after done.                           *)
RunIsAccounted == TokensAreBeats /\ EachPassJudgesOneDraft /\ DoneAfterStream
=============================================================================
