--------------------------- MODULE SpecBatchedTop ---------------------------
(***************************************************************************)
(* src/spec_batched_top.v: the speculative-decode loop that verifies K     *)
(* drafts in one model pass, with its controller (SpecSeqBatch).  The      *)
(* model is external: a function from the tokens of the batch and the one  *)
(* position all its rows share to their next tokens, which it delivers any *)
(* time after the cycle that follows its start.  One step is one clock     *)
(* edge; the drafts on draft_in are arbitrary.                             *)
(***************************************************************************)
EXTENDS SpecSeqBatch

CONSTANT MAX_BATCHES    \* bound: passes between two resets

VARIABLES
  state, busy, done,
  mdl_start, seq_arm, seq_pass,
  cur_tok, cur_pos,
  pass_idx, npass_q,
  draft_q, nd_q, truth_q,
  drain_cnt,
  argmax,               \* external: the model
  mdl_busy,             \* external: a model pass is under way
  last, pos, base       \* observation: last token on the stream and its
                        \* position, position before the pass it came from

loop == <<state, busy, done, pass_idx, npass_q, drain_cnt>>
cursor == <<cur_tok, cur_pos>>
latched == <<draft_q, nd_q, truth_q>>
pulses == <<mdl_start, seq_arm, seq_pass>>
vars == <<seq_vars, loop, cursor, latched, pulses, argmax, mdl_busy, last, pos, base>>

Drafts == [1 .. DRAFT_K -> Token]
NDraft == 0 .. 2^(CHOOSE w \in 1 .. DRAFT_K : 2^w > DRAFT_K
                            /\ \A v \in 1 .. w - 1 : 2^v <= DRAFT_K) - 1

Init ==
  /\ SeqInit
  /\ state = "IDLE" /\ busy = FALSE /\ done = FALSE
  /\ mdl_start = FALSE /\ seq_arm = FALSE /\ seq_pass = FALSE
  /\ cur_tok = ZeroToken /\ cur_pos = 0 /\ pass_idx = 0 /\ npass_q = 0
  /\ draft_q = [j \in 1 .. DRAFT_K |-> ZeroToken] /\ nd_q = 0
  /\ truth_q = [j \in 1 .. DRAFT_K + 1 |-> ZeroToken]
  /\ drain_cnt = 0
  /\ argmax \in Models /\ mdl_busy = FALSE
  /\ last = ZeroToken /\ pos = 0 /\ base = 0

(* The tokens and positions of the batch, and what the model answers.      *)
Batch == <<cur_tok>> \o draft_q
Answer == [j \in 1 .. DRAFT_K + 1 |-> argmax[<<Batch[j], cur_pos>>]]

(* The top's own copies of the clamp and of the prefix rule, for its       *)
(* cursor: it goes through all K drafts and stops counting for good at the *)
(* first that is wrong or was not offered.                                 *)
nd_w == IF nd_q > DRAFT_K THEN DRAFT_K ELSE nd_q
top_acc_matches(dv, tv, nd) ==              \* mutation: a later match counts
  Cardinality({j \in 1 .. DRAFT_K : j <= nd /\ dv[j] = tv[j]})
top_acc_prefix(dv, tv, nd) ==
  Cardinality({j \in 1 .. DRAFT_K : \A i \in 1 .. j : i <= nd /\ dv[i] = tv[i]})

(* The committed frontier of the pass just verified.                       *)
prefix == top_acc_prefix(draft_q, truth_q, nd_w)
frontier_tok == truth_q[prefix + 1]
pos_adv == prefix + 1

drained == drain_cnt = DRAFT_K

(* A pulse register is set by the state that raises it, and else cleared.  *)
Pulse(start, arm, pass) == mdl_start' = start /\ seq_arm' = arm /\ seq_pass' = pass

Start(tok, p, n) ==
  /\ state = "IDLE" /\ state' = "SETUP"
  /\ main_passes + n <= MAX_BATCHES
  /\ busy' = TRUE /\ done' = FALSE
  /\ cur_tok' = tok /\ cur_pos' = p
  /\ npass_q' = n /\ pass_idx' = 0
  /\ Pulse(FALSE, TRUE, FALSE)
  /\ UNCHANGED <<latched, drain_cnt>>

Idle ==
  /\ state = "IDLE"
  /\ busy' = FALSE /\ done' = FALSE
  /\ Pulse(FALSE, FALSE, FALSE)
  /\ UNCHANGED <<state, cursor, latched, pass_idx, npass_q, drain_cnt>>

Setup(drafts, n) ==
  /\ state = "SETUP" /\ state' = "LAUNCH"
  /\ draft_q' = drafts /\ nd_q' = n
  /\ Pulse(FALSE, FALSE, FALSE)
  /\ UNCHANGED <<busy, done, pass_idx, npass_q, drain_cnt, cursor, truth_q>>

Launch ==
  /\ state = "LAUNCH" /\ state' = "MWAIT"
  /\ Pulse(TRUE, FALSE, FALSE)
  /\ UNCHANGED <<busy, done, pass_idx, npass_q, drain_cnt, cursor, latched>>

ModelWait(mdl_done) ==
  /\ state = "MWAIT"
  /\ IF mdl_done THEN state' = "FEED" /\ truth_q' = Answer
                 ELSE UNCHANGED <<state, truth_q>>
  /\ Pulse(FALSE, FALSE, FALSE)
  /\ UNCHANGED <<busy, done, pass_idx, npass_q, drain_cnt, cursor, draft_q, nd_q>>

last_pass == pass_idx = npass_q - 1

Feed ==
  /\ state = "FEED"
  /\ Pulse(FALSE, FALSE, TRUE)
  /\ cur_tok' = frontier_tok /\ cur_pos' = After(cur_pos, pos_adv)
  /\ IF last_pass
       THEN state' = "DRAIN" /\ drain_cnt' = 0 /\ UNCHANGED pass_idx
       ELSE state' = "SETUP" /\ pass_idx' = pass_idx + 1 /\ UNCHANGED drain_cnt
  /\ UNCHANGED <<busy, done, npass_q, latched>>

Drain ==
  /\ state = "DRAIN"
  /\ IF drained THEN state' = "DONE" /\ UNCHANGED drain_cnt
                ELSE drain_cnt' = drain_cnt + 1 /\ UNCHANGED state
  /\ Pulse(FALSE, FALSE, FALSE)
  /\ UNCHANGED <<busy, done, pass_idx, npass_q, cursor, latched>>

Done ==
  /\ state = "DONE" /\ state' = "IDLE"
  /\ done' = TRUE /\ busy' = FALSE
  /\ Pulse(FALSE, FALSE, FALSE)
  /\ UNCHANGED <<pass_idx, npass_q, drain_cnt, cursor, latched>>

(* The model takes a start at the next edge and answers while busy.        *)
Loop(mdl_done) ==
  /\ mdl_done => mdl_busy
  /\ \/ Idle
     \/ \E drafts \in Drafts, n \in NDraft : Setup(drafts, n)
     \/ Launch
     \/ ModelWait(mdl_done)
     \/ Feed \/ Drain \/ Done
  /\ mdl_busy' = (mdl_start \/ (mdl_busy /\ ~mdl_done))

Controller == SeqEdge(seq_arm, seq_pass, draft_q, truth_q, nd_q)

Observe ==
  /\ last' = IF commit_valid' THEN commit_tok' ELSE last
  /\ pos' = IF commit_valid' THEN After(pos, 1) ELSE pos
  /\ base' = IF seq_pass THEN pos ELSE base
  /\ UNCHANGED argmax

StartRun == \E tok \in Token, p \in Pos, n \in NumPasses :
  /\ Start(tok, p, n) /\ Controller
  /\ last' = tok /\ pos' = p /\ base' = p
  /\ UNCHANGED <<argmax, mdl_busy>>

Cycle == (\E mdl_done \in BOOLEAN : Loop(mdl_done)) /\ Controller /\ Observe

Reset ==
  /\ SeqReset
  /\ state' = "IDLE" /\ busy' = FALSE /\ done' = FALSE
  /\ Pulse(FALSE, FALSE, FALSE)
  /\ cur_tok' = ZeroToken /\ cur_pos' = 0 /\ pass_idx' = 0 /\ npass_q' = 0
  /\ draft_q' = [j \in 1 .. DRAFT_K |-> ZeroToken] /\ nd_q' = 0
  /\ truth_q' = [j \in 1 .. DRAFT_K + 1 |-> ZeroToken]
  /\ drain_cnt' = 0
  /\ mdl_busy' = FALSE
  /\ last' = ZeroToken /\ pos' = 0 /\ base' = 0
  /\ UNCHANGED argmax

Next == StartRun \/ Cycle \/ Reset

Spec == Init /\ [][Next]_vars
-----------------------------------------------------------------------------
out == IF commit_valid THEN commit_tok ELSE NoToken

(* The stream is the chain of the model's own choices, whatever is         *)
(* drafted: each token follows the one before it, none is lost, repeated   *)
(* or taken from a rejected draft, each pass is evaluated at the position  *)
(* of the last token committed before it, and a new run does not overtake  *)
(* the beats of the last.                                                  *)
PassStream == INSTANCE GreedyStream WITH Window <- DRAFT_K + 1
ImplementsPassStream == PassStream!Spec

(* The stream is greedy decoding: each token is the model's choice at its  *)
(* own position (spec_decode_seq.v, "committed stream == greedy").         *)
Greedy == INSTANCE GreedyStream
            WITH Window <- 1, base <- After(pos, 2^POSW - 1)
ImplementsGreedy == Greedy!Spec

(* When no pass is being fed and nothing is queued, the cursor the next    *)
(* pass starts from is the last token committed and its position, computed *)
(* a second time by the top's own copy of the prefix rule.                 *)
CursorIsFrontier ==
  busy /\ ~seq_pass /\ ~draining => cur_tok = last /\ cur_pos = pos

(* done comes after the last beat of the run.                              *)
DoneAfterStream == done => ~draining /\ ~seq_pass
=============================================================================
