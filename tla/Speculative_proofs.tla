-------------------------- MODULE Speculative_proofs --------------------------
(***************************************************************************)
(* Proofs about the speculative-decode loops.  The rolling loop accounts   *)
(* for every pass, draft and beat, and its verified beats are greedy       *)
(* decoding.  The batched loop keeps its cursor at the frontier of the     *)
(* stream, and its stream is the chain of the model's own choices.  All    *)
(* for every model, every draft and every latency of the models.           *)
(***************************************************************************)
EXTENDS MCSpeculative, SequenceTheorems, FiniteSetTheorems, TLAPS

Bit(b) == IF b THEN 1 ELSE 0

(* A pass of the run is being made.                                        *)
Making == state \in {"MWAIT", "EMB", "TWAIT", "FEED"}

RollTypes ==
  /\ running \in BOOLEAN /\ have_draft \in BOOLEAN /\ second_pending \in BOOLEAN
  /\ commit_valid \in BOOLEAN /\ bonus \in BOOLEAN /\ dpresent_q \in BOOLEAN
  /\ m_start \in BOOLEAN /\ m_busy \in BOOLEAN /\ seq_arm \in BOOLEAN /\ seq_pass \in BOOLEAN
  /\ done \in BOOLEAN /\ state \in {"IDLE", "MWAIT", "EMB", "TWAIT", "FEED", "DRAIN", "DONE"}
  /\ total_tokens \in Nat /\ main_passes \in Nat /\ accepts \in Nat /\ rejects \in Nat
  /\ beats \in Nat /\ runs \in Nat /\ pass_idx \in Nat /\ npass_q \in Nat /\ pos \in Pos

(* When the pulses are up and a beat can be queued: a pass reaches the     *)
(* controller while the next one starts, or in the drain state, and its    *)
(* bonus beat has left before the model can answer or the run can end.     *)
Phases ==
  /\ done => state = "IDLE"
  /\ m_start => state = "MWAIT"
  /\ m_busy => state = "MWAIT" /\ ~m_start
  /\ seq_pass => (state = "MWAIT" /\ m_start /\ pass_idx # 0) \/ state = "DRAIN"
  /\ second_pending => (state = "MWAIT" /\ ~m_start) \/ state = "DONE"
  /\ state # "IDLE" => running \/ seq_arm

(* The first pass of the run has not been judged yet: it judges no draft.  *)
FirstOwed == (Making /\ pass_idx = 0) \/ (seq_pass /\ ~dpresent_q)

Judged ==
  /\ Making /\ pass_idx # 0 => have_draft \/ seq_pass
  /\ state = "FEED" => dpresent_q = prior_draft
  /\ seq_pass /\ dpresent_q => have_draft
  /\ accepts + rejects + runs = main_passes + Bit(FirstOwed)

Counted ==
  /\ total_tokens = beats + Bit(second_pending)
  /\ total_tokens = main_passes + accepts

(* The model is asked about the last verified token at its position.       *)
Aligned ==
  /\ Making /\ ~seq_pass => cur_tok = last /\ cur_pos = pos
  /\ state \in {"EMB", "TWAIT", "FEED"} \/ seq_pass => verified_q = argmax[<<last, pos>>]
  /\ seq_pass /\ state = "MWAIT" => cur_tok = verified_q /\ cur_pos = After(pos, 1)

RollInv == RollTypes /\ Phases /\ Judged /\ Counted /\ Aligned
-----------------------------------------------------------------------------
(* A position and the one after it; going round brings the position back.  *)
LEMMA Positions ==
  /\ 0 \in Pos
  /\ \A p \in Pos, n \in Nat : After(p, n) \in Pos
  /\ \A p \in Pos : After(p, 0) = p /\ After(After(p, 1), 2^POSW - 1) = p
<1> DEFINE m == 2^POSW
<1>1. m \in Nat \ {0} /\ Pos = 0 .. m - 1 /\ \A p, n : After(p, n) = (p + n) % m
  BY ParamsAssumption DEF Pos, After
<1> HIDE DEF m
<1>2. ASSUME NEW p \in Pos, NEW n \in Nat PROVE After(p, n) \in Pos
  BY <1>1
<1>3. ASSUME NEW p \in Pos PROVE After(p, 0) = p /\ After(After(p, 1), m - 1) = p
  <2>1. p \in 0 .. m - 1 /\ m \in Nat \ {0}
    BY <1>1
  <2>2. (p + 0) % m = p
    BY <2>1
  <2>3. CASE p + 1 < m
    <3>1. (p + 1) % m = p + 1
      BY <2>1, <2>3
    <3>2. (p + 1) + (m - 1) = p + m /\ (p + m) % m = p
      BY <2>1
    <3> QED
      BY <1>1, <2>2, <3>1, <3>2
  <2>4. CASE p + 1 = m
    <3>1. m % m = 0 /\ (m - 1) % m = m - 1
      BY <2>1
    <3>2. (p + 1) % m = 0 /\ 0 + (m - 1) = p /\ p % m = p
      BY <2>1, <2>4, <3>1
    <3> QED
      BY <1>1, <2>2, <3>2
  <2> QED
    BY <2>1, <2>3, <2>4
<1> QED
  BY <1>1, <1>2, <1>3 DEF m

LEMMA RollInit == Init => RollInv
<1> SUFFICES ASSUME Init PROVE RollInv
  OBVIOUS
<1>1. RollTypes
  BY Positions DEF Init, SeqInit, RollTypes
<1>2. Phases /\ Counted /\ Aligned
  BY DEF Init, SeqInit, Phases, Counted, Aligned, Making, Bit
<1>3. Judged
  BY DEF Init, SeqInit, Judged, FirstOwed, Making, Bit
<1> QED
  BY <1>1, <1>2, <1>3 DEF RollInv

(* What an edge of the controller commits and counts.                      *)
LEMMA PassEdge ==
  ASSUME RollInv, Controller, seq_pass
  PROVE  /\ running' = TRUE /\ have_draft' = TRUE /\ second_pending' \in BOOLEAN
         /\ commit_valid' = TRUE /\ commit_tok' = verified_q
         /\ main_passes' = main_passes + 1
         /\ accepts' \in Nat /\ rejects' \in Nat
         /\ accepts' + rejects' = accepts + rejects + Bit(dpresent_q)
         /\ total_tokens' = total_tokens + 1 + Bit(second_pending')
         /\ total_tokens' = main_passes' + accepts'
<1> DEFINE ok == accept(verified_q, dpresent_q)
           verify == do_verify(dpresent_q)
<1>1. SeqPass(verified_q, draft_q, dpresent_q) /\ running' = TRUE
  BY DEF Controller, SeqEdge, RollInv, RollTypes, Phases
<1>2. /\ ok \in BOOLEAN /\ verify = dpresent_q /\ (ok => verify) /\ dpresent_q \in BOOLEAN
      /\ ~second_pending /\ second_pending \in BOOLEAN
  BY DEF accept, do_verify, RollInv, RollTypes, Judged, Phases
<1>3. /\ commit_valid' = TRUE /\ commit_tok' = verified_q /\ have_draft' = TRUE
      /\ main_passes' = main_passes + 1
      /\ total_tokens' = total_tokens + (IF ok THEN 2 ELSE 1)
      /\ accepts' = accepts + (IF ok THEN 1 ELSE 0)
      /\ rejects' = rejects + (IF verify /\ ~ok THEN 1 ELSE 0)
      /\ second_pending' = ok
  BY <1>1, <1>2 DEF SeqPass, tokens
<1> HIDE DEF ok, verify
<1>4. /\ accepts \in Nat /\ rejects \in Nat /\ main_passes \in Nat /\ total_tokens \in Nat
      /\ total_tokens = main_passes + accepts
  BY DEF RollInv, RollTypes, Counted
<1>5. accepts' \in Nat /\ rejects' \in Nat
  BY <1>3, <1>4
<1>6. accepts' + rejects' = accepts + rejects + Bit(dpresent_q)
  BY <1>2, <1>3, <1>4 DEF Bit
<1>7. total_tokens' = total_tokens + 1 + Bit(second_pending') /\ total_tokens' = main_passes' + accepts'
  BY <1>2, <1>3, <1>4 DEF Bit
<1> QED
  BY <1>1, <1>2, <1>3, <1>5, <1>6, <1>7

LEMMA QuietEdge ==
  ASSUME RollInv, Controller, ~seq_pass
  PROVE  /\ running' = (running \/ seq_arm)
         /\ have_draft' = have_draft /\ ~second_pending' /\ second_pending' \in BOOLEAN
         /\ commit_valid' = second_pending
         /\ main_passes' = main_passes /\ accepts' = accepts /\ rejects' = rejects
         /\ total_tokens' = total_tokens
  BY DEF Controller, SeqEdge, SeqBonus, SeqIdle, draft, counters, RollInv, RollTypes

(* What a cycle of the loop leaves to the observer.                        *)
LEMMA CycleEdge ==
  ASSUME RollInv, Controller, Observe
  PROVE  /\ runs' = runs /\ argmax' = argmax /\ pos' \in Pos
         /\ bonus' \in BOOLEAN /\ commit_valid' \in BOOLEAN
         /\ seq_pass => last' = verified_q /\ pos' = After(pos, 1)
         /\ ~seq_pass => last' = last /\ pos' = pos
         /\ beats' \in Nat /\ total_tokens' \in Nat /\ Counted'
<1>1. /\ bonus' = (commit_valid' /\ ~seq_pass) /\ runs' = runs /\ argmax' = argmax
      /\ beats' = beats + Bit(commit_valid')
      /\ last' = IF commit_valid' /\ ~bonus' THEN commit_tok' ELSE last
      /\ pos' = IF commit_valid' /\ ~bonus' THEN After(pos, 1) ELSE pos
  BY DEF Observe, Bit, RollInv, RollTypes
<1>2. /\ beats \in Nat /\ pos \in Pos /\ total_tokens \in Nat /\ seq_pass \in BOOLEAN
      /\ second_pending \in BOOLEAN
      /\ total_tokens = beats + Bit(second_pending) /\ total_tokens = main_passes + accepts
      /\ seq_pass => ~second_pending
  BY DEF RollInv, RollTypes, Counted, Phases
<1>3. CASE seq_pass
  <2>1. /\ commit_valid' = TRUE /\ commit_tok' = verified_q /\ second_pending' \in BOOLEAN
        /\ total_tokens' = total_tokens + 1 + Bit(second_pending')
        /\ total_tokens' = main_passes' + accepts'
    BY <1>3, PassEdge
  <2> QED
    BY <1>1, <1>2, <1>3, <2>1, Positions DEF Bit, Counted
<1>4. CASE ~seq_pass
  <2>1. /\ ~second_pending' /\ commit_valid' = second_pending
        /\ main_passes' = main_passes /\ accepts' = accepts /\ total_tokens' = total_tokens
    BY <1>4, QuietEdge
  <2> QED
    BY <1>1, <1>2, <1>4, <2>1 DEF Bit, Counted
<1> QED
  BY <1>2, <1>3, <1>4

(* A cycle of the loop, with its controller and the observer.              *)
LEMMA CycleTypes ==
  ASSUME RollInv, NEW m_done \in BOOLEAN, NEW t_done \in BOOLEAN, Loop(m_done, t_done),
         Controller, Observe
  PROVE  RollTypes' /\ Counted'
<1>1. /\ running' \in BOOLEAN /\ have_draft' \in BOOLEAN /\ second_pending' \in BOOLEAN
      /\ main_passes' \in Nat /\ accepts' \in Nat /\ rejects' \in Nat
  <2>1. /\ running \in BOOLEAN /\ have_draft \in BOOLEAN /\ seq_pass \in BOOLEAN /\ seq_arm \in BOOLEAN
        /\ main_passes \in Nat /\ accepts \in Nat /\ rejects \in Nat
    BY DEF RollInv, RollTypes
  <2>2. CASE seq_pass
    BY <2>1, <2>2, PassEdge
  <2>3. CASE ~seq_pass
    BY <2>1, <2>3, QuietEdge
  <2> QED
    BY <2>1, <2>2, <2>3
<1>2. /\ bonus' \in BOOLEAN /\ commit_valid' \in BOOLEAN /\ pos' \in Pos
      /\ beats' \in Nat /\ runs' \in Nat /\ total_tokens' \in Nat /\ Counted'
  BY CycleEdge DEF RollInv, RollTypes
<1>3. m_busy' \in BOOLEAN
  BY DEF Loop, RollInv, RollTypes
<1>4. /\ pass_idx \in Nat /\ npass_q \in Nat /\ done \in BOOLEAN /\ dpresent_q \in BOOLEAN
      /\ state \in {"IDLE", "MWAIT", "EMB", "TWAIT", "FEED", "DRAIN", "DONE"}
  BY DEF RollInv, RollTypes
<1>5. \E up : Pulse(up)
  BY DEF Loop, Idle, MainWait, Embed, DraftWait, Feed, Drain, Done
<1>6. m_start' \in BOOLEAN /\ seq_arm' \in BOOLEAN /\ seq_pass' \in BOOLEAN
  BY <1>5 DEF Pulse
<1>7. state' \in {"IDLE", "MWAIT", "EMB", "TWAIT", "FEED", "DRAIN", "DONE"}
  BY <1>4 DEF Loop, Idle, MainWait, Embed, DraftWait, Feed, Drain, Done
<1>8. done' \in BOOLEAN
  BY <1>4 DEF Loop, Idle, MainWait, Embed, DraftWait, Feed, Drain, Done, run
<1>9. dpresent_q' \in BOOLEAN
  BY <1>4 DEF Loop, Idle, MainWait, Embed, DraftWait, Feed, Drain, Done, latched, prior_draft
<1>10. pass_idx' \in Nat
  BY <1>4 DEF Loop, Idle, MainWait, Embed, DraftWait, Feed, Drain, Done, run
<1>11. npass_q' \in Nat
  BY <1>4 DEF Loop, Idle, MainWait, Embed, DraftWait, Feed, Drain, Done, run
<1> QED
  BY <1>1, <1>2, <1>3, <1>6, <1>7, <1>8, <1>9, <1>10, <1>11 DEF RollTypes

LEMMA CycleStep ==
  ASSUME RollInv, NEW m_done \in BOOLEAN, NEW t_done \in BOOLEAN, Loop(m_done, t_done),
         Controller, Observe
  PROVE  RollInv'
<1>1. RollTypes' /\ Counted'
  BY CycleTypes
<1>2. RollTypes /\ Phases /\ Judged /\ Aligned
  BY DEF RollInv
<1>3. /\ m_done => m_busy
      /\ m_busy' = (m_start \/ (m_busy /\ ~m_done))
  BY DEF Loop
<1>4. /\ runs' = runs /\ argmax' = argmax
      /\ seq_pass => last' = verified_q /\ pos' = After(pos, 1)
      /\ ~seq_pass => last' = last /\ pos' = pos
  BY CycleEdge
<1>5. seq_pass => /\ running' = TRUE /\ have_draft' = TRUE /\ main_passes' = main_passes + 1
                  /\ accepts' + rejects' = accepts + rejects + Bit(dpresent_q)
  BY PassEdge
<1>6. ~seq_pass => /\ running' = (running \/ seq_arm)
                   /\ have_draft' = have_draft /\ ~second_pending' /\ main_passes' = main_passes
                   /\ accepts' = accepts /\ rejects' = rejects
  BY QuietEdge
<1>j. ASSUME seq_pass, ~seq_pass', pass_idx' = pass_idx,
             Making' => Making /\ pass_idx # 0, state' # "FEED", Making => pass_idx # 0
      PROVE  Judged'
  <2>1. /\ accepts \in Nat /\ rejects \in Nat /\ runs \in Nat /\ main_passes \in Nat
        /\ dpresent_q \in BOOLEAN
        /\ accepts + rejects + runs = main_passes + Bit(~dpresent_q)
    BY <1>2, <1>j DEF Judged, FirstOwed, RollTypes
  <2>2. ~FirstOwed'
    BY <1>j DEF FirstOwed
  <2>3. accepts' + rejects' + runs' = main_passes'
    BY <1>4, <1>5, <1>j, <2>1 DEF Bit
  <2>4. main_passes' = main_passes' + Bit(FirstOwed')
    <3>1. Bit(FirstOwed') = 0
      BY <2>2 DEF Bit
    <3>2. main_passes' \in Nat
      BY <1>1 DEF RollTypes
    <3>3. \A n \in Nat : n = n + 0
      OBVIOUS
    <3> QED
      BY <3>1, <3>2, <3>3, Zenon
  <2> QED
    BY <1>5, <1>j, <2>3, <2>4 DEF Judged
<1>7. CASE Idle
  <2>1. ~seq_pass /\ ~m_busy
    BY <1>2, <1>7 DEF Phases, Idle
  <2>2. /\ state' = "IDLE" /\ ~m_start' /\ ~seq_pass' /\ ~done' /\ dpresent_q' = dpresent_q
    BY <1>7 DEF Idle, Pulse, latched
  <2> QED
    BY <1>1, <1>2, <1>3, <1>4, <1>5, <1>6, <1>7, <2>1, <2>2
    DEF RollInv, Phases, Judged, Aligned, FirstOwed, Making, Idle
<1>8. CASE MainWait(m_done)
  <2>1. /\ state = "MWAIT" /\ ~m_start' /\ ~seq_pass' /\ done' = done
        /\ pass_idx' = pass_idx /\ dpresent_q' = dpresent_q
        /\ cur_tok' = cur_tok /\ cur_pos' = cur_pos
        /\ m_done => state' = "EMB" /\ verified_q' = argmax[<<cur_tok, cur_pos>>]
        /\ ~m_done => state' = "MWAIT" /\ verified_q' = verified_q
    BY <1>8 DEF MainWait, Pulse, run, cursor
  <2>2. CASE m_done
    <3>1. m_busy /\ ~m_start /\ ~seq_pass
      BY <1>2, <1>3, <2>1, <2>2 DEF Phases
    <3> QED
      BY <1>1, <1>2, <1>3, <1>4, <1>6, <2>1, <2>2, <3>1
      DEF RollInv, Phases, Judged, Aligned, FirstOwed, Making
  <2>3. CASE ~m_done
    <3>1. Phases'
      BY <1>2, <1>3, <1>5, <1>6, <2>1, <2>3 DEF Phases
    <3>2. Aligned'
      BY <1>2, <1>4, <2>1, <2>3 DEF Aligned, Making, Phases
    <3>3. CASE seq_pass
      <4>1. Judged'
        BY <1>2, <1>j, <2>1, <2>3, <3>3 DEF Making, Phases
      <4> QED
        BY <1>1, <3>1, <3>2, <4>1 DEF RollInv
    <3>4. CASE ~seq_pass
      <4>1. Judged'
        BY <1>2, <1>4, <1>6, <2>1, <2>3, <3>4 DEF Judged, Making, FirstOwed
      <4> QED
        BY <1>1, <3>1, <3>2, <4>1 DEF RollInv
    <3> QED
      BY <3>3, <3>4
  <2> QED
    BY <2>2, <2>3
<1>9. CASE Embed
  <2>1. /\ state = "EMB" /\ state' \in {"EMB", "TWAIT"} /\ ~m_start' /\ ~seq_pass' /\ done' = done
        /\ pass_idx' = pass_idx /\ dpresent_q' = dpresent_q
        /\ cur_tok' = cur_tok /\ cur_pos' = cur_pos /\ verified_q' = verified_q
    BY <1>9 DEF Embed, Pulse, run, cursor, latched
  <2>2. ~seq_pass /\ ~m_busy /\ ~m_start
    BY <1>2, <2>1 DEF Phases
  <2> QED
    BY <1>1, <1>2, <1>3, <1>4, <1>6, <2>1, <2>2
    DEF RollInv, Phases, Judged, Aligned, FirstOwed, Making
<1>10. CASE \E t_argmax \in Token : DraftWait(t_done, t_argmax)
  <2>1. /\ state = "TWAIT" /\ ~m_start' /\ ~seq_pass' /\ done' = done
        /\ pass_idx' = pass_idx
        /\ \/ state' = "FEED" /\ dpresent_q' = prior_draft
           \/ state' = "TWAIT" /\ dpresent_q' = dpresent_q
        /\ cur_tok' = cur_tok /\ cur_pos' = cur_pos /\ verified_q' = verified_q
    <3>1. PICK t_argmax \in Token : DraftWait(t_done, t_argmax)
      BY <1>10
    <3>2. /\ state = "TWAIT" /\ ~m_start' /\ ~seq_pass' /\ done' = done /\ pass_idx' = pass_idx
          /\ cur_tok' = cur_tok /\ cur_pos' = cur_pos /\ verified_q' = verified_q
      BY <3>1 DEF DraftWait, Pulse, run, cursor
    <3>3. \/ state' = "FEED" /\ dpresent_q' = prior_draft
          \/ state' = "TWAIT" /\ dpresent_q' = dpresent_q
      BY <3>1 DEF DraftWait
    <3> QED
      BY <3>2, <3>3
  <2>2. ~seq_pass /\ ~m_busy /\ ~m_start
    BY <1>2, <2>1 DEF Phases
  <2> QED
    BY <1>1, <1>2, <1>3, <1>4, <1>6, <2>1, <2>2
    DEF RollInv, Phases, Judged, Aligned, FirstOwed, Making, prior_draft
<1>11. CASE Feed
  <2>1. /\ state = "FEED" /\ seq_pass' /\ done' = done
        /\ dpresent_q' = dpresent_q
        /\ cur_tok' = verified_q /\ cur_pos' = After(cur_pos, 1) /\ verified_q' = verified_q
        /\ \/ state' = "DRAIN" /\ pass_idx' = pass_idx /\ ~m_start'
           \/ state' = "MWAIT" /\ pass_idx' = pass_idx + 1 /\ m_start'
    BY <1>11 DEF Feed, Pulse, latched, feed_pos
  <2>2. ~seq_pass /\ ~m_busy /\ ~m_start
    BY <1>2, <2>1 DEF Phases
  <2>3. pass_idx + 1 # 0 /\ pass_idx \in Nat
    BY <1>2 DEF RollTypes
  <2>4. Phases'
    BY <1>2, <1>3, <1>6, <2>1, <2>2, <2>3 DEF Phases
  <2>5. Aligned'
    BY <1>2, <1>4, <2>1, <2>2 DEF Aligned, Making
  <2>6. Judged'
    BY <1>2, <1>4, <1>6, <2>1, <2>2, <2>3 DEF Judged, Making, FirstOwed, prior_draft
  <2> QED
    BY <1>1, <2>4, <2>5, <2>6 DEF RollInv
<1>12. CASE Drain
  <2>1. /\ state = "DRAIN" /\ state' = "DONE" /\ ~m_start' /\ ~seq_pass' /\ done' = done
        /\ pass_idx' = pass_idx /\ dpresent_q' = dpresent_q
    BY <1>12 DEF Drain, Pulse, run, latched
  <2>2. ~m_busy /\ ~m_start
    BY <1>2, <2>1 DEF Phases
  <2>3. Phases'
    BY <1>2, <1>3, <1>5, <1>6, <2>1, <2>2 DEF Phases
  <2>4. Aligned'
    BY <2>1 DEF Aligned, Making
  <2>5. CASE seq_pass
    <3>1. Judged'
      BY <1>j, <2>1, <2>5 DEF Making
    <3> QED
      BY <1>1, <2>3, <2>4, <3>1 DEF RollInv
  <2>6. CASE ~seq_pass
    <3>1. Judged'
      BY <1>2, <1>4, <1>6, <2>1, <2>6 DEF Judged, Making, FirstOwed
    <3> QED
      BY <1>1, <2>3, <2>4, <3>1 DEF RollInv
  <2> QED
    BY <2>5, <2>6
<1>13. CASE Done
  <2>1. /\ state = "DONE" /\ state' = "IDLE" /\ ~m_start' /\ ~seq_pass'
        /\ pass_idx' = pass_idx /\ dpresent_q' = dpresent_q
    BY <1>13 DEF Done, Pulse, latched
  <2>2. ~seq_pass /\ ~m_busy /\ ~m_start
    BY <1>2, <2>1 DEF Phases
  <2> QED
    BY <1>1, <1>2, <1>3, <1>4, <1>6, <2>1, <2>2
    DEF RollInv, Phases, Judged, Aligned, FirstOwed, Making
<1> QED
  BY <1>7, <1>8, <1>9, <1>10, <1>11, <1>12, <1>13 DEF Loop

LEMMA RollStep == RollInv /\ [Next]_vars => RollInv'
<1> SUFFICES ASSUME RollInv, [Next]_vars PROVE RollInv'
  OBVIOUS
<1>1. ASSUME NEW tok \in Token, NEW p \in Pos, NEW n \in NumPasses, Start(tok, p, n), Controller,
             last' = tok, pos' = p, beats' = IF commit_valid' THEN beats + 1 ELSE beats,
             bonus' = FALSE, runs' = runs + 1, m_busy' = m_busy
      PROVE  RollInv'
  <2>1. /\ state = "IDLE" /\ state' = "MWAIT" /\ done' = FALSE /\ m_start' = TRUE /\ seq_arm' = TRUE
        /\ seq_pass' = FALSE /\ cur_tok' = tok /\ cur_pos' = p /\ pass_idx' = 0 /\ npass_q' = n
        /\ dpresent_q' = dpresent_q
    <3>1. /\ state = "IDLE" /\ state' = "MWAIT" /\ done' = FALSE /\ Pulse({"seq_arm", "m_start"})
          /\ cur_tok' = tok /\ cur_pos' = p /\ pass_idx' = 0 /\ npass_q' = n
          /\ dpresent_q' = dpresent_q
      BY <1>1 DEF Start, latched
    <3>2. m_start' /\ seq_arm' /\ ~seq_pass'
      BY <3>1 DEF Pulse
    <3>3. m_start' \in BOOLEAN /\ seq_arm' \in BOOLEAN /\ seq_pass' \in BOOLEAN
      BY <3>1 DEF Pulse
    <3> QED
      BY <3>1, <3>2, <3>3
  <2>2. ~seq_pass /\ ~second_pending /\ ~m_busy
    BY <2>1 DEF RollInv, Phases
  <2>3. /\ running' = (running \/ seq_arm) /\ have_draft' = have_draft /\ second_pending' = FALSE
        /\ commit_valid' = FALSE
        /\ main_passes' = main_passes /\ accepts' = accepts /\ rejects' = rejects
        /\ total_tokens' = total_tokens
    BY <1>1, <2>2, QuietEdge DEF RollInv, RollTypes
  <2>4. beats' = beats
    BY <1>1, <2>3
  <2>5. RollTypes
    BY DEF RollInv
  <2>6. RollTypes'
    <3>1. npass_q' \in Nat
      BY <2>1, ParamsAssumption
    <3>2. runs' \in Nat
      BY <1>1, <2>5 DEF RollTypes
    <3> QED
      BY <1>1, <2>1, <2>2, <2>3, <2>4, <2>5, <3>1, <3>2 DEF RollTypes
  <2>7. Phases'
    BY <1>1, <2>1, <2>2, <2>3 DEF Phases
  <2>8. Judged'
    <3>1. Bit(FirstOwed) = 0 /\ Bit(FirstOwed') = 1
      BY <2>1, <2>2 DEF FirstOwed, Making, Bit
    <3>2. accepts + rejects + runs = main_passes + 0
      BY <3>1 DEF RollInv, Judged
    <3>3. accepts' + rejects' + runs' = main_passes' + Bit(FirstOwed')
      BY <1>1, <2>3, <2>5, <3>1, <3>2 DEF RollTypes
    <3> QED
      BY <2>1, <3>3 DEF Judged
  <2>9. Counted'
    <3>1. Bit(second_pending') = Bit(second_pending)
      BY <2>2, <2>3 DEF Bit
    <3> QED
      BY <2>3, <2>4, <3>1 DEF RollInv, Counted
  <2>10. Aligned'
    BY <1>1, <2>1 DEF Aligned
  <2> QED
    BY <2>6, <2>7, <2>8, <2>9, <2>10 DEF RollInv
<1>2. CASE StartRun
  BY <1>1, <1>2 DEF StartRun
<1>3. CASE Cycle
  BY <1>3, CycleStep DEF Cycle
<1>4. CASE Reset
  <2>1. /\ running' = FALSE /\ have_draft' = FALSE /\ second_pending' = FALSE /\ commit_valid' = FALSE
        /\ total_tokens' = 0 /\ main_passes' = 0 /\ accepts' = 0 /\ rejects' = 0
    BY <1>4 DEF Reset, SeqReset
  <2>2. /\ state' = "IDLE" /\ done' = FALSE /\ pass_idx' = 0 /\ npass_q' = 0 /\ dpresent_q' = FALSE
        /\ m_busy' = FALSE /\ pos' = 0 /\ beats' = 0 /\ bonus' = FALSE /\ runs' = 0
    BY <1>4 DEF Reset
  <2>3. m_start' = FALSE /\ seq_arm' = FALSE /\ seq_pass' = FALSE
    <3>1. Pulse({})
      BY <1>4 DEF Reset
    <3>2. ~m_start' /\ ~seq_arm' /\ ~seq_pass'
      BY <3>1 DEF Pulse
    <3>3. m_start' \in BOOLEAN /\ seq_arm' \in BOOLEAN /\ seq_pass' \in BOOLEAN
      BY <3>1 DEF Pulse
    <3> QED
      BY <3>2, <3>3
  <2>4. RollTypes'
    BY <2>1, <2>2, <2>3, Positions DEF RollTypes
  <2>5. Phases' /\ Aligned' /\ Counted'
    BY <2>1, <2>2, <2>3 DEF Phases, Aligned, Counted, Making, Bit
  <2>6. Judged'
    BY <2>1, <2>2, <2>3 DEF Judged, FirstOwed, Making, Bit
  <2> QED
    BY <2>4, <2>5, <2>6 DEF RollInv
<1>5. CASE UNCHANGED vars
  BY <1>5 DEF vars, seq_vars, draft, beat, counters, run, pulses, cursor, latched, seen,
              RollInv, RollTypes, Phases, Judged, Counted, Aligned, FirstOwed, Making, Bit, prior_draft
<1> QED
  BY <1>2, <1>3, <1>4, <1>5 DEF Next

(* src/spec_decode_seq.v and src/spec_decode_top.v: the counters the host  *)
(* reads agree with the beats that left, every pass but the first of a run *)
(* has judged one draft, and no beat is left when done rises.              *)
THEOREM RunsAreAccounted == Spec => []RunIsAccounted
<1>1. RollInv => RunIsAccounted
  <2> SUFFICES ASSUME RollInv PROVE RunIsAccounted
    OBVIOUS
  <2>1. TokensAreBeats
    BY DEF RollInv, Counted, TokensAreBeats, Bit
  <2>2. EachPassJudgesOneDraft
    <3> SUFFICES ASSUME done PROVE accepts + rejects = main_passes - runs
      BY DEF EachPassJudgesOneDraft
    <3>1. ~FirstOwed
      BY DEF RollInv, Phases, FirstOwed, Making
    <3>2. accepts + rejects + runs = main_passes + 0
      BY <3>1 DEF RollInv, Judged, Bit
    <3> QED
      BY <3>2 DEF RollInv, RollTypes
  <2>3. DoneAfterStream
    BY DEF RollInv, Phases, DoneAfterStream
  <2> QED
    BY <2>1, <2>2, <2>3 DEF RunIsAccounted
<1>2. Spec => []RollInv
  BY RollInit, RollStep, PTL DEF Spec
<1> QED
  BY <1>1, <1>2, PTL

LEMMA VerifiedStep == RollInv /\ [Next]_vars => [Verified!Next]_(Verified!vars)
<1> SUFFICES ASSUME RollInv, [Next]_vars PROVE [Verified!Next]_(Verified!vars)
  OBVIOUS
<1>1. 2^POSW - 1 \in Nat
  BY ParamsAssumption
<1>2. CASE StartRun
  <2>1. PICK tok \in Token, p \in Pos, n \in NumPasses :
          /\ state = "IDLE" /\ Controller /\ last' = tok /\ pos' = p /\ bonus' = FALSE
          /\ argmax' = argmax
    BY <1>2 DEF StartRun, Start
  <2>2. ~seq_pass /\ ~second_pending
    BY <2>1 DEF RollInv, Phases
  <2>3. ~commit_valid'
    BY <2>1, <2>2, QuietEdge
  <2>4. After(pos', 2^POSW - 1) \in Pos
    BY <1>1, <2>1, Positions
  <2> QED
    BY <2>1, <2>3, <2>4 DEF Verified!Next, Verified!Prompt, Pos, Verified!Pos
<1>3. CASE Cycle /\ seq_pass
  <2>1. Controller /\ Observe
    BY <1>3 DEF Cycle
  <2>2. /\ last' = verified_q /\ pos' = After(pos, 1) /\ argmax' = argmax
    BY <1>3, <2>1, CycleEdge
  <2>3. commit_valid' = TRUE /\ commit_tok' = verified_q
    BY <1>3, <2>1, PassEdge
  <2>4. bonus' = FALSE
    BY <1>3, <2>1, <2>3 DEF Observe
  <2>5. verified_q = argmax[<<last, pos>>] /\ pos \in Pos
    BY <1>3 DEF RollInv, RollTypes, Aligned
  <2>6. After(pos', 2^POSW - 1) = pos /\ After(pos, 0) = pos
    BY <2>2, <2>5, Positions
  <2>7. Verified!Emit
    BY <2>2, <2>3, <2>4, <2>5, <2>6 DEF Verified!Emit, After, Verified!After
  <2> QED
    BY <2>7 DEF Verified!Next
<1>4. CASE Cycle /\ ~seq_pass
  <2>1. Controller /\ Observe
    BY <1>4 DEF Cycle
  <2>2. last' = last /\ pos' = pos /\ argmax' = argmax
    BY <1>4, <2>1, CycleEdge
  <2>3. ~(commit_valid' /\ ~bonus')
    BY <1>4, <2>1 DEF Observe
  <2> QED
    BY <2>2, <2>3 DEF Verified!Next, Verified!Quiet
<1>5. CASE Reset
  <2>1. last' = ZeroToken /\ pos' = 0 /\ ~commit_valid' /\ argmax' = argmax
    BY <1>5 DEF Reset, SeqReset
  <2>2. ZeroToken \in Token /\ 0 \in Pos /\ After(0, 2^POSW - 1) \in Pos
    BY <1>1, Positions, ParamsAssumption
  <2> QED
    BY <2>1, <2>2 DEF Verified!Next, Verified!Prompt, Pos, Verified!Pos
<1>6. CASE UNCHANGED vars
  BY <1>6 DEF vars, seq_vars, beat, seen, Verified!vars
<1> QED
  BY <1>2, <1>3, <1>4, <1>5, <1>6 DEF Next

(* src/spec_decode_top.v: the verified beats are the model's own greedy    *)
(* decoding of the prompt, whatever the draft head answers, however long   *)
(* the models take and however the drafts are judged.                      *)
THEOREM RollingIsGreedy == Spec => ImplementsVerifiedGreedy
<1>1. Init => Verified!Init
  BY DEF Init, SeqInit, Verified!Init
<1>2. Spec => []RollInv
  BY RollInit, RollStep, PTL DEF Spec
<1> QED
  BY <1>1, <1>2, VerifiedStep, PTL DEF Spec, Verified!Spec, ImplementsVerifiedGreedy
-----------------------------------------------------------------------------
(* The batched loop.                                                       *)
BatchTypes ==
  /\ b_running \in BOOLEAN /\ b_draining \in BOOLEAN /\ b_seq_arm \in BOOLEAN
  /\ b_mdl_start \in BOOLEAN /\ b_mdl_busy \in BOOLEAN /\ b_seq_pass \in BOOLEAN
  /\ b_state \in {"IDLE", "SETUP", "LAUNCH", "MWAIT", "FEED", "DRAIN", "DONE"}
  /\ b_draft_q \in [1 .. DRAFT_K -> Token] /\ b_nd_q \in Nat
  /\ b_ocnt \in Nat /\ b_oidx \in Nat /\ b_drain_cnt \in Nat
  /\ b_pos \in Pos /\ b_base \in Pos

(* The beats queued by a pass leave one per edge, and are gone when the    *)
(* next pass is fed or the run ends.                                       *)
BatchPhases ==
  /\ b_busy => b_state # "IDLE"
  /\ b_done => b_state = "IDLE"
  /\ b_mdl_start => b_state = "MWAIT"
  /\ b_mdl_busy => b_state = "MWAIT" /\ ~b_mdl_start
  /\ b_seq_pass => b_state = "SETUP" \/ (b_state = "DRAIN" /\ b_drain_cnt = 0)
  /\ b_state # "IDLE" => b_running \/ b_seq_arm

QueueLeaves ==
  b_draining =>
    /\ ~b_seq_pass /\ 1 <= b_oidx /\ b_oidx < b_ocnt /\ b_ocnt <= DRAFT_K + 1
    /\ \/ b_state = "LAUNCH"
       \/ b_state = "MWAIT" /\ b_mdl_start /\ 2 <= b_oidx
       \/ b_state = "MWAIT" /\ ~b_mdl_start /\ 3 <= b_oidx
       \/ b_state = "FEED" /\ 4 <= b_oidx
       \/ b_state = "DRAIN" /\ b_drain_cnt <= b_oidx

(* What the model chose for the batch, given the token before it and its   *)
(* position.                                                               *)
Chosen(tok, p) ==
  /\ b_truth_q[1] = b_argmax[<<tok, p>>]
  /\ \A j \in 1 .. DRAFT_K : b_truth_q[j + 1] = b_argmax[<<b_draft_q[j], p>>]

(* The pass about to be judged and the beats queued continue the chain of  *)
(* the model's choices, and end at the cursor.                             *)
Chained ==
  /\ b_state = "FEED" => Chosen(b_cur_tok, b_cur_pos)
  /\ b_seq_pass => /\ Chosen(b_last, b_pos)
                   /\ b_cur_tok = B!frontier_tok /\ b_cur_pos = After(b_pos, B!pos_adv)
  /\ b_draining => /\ b_obuf[b_oidx] = b_argmax[<<b_last, b_base>>]
                   /\ \A j \in b_oidx + 1 .. b_ocnt - 1 : b_obuf[j] = b_argmax[<<b_obuf[j - 1], b_base>>]
                   /\ b_pos = After(b_base, b_oidx)
                   /\ b_cur_tok = b_obuf[b_ocnt - 1] /\ b_cur_pos = After(b_base, b_ocnt)
  /\ b_state # "IDLE" /\ ~b_seq_pass /\ ~b_draining => b_cur_tok = b_last /\ b_cur_pos = b_pos

BatchInv == BatchTypes /\ BatchPhases /\ QueueLeaves /\ Chained

(* The prefix rule counts the drafts before the first wrong one, so each   *)
(* draft of the prefix is the model's choice.                              *)
LEMMA PrefixFacts ==
  ASSUME NEW dv, NEW tv, NEW nd \in Nat
  PROVE  /\ B!acc_prefix(dv, tv, nd) \in 0 .. nd
         /\ \A j \in 1 .. B!acc_prefix(dv, tv, nd) : dv[j] = tv[j]
<1> DEFINE S == {j \in 1 .. nd : \A i \in 1 .. j : dv[i] = tv[i]}
           k == Cardinality(S)
<1>1. B!acc_prefix(dv, tv, nd) = k
  BY DEF B!acc_prefix, B!Cardinality, Cardinality
<1>2. IsFiniteSet(1 .. nd) /\ Cardinality(1 .. nd) = nd
  BY FS_Interval
<1>3. IsFiniteSet(S) /\ k \in Nat /\ k <= nd
  BY <1>2, FS_Subset, FS_CardinalityType
<1>4. S \in SUBSET (1 .. k)
  <2>1. ASSUME NEW j \in S PROVE j <= k
    <3>1. j \in 1 .. nd /\ 1 .. j \in SUBSET S
      OBVIOUS
    <3>2. Cardinality(1 .. j) = j
      BY <3>1, FS_Interval
    <3> HIDE DEF S
    <3>3. Cardinality(1 .. j) <= k
      BY <1>3, <3>1, FS_Subset
    <3> QED
      BY <3>2, <3>3
  <2> QED
    BY <1>3, <2>1
<1>5. S = 1 .. k
  <2>1. IsFiniteSet(1 .. k) /\ Cardinality(1 .. k) = k
    BY <1>3, FS_Interval
  <2> HIDE DEF S
  <2> QED
    BY <1>4, <2>1, FS_Subset
<1>6. \A j \in S : dv[j] = tv[j]
  OBVIOUS
<1> HIDE DEF S, k
<1> QED
  BY <1>1, <1>3, <1>5, <1>6

(* The top's copy of the rule counts the same drafts as the controller's.  *)
LEMMA CopiesAgree ==
  ASSUME NEW dv, NEW tv, NEW nd \in 0 .. DRAFT_K
  PROVE  B!top_acc_prefix(dv, tv, nd) = B!acc_prefix(dv, tv, nd)
<1> DEFINE S == {j \in 1 .. nd : \A i \in 1 .. j : dv[i] = tv[i]}
           T == {j \in 1 .. DRAFT_K : \A i \in 1 .. j : i <= nd /\ dv[i] = tv[i]}
<1>1. DRAFT_K \in Nat
  BY DraftsAssumption
<1>2. S = T
  BY <1>1
<1> QED
  BY <1>2 DEF B!acc_prefix, B!top_acc_prefix, B!Cardinality, Cardinality

LEMMA BatchInit == B!Init => BatchInv
<1> SUFFICES ASSUME B!Init PROVE BatchInv
  OBVIOUS
<1>1. BatchTypes
  <2>1. ZeroToken \in Token
    BY ParamsAssumption
  <2> QED
    BY <2>1, Positions DEF B!Init, B!SeqInit, BatchTypes
<1>2. BatchPhases /\ QueueLeaves /\ Chained
  BY DEF B!Init, B!SeqInit, BatchPhases, QueueLeaves, Chained
<1> QED
  BY <1>1, <1>2 DEF BatchInv

(* What an edge of the controller makes of the queue and the stream.       *)
LEMMA BatchPassEdge ==
  ASSUME BatchInv, B!Controller, b_seq_pass
  PROVE  /\ b_running' = TRUE
         /\ b_commit_valid' = TRUE /\ b_commit_tok' = b_truth_q[1]
         /\ b_oidx' = 1 /\ b_ocnt' = B!pos_adv /\ B!pos_adv \in 1 .. DRAFT_K + 1
         /\ b_draining' = (B!pos_adv # 1)
         /\ \A j \in 1 .. DRAFT_K : b_obuf'[j] = b_truth_q[j + 1]
         /\ \A j \in 1 .. B!pos_adv - 1 : b_draft_q[j] = b_truth_q[j]
<1> DEFINE nd == B!Clamp(b_nd_q)
           k == B!acc_prefix(b_draft_q, b_truth_q, nd)
<1>1. B!SeqPass(b_draft_q, b_truth_q, b_nd_q) /\ b_running' = TRUE
  BY DEF B!Controller, B!SeqEdge, BatchInv, BatchTypes, BatchPhases
<1>2. nd \in 0 .. DRAFT_K /\ DRAFT_K \in Nat
  BY DraftsAssumption DEF B!Clamp, BatchInv, BatchTypes
<1>3. B!pos_adv = k + 1
  <2>1. B!nd_w = nd
    BY DEF B!nd_w, B!Clamp
  <2>2. B!prefix = k
    <3> HIDE DEF nd
    <3> QED
      BY <1>2, <2>1, CopiesAgree DEF B!prefix
  <2> HIDE DEF k
  <2> QED
    BY <2>2 DEF B!pos_adv
<1>4. /\ b_commit_valid' = TRUE /\ b_commit_tok' = b_truth_q[1]
      /\ b_obuf' = [j \in 0 .. DRAFT_K |-> IF j = 0 THEN b_obuf[0] ELSE b_truth_q[j + 1]]
      /\ b_ocnt' = k + 1 /\ b_oidx' = 1 /\ b_draining' = (k >= 1)
  BY <1>1 DEF B!SeqPass
<1> HIDE DEF nd
<1>5. k \in 0 .. nd /\ \A j \in 1 .. k : b_draft_q[j] = b_truth_q[j]
  BY <1>2, PrefixFacts
<1> HIDE DEF k
<1>6. B!pos_adv \in 1 .. DRAFT_K + 1 /\ B!pos_adv - 1 = k /\ (k >= 1 <=> B!pos_adv # 1)
  BY <1>2, <1>3, <1>5
<1>7. \A j \in 1 .. DRAFT_K : b_obuf'[j] = b_truth_q[j + 1]
  BY <1>2, <1>4
<1> QED
  BY <1>1, <1>3, <1>4, <1>5, <1>6, <1>7

LEMMA BatchQuietEdge ==
  ASSUME BatchInv, B!Controller, ~b_seq_pass
  PROVE  /\ b_running' = (b_running \/ b_seq_arm) /\ b_obuf' = b_obuf /\ b_ocnt' = b_ocnt
         /\ b_draining' \in BOOLEAN /\ b_oidx' \in Nat /\ b_commit_valid' \in BOOLEAN
         /\ b_draining => /\ b_commit_valid' = TRUE /\ b_commit_tok' = b_obuf[b_oidx]
                          /\ b_oidx' = b_oidx + 1 /\ b_draining' = (b_ocnt > b_oidx + 1)
         /\ ~b_draining => /\ b_commit_valid' = FALSE /\ b_oidx' = b_oidx
                           /\ b_draining' = FALSE
<1>1. b_draining \in BOOLEAN /\ b_oidx \in Nat /\ b_ocnt \in Nat
  BY DEF BatchInv, BatchTypes
<1>2. b_running' = (b_running \/ b_seq_arm) /\ (B!SeqDrain \/ B!SeqIdle)
  BY DEF B!Controller, B!SeqEdge
<1>3. CASE b_draining
  <2>1. B!SeqDrain
    BY <1>2, <1>3 DEF B!SeqIdle
  <2>2. b_draining' = ~(b_oidx + 1 >= b_ocnt) /\ b_oidx' = b_oidx + 1
    BY <2>1 DEF B!SeqDrain, B!last_beat
  <2>3. b_commit_valid' = TRUE /\ b_commit_tok' = b_obuf[b_oidx] /\ b_obuf' = b_obuf /\ b_ocnt' = b_ocnt
    BY <2>1 DEF B!SeqDrain
  <2> QED
    BY <1>1, <1>2, <1>3, <2>2, <2>3
<1>4. CASE ~b_draining
  <2>1. B!SeqIdle
    BY <1>2, <1>4 DEF B!SeqDrain
  <2>2. /\ b_commit_valid' = FALSE /\ b_obuf' = b_obuf /\ b_ocnt' = b_ocnt /\ b_oidx' = b_oidx
        /\ b_draining' = b_draining
    BY <2>1 DEF B!SeqIdle, B!drain
  <2> QED
    BY <1>1, <1>2, <1>4, <2>2
<1> QED
  BY <1>3, <1>4

(* A remainder is unique, so that it may be taken before or after a sum.   *)
LEMMA Times ==
  ASSUME NEW m \in Nat \ {0}, NEW d \in Int
  PROVE  (d >= 1 => m * d >= m) /\ (d <= -1 => m * d <= -m)
  OBVIOUS

LEMMA RemainderIsUnique ==
  ASSUME NEW m \in Nat \ {0}, NEW x \in Int, NEW q \in Int, NEW r \in 0 .. m - 1, x = m * q + r
  PROVE  x % m = r
<1> DEFINE p == x \div m
           s == x % m
<1>1. p \in Int /\ s \in 0 .. m - 1 /\ x = m * p + s
  OBVIOUS
<1> HIDE DEF p, s
<1>2. m * (p - q) = r - s
  <2>1. m * (p - q) = m * p - m * q
    BY <1>1
  <2> QED
    BY <1>1, <2>1
<1>3. p - q \in Int /\ ~(p - q >= 1) /\ ~(p - q <= -1)
  BY <1>1, <1>2, Times
<1>4. p = q
  BY <1>1, <1>3
<1>5. r = s
  BY <1>1, <1>4
<1> QED
  BY <1>5 DEF s

LEMMA RemainderOfSum ==
  ASSUME NEW m \in Nat \ {0}, NEW a \in Int, NEW n \in Int
  PROVE  ((a % m) + n) % m = (a + n) % m
<1> DEFINE p == a \div m
           s == a % m
           p2 == (s + n) \div m
           s2 == (s + n) % m
<1>1. p \in Int /\ s \in Int /\ a = m * p + s
  OBVIOUS
<1> HIDE DEF p, s
<1>2. p2 \in Int /\ s2 \in 0 .. m - 1 /\ s + n = m * p2 + s2
  BY <1>1
<1> HIDE DEF p2, s2
<1>3. a + n = m * (p + p2) + s2
  <2>1. m * (p + p2) = m * p + m * p2
    BY <1>1, <1>2
  <2> QED
    BY <1>1, <1>2, <2>1
<1>4. (a + n) % m = s2
  <2>1. a + n \in Int /\ p + p2 \in Int
    BY <1>1, <1>2
  <2> QED
    BY <1>2, <1>3, <2>1, RemainderIsUnique
<1> QED
  BY <1>4 DEF s, s2

LEMMA After2 ==
  /\ \A p \in Pos, m, n \in Nat : After(After(p, m), n) = After(p, m + n)
  /\ \A p \in Pos, n \in Nat : After(p, n) \in Pos
<1>1. ASSUME NEW p \in Pos, NEW m \in Nat, NEW n \in Nat
      PROVE  After(After(p, m), n) = After(p, m + n)
  <2> DEFINE M == 2^POSW
             a == p + m
  <2>1. M \in Nat \ {0} /\ a \in Nat /\ n \in Nat /\ p \in Nat
    BY ParamsAssumption DEF Pos
  <2>2. ((a % M) + n) % M = (a + n) % M
    <3> HIDE DEF M, a
    <3>1. a \in Int /\ n \in Int
      BY <2>1
    <3> QED
      BY <2>1, <3>1, RemainderOfSum
  <2>3. a + n = p + (m + n)
    BY <2>1
  <2> QED
    BY <2>2, <2>3 DEF After
<1> QED
  BY <1>1, Positions

LEMMA BatchCycleTypes ==
  ASSUME BatchInv, NEW mdl_done \in BOOLEAN, B!Loop(mdl_done), B!Controller, B!Observe
  PROVE  BatchTypes'
<1>1. /\ b_state \in {"IDLE", "SETUP", "LAUNCH", "MWAIT", "FEED", "DRAIN", "DONE"}
      /\ b_mdl_start \in BOOLEAN /\ b_mdl_busy \in BOOLEAN /\ b_seq_pass \in BOOLEAN
      /\ b_running \in BOOLEAN /\ b_draining \in BOOLEAN /\ b_seq_arm \in BOOLEAN
      /\ b_draft_q \in [1 .. DRAFT_K -> Token] /\ b_nd_q \in Nat
      /\ b_ocnt \in Nat /\ b_oidx \in Nat /\ b_drain_cnt \in Nat
      /\ b_pos \in Pos /\ b_base \in Pos /\ DRAFT_K \in Nat
  BY DraftsAssumption DEF BatchInv, BatchTypes
<1>2. /\ b_running' \in BOOLEAN /\ b_draining' \in BOOLEAN /\ b_ocnt' \in Nat /\ b_oidx' \in Nat
      /\ b_commit_valid' \in BOOLEAN
  <2>1. CASE b_seq_pass
    BY <1>1, <2>1, BatchPassEdge
  <2>2. CASE ~b_seq_pass
    BY <1>1, <2>2, BatchQuietEdge
  <2> QED
    BY <2>1, <2>2
<1>3. b_pos' \in Pos /\ b_base' \in Pos
  <2>1. b_pos' = (IF b_commit_valid' THEN After(b_pos, 1) ELSE b_pos)
        /\ b_base' = (IF b_seq_pass THEN b_pos ELSE b_base)
    BY DEF B!Observe, B!After, After
  <2> QED
    BY <1>1, <2>1, After2
<1>4. b_mdl_busy' \in BOOLEAN
  BY <1>1 DEF B!Loop
<1>5. \E start, arm, pass \in BOOLEAN : B!Pulse(start, arm, pass)
  BY DEF B!Loop, B!Idle, B!Setup, B!Launch, B!ModelWait, B!Feed, B!Drain, B!Done
<1>6. b_mdl_start' \in BOOLEAN /\ b_seq_arm' \in BOOLEAN /\ b_seq_pass' \in BOOLEAN
  BY <1>5 DEF B!Pulse
<1>7. b_state' \in {"IDLE", "SETUP", "LAUNCH", "MWAIT", "FEED", "DRAIN", "DONE"}
  BY <1>1 DEF B!Loop, B!Idle, B!Setup, B!Launch, B!ModelWait, B!Feed, B!Drain, B!Done
<1>8. b_drain_cnt' \in Nat
  <2>1. CASE B!Idle
    BY <1>1, <2>1 DEF B!Idle
  <2>2. CASE \E drafts \in B!Drafts, n \in B!NDraft : B!Setup(drafts, n)
    BY <1>1, <2>2 DEF B!Setup
  <2>3. CASE B!Launch
    BY <1>1, <2>3 DEF B!Launch
  <2>4. CASE B!ModelWait(mdl_done)
    BY <1>1, <2>4 DEF B!ModelWait
  <2>5. CASE B!Feed
    BY <1>1, <2>5 DEF B!Feed
  <2>6. CASE B!Drain
    BY <1>1, <2>6 DEF B!Drain
  <2>7. CASE B!Done
    BY <1>1, <2>7 DEF B!Done
  <2> QED
    BY <2>1, <2>2, <2>3, <2>4, <2>5, <2>6, <2>7 DEF B!Loop
<1>9. b_draft_q' \in [1 .. DRAFT_K -> Token]
  BY <1>1 DEF B!Loop, B!Idle, B!Setup, B!Launch, B!ModelWait, B!Feed, B!Drain, B!Done, B!latched, B!Drafts
<1>10. b_nd_q' \in Nat
  <2>1. \A n \in B!NDraft : n \in Nat
    BY DEF B!NDraft
  <2> QED
    BY <1>1, <2>1 DEF B!Loop, B!Idle, B!Setup, B!Launch, B!ModelWait, B!Feed, B!Drain, B!Done, B!latched
<1> QED
  BY <1>2, <1>3, <1>4, <1>6, <1>7, <1>8, <1>9, <1>10 DEF BatchTypes

(* An edge keeps the chain, up to a cursor that does not move.             *)
LEMMA ChainEdge ==
  ASSUME BatchInv, B!Controller, B!Observe, b_state # "IDLE"
  PROVE  /\ b_draining' =>
              /\ b_obuf'[b_oidx'] = b_argmax[<<b_last', b_base'>>]
              /\ \A j \in b_oidx' + 1 .. b_ocnt' - 1 : b_obuf'[j] = b_argmax[<<b_obuf'[j - 1], b_base'>>]
              /\ b_pos' = After(b_base', b_oidx')
              /\ b_cur_tok = b_obuf'[b_ocnt' - 1] /\ b_cur_pos = After(b_base', b_ocnt')
         /\ ~b_draining' => b_cur_tok = b_last' /\ b_cur_pos = b_pos'
<1>1. /\ b_argmax' = b_argmax
      /\ b_last' = IF b_commit_valid' THEN b_commit_tok' ELSE b_last
      /\ b_pos' = IF b_commit_valid' THEN After(b_pos, 1) ELSE b_pos
      /\ b_base' = IF b_seq_pass THEN b_pos ELSE b_base
  BY DEF B!Observe, B!After, After
<1>2. /\ b_pos \in Pos /\ b_base \in Pos /\ b_oidx \in Nat /\ b_ocnt \in Nat /\ DRAFT_K \in Nat
      /\ QueueLeaves /\ Chained
  BY DraftsAssumption DEF BatchInv, BatchTypes
<1>3. CASE b_seq_pass
  <2> DEFINE k == B!pos_adv
  <2>1. /\ b_last' = b_truth_q[1] /\ b_pos' = After(b_pos, 1) /\ b_base' = b_pos
        /\ b_oidx' = 1 /\ b_ocnt' = k /\ k \in 1 .. DRAFT_K + 1 /\ b_draining' = (k # 1)
        /\ \A j \in 1 .. DRAFT_K : b_obuf'[j] = b_truth_q[j + 1]
        /\ \A j \in 1 .. k - 1 : b_draft_q[j] = b_truth_q[j]
    BY <1>1, <1>3, BatchPassEdge
  <2>2. /\ b_cur_tok = b_truth_q[k] /\ b_cur_pos = After(b_pos, k)
        /\ \A j \in 1 .. DRAFT_K : b_truth_q[j + 1] = b_argmax[<<b_draft_q[j], b_pos>>]
    BY <1>2, <1>3 DEF Chained, Chosen, B!frontier_tok, B!pos_adv
  <2> HIDE DEF k
  <2>3. CASE k = 1
    BY <2>1, <2>2, <2>3
  <2>4. CASE k # 1
    <3>1. \A j \in 1 .. k - 1 : /\ j \in 1 .. DRAFT_K /\ b_obuf'[j] = b_truth_q[j + 1]
                               /\ b_truth_q[j + 1] = b_argmax[<<b_truth_q[j], b_pos>>]
      BY <1>2, <2>1, <2>2, SMTT(30)
    <3>2. b_obuf'[b_oidx'] = b_argmax[<<b_last', b_base'>>]
      BY <2>1, <2>4, <3>1
    <3>3. ASSUME NEW j \in b_oidx' + 1 .. b_ocnt' - 1
          PROVE  b_obuf'[j] = b_argmax[<<b_obuf'[j - 1], b_base'>>]
      <4>1. j \in 1 .. k - 1 /\ j - 1 \in 1 .. k - 1 /\ (j - 1) + 1 = j
        BY <2>1
      <4> QED
        BY <2>1, <3>1, <4>1
    <3>4. b_cur_tok = b_obuf'[b_ocnt' - 1]
      <4>1. k - 1 \in 1 .. k - 1 /\ (k - 1) + 1 = k
        BY <2>1, <2>4
      <4> QED
        BY <2>1, <2>2, <3>1, <4>1
    <3> QED
      BY <2>1, <2>2, <2>4, <3>2, <3>3, <3>4
  <2> QED
    BY <2>3, <2>4
<1>4. CASE ~b_seq_pass /\ b_draining
  <2>1. /\ b_last' = b_obuf[b_oidx] /\ b_pos' = After(b_pos, 1) /\ b_base' = b_base
        /\ b_oidx' = b_oidx + 1 /\ b_ocnt' = b_ocnt /\ b_obuf' = b_obuf
        /\ b_draining' = (b_ocnt > b_oidx + 1)
    BY <1>1, <1>4, BatchQuietEdge
  <2>2. /\ \A j \in b_oidx + 1 .. b_ocnt - 1 : b_obuf[j] = b_argmax[<<b_obuf[j - 1], b_base>>]
        /\ b_pos = After(b_base, b_oidx)
        /\ b_cur_tok = b_obuf[b_ocnt - 1] /\ b_cur_pos = After(b_base, b_ocnt)
        /\ b_oidx < b_ocnt
    BY <1>2, <1>4 DEF Chained, QueueLeaves
  <2>3. b_pos' = After(b_base, b_oidx + 1)
    <3>1. After(After(b_base, b_oidx), 1) = After(b_base, b_oidx + 1)
      BY <1>2, After2
    <3> QED
      BY <2>1, <2>2, <3>1
  <2>4. CASE b_ocnt > b_oidx + 1
    <3>1. b_oidx + 1 \in b_oidx + 1 .. b_ocnt - 1 /\ (b_oidx + 1) - 1 = b_oidx
      BY <1>2, <2>4
    <3>2. b_obuf[b_oidx + 1] = b_argmax[<<b_obuf[b_oidx], b_base>>]
      BY <2>2, <3>1
    <3>3. \A j \in (b_oidx + 1) + 1 .. b_ocnt - 1 : j \in b_oidx + 1 .. b_ocnt - 1
      BY <1>2
    <3> QED
      BY <2>1, <2>2, <2>3, <2>4, <3>2, <3>3
  <2>5. CASE ~(b_ocnt > b_oidx + 1)
    <3>1. b_ocnt = b_oidx + 1 /\ b_ocnt - 1 = b_oidx
      BY <1>2, <2>2, <2>5
    <3> QED
      BY <2>1, <2>2, <2>3, <2>5, <3>1
  <2> QED
    BY <2>4, <2>5
<1>5. CASE ~b_seq_pass /\ ~b_draining
  <2>1. b_last' = b_last /\ b_pos' = b_pos /\ b_draining' = FALSE
    BY <1>1, <1>5, BatchQuietEdge
  <2> QED
    BY <1>2, <1>5, <2>1 DEF Chained
<1> QED
  BY <1>3, <1>4, <1>5

LEMMA BatchCycleStep ==
  ASSUME BatchInv, NEW mdl_done \in BOOLEAN, B!Loop(mdl_done), B!Controller, B!Observe
  PROVE  BatchInv'
<1>1. BatchTypes'
  BY BatchCycleTypes
<1>2. /\ BatchTypes /\ BatchPhases /\ QueueLeaves /\ Chained /\ DRAFT_K \in 2 .. 4
      /\ b_oidx \in Nat /\ b_ocnt \in Nat /\ b_drain_cnt \in Nat
  BY DraftsAssumption DEF BatchInv, BatchTypes
<1>3. /\ mdl_done => b_mdl_busy
      /\ b_mdl_busy' = (b_mdl_start \/ (b_mdl_busy /\ ~mdl_done))
  BY DEF B!Loop
<1>4. b_running' = (b_running \/ b_seq_arm) \/ b_running' = TRUE
  BY BatchPassEdge, BatchQuietEdge
<1>5. b_draining' =>
        /\ 1 <= b_oidx' /\ b_oidx' < b_ocnt' /\ b_ocnt' <= DRAFT_K + 1
        /\ \/ b_seq_pass /\ b_oidx' = 1
           \/ ~b_seq_pass /\ b_draining /\ b_oidx' = b_oidx + 1 /\ b_ocnt' = b_ocnt
  <2>1. CASE b_seq_pass
    <3> DEFINE k == B!pos_adv
    <3>1. b_oidx' = 1 /\ b_ocnt' = k /\ k \in 1 .. DRAFT_K + 1 /\ b_draining' = (k # 1)
      BY <2>1, BatchPassEdge
    <3> HIDE DEF k
    <3>2. k # 1 => 1 <= 1 /\ 1 < k /\ k <= DRAFT_K + 1
      BY <1>2, <3>1
    <3> QED
      BY <2>1, <3>1, <3>2, Zenon
  <2>2. CASE ~b_seq_pass /\ b_draining
    <3>1. b_oidx' = b_oidx + 1 /\ b_ocnt' = b_ocnt /\ b_draining' = (b_ocnt > b_oidx + 1)
      BY <2>2, BatchQuietEdge
    <3>2. b_ocnt <= DRAFT_K + 1
      BY <1>2, <2>2 DEF QueueLeaves
    <3>3. b_ocnt > b_oidx + 1 => 1 <= b_oidx + 1 /\ b_oidx + 1 < b_ocnt
      BY <1>2
    <3> QED
      BY <2>2, <3>1, <3>2, <3>3, Zenon
  <2>3. CASE ~b_seq_pass /\ ~b_draining
    BY <2>3, BatchQuietEdge
  <2> QED
    BY <2>1, <2>2, <2>3
<1>6. b_argmax' = b_argmax
  BY DEF B!Observe
<1>7. ASSUME b_state # "IDLE", b_cur_tok' = b_cur_tok, b_cur_pos' = b_cur_pos, ~b_seq_pass',
             b_state' = "FEED" => Chosen(b_cur_tok, b_cur_pos)'
      PROVE  Chained'
  <2>1. b_draining' =>
          /\ b_obuf'[b_oidx'] = b_argmax'[<<b_last', b_base'>>]
          /\ \A j \in b_oidx' + 1 .. b_ocnt' - 1 : b_obuf'[j] = b_argmax'[<<b_obuf'[j - 1], b_base'>>]
          /\ b_pos' = After(b_base', b_oidx')
          /\ b_cur_tok' = b_obuf'[b_ocnt' - 1] /\ b_cur_pos' = After(b_base', b_ocnt')
    BY <1>6, <1>7, ChainEdge
  <2>2. ~b_draining' => b_cur_tok' = b_last' /\ b_cur_pos' = b_pos'
    BY <1>7, ChainEdge
  <2>3. ~b_seq_pass' /\ (b_state' = "FEED" => Chosen(b_cur_tok, b_cur_pos)')
    BY <1>7
  <2> QED
    BY <2>1, <2>2, <2>3 DEF Chained
<1> DEFINE moves == b_cur_tok' = b_cur_tok /\ b_cur_pos' = b_cur_pos /\ ~b_seq_pass' /\ ~b_mdl_start'
<1>8. CASE B!Idle
  <2>1. b_state = "IDLE" /\ b_state' = "IDLE" /\ ~b_busy' /\ ~b_done' /\ ~b_mdl_start' /\ ~b_seq_pass'
    BY <1>8 DEF B!Idle, B!Pulse
  <2>2. ~b_seq_pass /\ ~b_draining /\ ~b_mdl_busy
    BY <1>2, <2>1 DEF BatchPhases, QueueLeaves
  <2>3. ~b_draining'
    BY <1>5, <2>2
  <2> QED
    BY <1>1, <1>2, <1>3, <2>1, <2>2, <2>3 DEF BatchInv, BatchPhases, QueueLeaves, Chained
<1>9. CASE \E drafts \in B!Drafts, n \in B!NDraft : B!Setup(drafts, n)
  <2>1. /\ b_state = "SETUP" /\ b_state' = "LAUNCH" /\ b_done' = b_done /\ moves
    BY <1>9 DEF B!Setup, B!Pulse, B!cursor
  <2>2. ~b_draining /\ ~b_mdl_busy /\ ~b_mdl_start
    BY <1>2, <2>1 DEF BatchPhases, QueueLeaves
  <2>3. BatchPhases'
    BY <1>2, <1>3, <1>4, <2>1, <2>2 DEF BatchPhases
  <2>4. QueueLeaves'
    BY <1>5, <2>1, <2>2 DEF QueueLeaves
  <2>5. Chained'
    BY <1>7, <2>1
  <2> QED
    BY <1>1, <2>3, <2>4, <2>5 DEF BatchInv
<1>10. CASE B!Launch
  <2>1. /\ b_state = "LAUNCH" /\ b_state' = "MWAIT" /\ b_done' = b_done /\ ~b_seq_pass' /\ b_mdl_start'
        /\ b_cur_tok' = b_cur_tok /\ b_cur_pos' = b_cur_pos
    BY <1>10 DEF B!Launch, B!Pulse, B!cursor
  <2>2. ~b_seq_pass /\ ~b_mdl_busy /\ ~b_mdl_start
    BY <1>2, <2>1 DEF BatchPhases
  <2>3. BatchPhases'
    BY <1>2, <1>3, <1>4, <2>1, <2>2 DEF BatchPhases
  <2>4. QueueLeaves'
    <3>1. b_draining' => 1 <= b_oidx /\ b_oidx' = b_oidx + 1
      BY <1>2, <1>5, <2>2 DEF QueueLeaves
    <3>2. 1 <= b_oidx => 2 <= b_oidx + 1
      BY <1>2
    <3>3. b_draining' => 2 <= b_oidx'
      BY <3>1, <3>2
    <3> QED
      BY <1>5, <2>1, <3>3 DEF QueueLeaves
  <2>5. Chained'
    BY <1>7, <2>1
  <2> QED
    BY <1>1, <2>3, <2>4, <2>5 DEF BatchInv
<1>11. CASE B!ModelWait(mdl_done)
  <2>1. b_state = "MWAIT" /\ b_done' = b_done /\ moves
    BY <1>11 DEF B!ModelWait, B!Pulse, B!cursor
  <2>2. ~b_seq_pass
    BY <1>2, <2>1 DEF BatchPhases
  <2>3. CASE mdl_done
    <3>1. b_mdl_busy /\ ~b_mdl_start
      BY <1>2, <1>3, <2>3 DEF BatchPhases
    <3>2. b_state' = "FEED" /\ b_truth_q' = B!Answer /\ b_draft_q' = b_draft_q
      BY <1>11, <2>3 DEF B!ModelWait
    <3>3. Chosen(b_cur_tok, b_cur_pos)'
      <4>1. b_draft_q \in Seq(Token) /\ Len(b_draft_q) = DRAFT_K /\ DRAFT_K \in Nat
        BY <1>2, LenProperties DEF BatchTypes
      <4>2. /\ B!Batch[1] = b_cur_tok
            /\ \A j \in 1 .. DRAFT_K : B!Batch[j + 1] = b_draft_q[j]
        BY <4>1 DEF B!Batch
      <4>3. \A j \in 1 .. DRAFT_K + 1 : b_truth_q'[j] = b_argmax[<<B!Batch[j], b_cur_pos>>]
        BY <3>2 DEF B!Answer
      <4>4. 1 \in 1 .. DRAFT_K + 1 /\ \A j \in 1 .. DRAFT_K : j + 1 \in 1 .. DRAFT_K + 1
        BY <4>1
      <4> HIDE DEF moves
      <4>5. /\ b_truth_q'[1] = b_argmax[<<b_cur_tok, b_cur_pos>>]
            /\ \A j \in 1 .. DRAFT_K : b_truth_q'[j + 1] = b_argmax[<<b_draft_q[j], b_cur_pos>>]
        BY <4>2, <4>3, <4>4
      <4> USE DEF moves
      <4> QED
        BY <1>6, <2>1, <3>2, <4>5 DEF Chosen
    <3>4. BatchPhases'
      BY <1>2, <1>3, <1>4, <2>1, <2>2, <2>3, <3>1, <3>2 DEF BatchPhases
    <3>5. QueueLeaves'
      <4>1. b_draining' => 3 <= b_oidx /\ b_oidx' = b_oidx + 1
        BY <1>2, <1>5, <2>1, <2>2, <3>1 DEF QueueLeaves
      <4>2. 3 <= b_oidx => 4 <= b_oidx + 1
        BY <1>2
      <4>3. b_draining' => 4 <= b_oidx'
        BY <4>1, <4>2
      <4> QED
        BY <1>5, <2>1, <3>2, <4>3 DEF QueueLeaves
    <3>6. Chained'
      BY <1>7, <2>1, <3>3
    <3> QED
      BY <1>1, <3>4, <3>5, <3>6 DEF BatchInv
  <2>4. CASE ~mdl_done
    <3>1. b_state' = "MWAIT"
      BY <1>11, <2>1, <2>4 DEF B!ModelWait
    <3>2. BatchPhases'
      BY <1>2, <1>3, <1>4, <2>1, <2>2, <3>1 DEF BatchPhases
    <3>3. QueueLeaves'
      <4>1. b_draining' => 2 <= b_oidx /\ b_oidx' = b_oidx + 1
        BY <1>2, <1>5, <2>1, <2>2 DEF QueueLeaves
      <4>2. 2 <= b_oidx => 3 <= b_oidx + 1
        BY <1>2
      <4>3. b_draining' => 3 <= b_oidx'
        BY <4>1, <4>2
      <4> QED
        BY <1>5, <2>1, <3>1, <4>3 DEF QueueLeaves
    <3>4. Chained'
      BY <1>7, <2>1, <3>1
    <3> QED
      BY <1>1, <3>2, <3>3, <3>4 DEF BatchInv
  <2> QED
    BY <2>3, <2>4
<1>12. CASE B!Feed
  <2>1. /\ b_state = "FEED" /\ b_done' = b_done /\ b_seq_pass' /\ ~b_mdl_start'
        /\ b_cur_tok' = B!frontier_tok /\ b_cur_pos' = After(b_cur_pos, B!pos_adv)
        /\ b_draft_q' = b_draft_q /\ b_nd_q' = b_nd_q /\ b_truth_q' = b_truth_q
        /\ \/ b_state' = "DRAIN" /\ b_drain_cnt' = 0
           \/ b_state' = "SETUP"
    BY <1>12 DEF B!Feed, B!Pulse, B!latched, B!After, After
  <2>2. ~b_seq_pass /\ ~b_mdl_busy /\ ~b_mdl_start
    BY <1>2, <2>1 DEF BatchPhases
  <2>3. ~b_draining'
    <3>1. CASE b_draining
      <4>1. b_oidx' = b_oidx + 1 /\ b_ocnt' = b_ocnt /\ b_draining' = (b_ocnt > b_oidx + 1)
        BY <2>2, <3>1, BatchQuietEdge
      <4>2. 4 <= b_oidx /\ b_ocnt <= DRAFT_K + 1
        BY <1>2, <2>1, <3>1 DEF QueueLeaves
      <4>3. ~(b_ocnt > b_oidx + 1)
        BY <1>2, <4>2
      <4> QED
        BY <4>1, <4>3, Zenon
    <3>2. CASE ~b_draining
      BY <1>5, <2>2, <3>2
    <3> QED
      BY <3>1, <3>2
  <2>4. b_last' = b_cur_tok /\ b_pos' = b_cur_pos
    BY <2>1, <2>3, ChainEdge
  <2>5. BatchPhases'
    BY <1>2, <1>3, <1>4, <2>1, <2>2 DEF BatchPhases
  <2>6. QueueLeaves'
    BY <2>3 DEF QueueLeaves
  <2>7. Chosen(b_last, b_pos)'
    BY <1>2, <1>6, <2>1, <2>4 DEF Chained, Chosen
  <2>8. (B!frontier_tok)' = B!frontier_tok /\ (B!pos_adv)' = B!pos_adv
    BY <2>1 DEF B!frontier_tok, B!pos_adv, B!prefix, B!nd_w
  <2>9. b_cur_tok' = (B!frontier_tok)' /\ b_cur_pos' = After(b_pos', (B!pos_adv)')
    BY <2>1, <2>4, <2>8
  <2>10. Chained'
    BY <2>1, <2>3, <2>7, <2>9 DEF Chained
  <2> QED
    BY <1>1, <2>5, <2>6, <2>10 DEF BatchInv
<1>13. CASE B!Drain
  <2>1. /\ b_state = "DRAIN" /\ b_done' = b_done /\ moves
        /\ \/ b_drain_cnt = DRAFT_K /\ b_state' = "DONE"
           \/ b_drain_cnt # DRAFT_K /\ b_state' = "DRAIN" /\ b_drain_cnt' = b_drain_cnt + 1
    BY <1>13 DEF B!Drain, B!Pulse, B!cursor, B!drained
  <2>2. ~b_mdl_busy /\ ~b_mdl_start
    BY <1>2, <2>1 DEF BatchPhases
  <2>3. BatchPhases'
    BY <1>2, <1>3, <1>4, <2>1, <2>2 DEF BatchPhases
  <2>4. QueueLeaves'
    <3>1. CASE b_drain_cnt = DRAFT_K
      <4>1. ~b_seq_pass
        BY <1>2, <2>1, <3>1 DEF BatchPhases
      <4>2. b_draining => b_drain_cnt <= b_oidx /\ b_ocnt <= DRAFT_K + 1
        BY <1>2, <2>1 DEF QueueLeaves
      <4>3. b_draining => ~b_draining'
        <5>1. b_draining => b_draining' = (b_ocnt > b_oidx + 1)
          BY <4>1, BatchQuietEdge
        <5>2. b_draining => ~(b_ocnt > b_oidx + 1)
          BY <1>2, <3>1, <4>2
        <5> QED
          BY <5>1, <5>2, Zenon
      <4>4. ~b_draining'
        BY <1>5, <4>1, <4>3
      <4> QED
        BY <4>4 DEF QueueLeaves
    <3>2. CASE b_drain_cnt # DRAFT_K
      <4>1. b_state' = "DRAIN" /\ b_drain_cnt' = b_drain_cnt + 1
        BY <2>1, <3>2
      <4>2. ASSUME b_draining' PROVE b_drain_cnt + 1 <= b_oidx'
        <5>1. CASE b_seq_pass
          <6>1. b_oidx' = 1 /\ b_drain_cnt = 0
            BY <1>2, <1>5, <2>1, <4>2, <5>1 DEF BatchPhases
          <6> QED
            BY <6>1
        <5>2. CASE ~b_seq_pass
          <6>1. b_oidx' = b_oidx + 1 /\ b_drain_cnt <= b_oidx
            BY <1>2, <1>5, <2>1, <4>2, <5>2 DEF QueueLeaves
          <6>2. b_drain_cnt + 1 <= b_oidx + 1
            BY <1>2, <6>1
          <6> QED
            BY <6>1, <6>2
        <5> QED
          BY <5>1, <5>2
      <4> QED
        BY <1>5, <2>1, <4>1, <4>2 DEF QueueLeaves
    <3> QED
      BY <3>1, <3>2
  <2>5. Chained'
    BY <1>7, <2>1
  <2> QED
    BY <1>1, <2>3, <2>4, <2>5 DEF BatchInv
<1>14. CASE B!Done
  <2>1. b_state = "DONE" /\ b_state' = "IDLE" /\ b_busy' = FALSE /\ ~b_seq_pass' /\ ~b_mdl_start'
    BY <1>14 DEF B!Done, B!Pulse
  <2>2. ~b_seq_pass /\ ~b_draining /\ ~b_mdl_busy
    BY <1>2, <2>1 DEF BatchPhases, QueueLeaves
  <2>3. ~b_draining'
    BY <1>5, <2>2
  <2> QED
    BY <1>1, <1>2, <1>3, <2>1, <2>2, <2>3 DEF BatchInv, BatchPhases, QueueLeaves, Chained
<1> QED
  BY <1>8, <1>9, <1>10, <1>11, <1>12, <1>13, <1>14 DEF B!Loop

LEMMA BatchStep == BatchInv /\ [B!Next]_(B!vars) => BatchInv'
<1> SUFFICES ASSUME BatchInv, [B!Next]_(B!vars) PROVE BatchInv'
  OBVIOUS
<1>1. CASE B!StartRun
  <2>1. PICK tok \in Token, p \in Pos, n \in NumPasses :
          /\ B!Start(tok, p, n) /\ B!Controller /\ b_last' = tok /\ b_pos' = p /\ b_base' = p
          /\ b_mdl_busy' = b_mdl_busy
    BY <1>1 DEF B!StartRun, B!Pos, Pos
  <2>2. /\ b_state = "IDLE" /\ b_state' = "SETUP" /\ b_done' = FALSE /\ B!Pulse(FALSE, TRUE, FALSE)
        /\ b_cur_tok' = tok /\ b_cur_pos' = p
        /\ b_draft_q' = b_draft_q /\ b_nd_q' = b_nd_q /\ b_drain_cnt' = b_drain_cnt
    BY <2>1 DEF B!Start, B!latched
  <2>3. b_mdl_start' = FALSE /\ b_seq_arm' = TRUE /\ b_seq_pass' = FALSE
    BY <2>2 DEF B!Pulse
  <2>4. ~b_seq_pass /\ ~b_draining /\ ~b_mdl_busy
    BY <2>2 DEF BatchInv, BatchPhases, QueueLeaves
  <2>5. /\ b_running' = (b_running \/ b_seq_arm) /\ b_ocnt' = b_ocnt /\ b_oidx' = b_oidx
        /\ b_draining' = FALSE
    BY <2>1, <2>4, BatchQuietEdge
  <2>6. BatchTypes'
    BY <2>1, <2>2, <2>3, <2>5 DEF BatchInv, BatchTypes
  <2>7. BatchPhases' /\ QueueLeaves' /\ Chained'
    BY <2>1, <2>2, <2>3, <2>4, <2>5 DEF BatchPhases, QueueLeaves, Chained
  <2> QED
    BY <2>6, <2>7 DEF BatchInv
<1>2. CASE B!Cycle
  BY <1>2, BatchCycleStep DEF B!Cycle
<1>3. CASE B!Reset
  <2>1. /\ b_running' = FALSE /\ b_draining' = FALSE /\ b_ocnt' = 0 /\ b_oidx' = 0
    BY <1>3 DEF B!Reset, B!SeqReset
  <2>2. /\ b_state' = "IDLE" /\ b_busy' = FALSE /\ b_done' = FALSE /\ b_drain_cnt' = 0 /\ b_nd_q' = 0
        /\ b_draft_q' = [j \in 1 .. DRAFT_K |-> ZeroToken]
        /\ b_mdl_busy' = FALSE /\ b_pos' = 0 /\ b_base' = 0 /\ B!Pulse(FALSE, FALSE, FALSE)
    BY <1>3 DEF B!Reset
  <2>3. b_mdl_start' = FALSE /\ b_seq_arm' = FALSE /\ b_seq_pass' = FALSE
    BY <2>2 DEF B!Pulse
  <2>4. ZeroToken \in Token /\ 0 \in Pos
    BY ParamsAssumption, Positions
  <2>5. BatchTypes'
    BY <2>1, <2>2, <2>3, <2>4 DEF BatchTypes
  <2>6. BatchPhases' /\ QueueLeaves' /\ Chained'
    BY <2>1, <2>2, <2>3 DEF BatchPhases, QueueLeaves, Chained
  <2> QED
    BY <2>5, <2>6 DEF BatchInv
<1>4. CASE UNCHANGED B!vars
  <2>1. BatchTypes'
    BY <1>4 DEF B!vars, B!seq_vars, B!drain, B!loop, B!cursor, B!latched, B!pulses, BatchInv, BatchTypes
  <2>2. BatchPhases' /\ QueueLeaves'
    BY <1>4 DEF B!vars, B!seq_vars, B!drain, B!loop, B!cursor, B!latched, B!pulses,
                BatchInv, BatchPhases, QueueLeaves
  <2>3. Chained'
    BY <1>4 DEF B!vars, B!seq_vars, B!drain, B!loop, B!cursor, B!latched, B!pulses,
                BatchInv, Chained, Chosen, B!frontier_tok, B!pos_adv, B!prefix, B!nd_w
  <2> QED
    BY <2>1, <2>2, <2>3 DEF BatchInv
<1> QED
  BY <1>1, <1>2, <1>3, <1>4 DEF B!Next

(* The run that checks both loops takes, for the batched loop, steps of    *)
(* the batched loop or none.                                               *)
LEMMA BatchedRuns ==
  /\ MCInit => B!Init
  /\ [MCNext]_<<loop_kind, vars, batched_vars>> => [B!Next]_(B!vars)
<1>1. UNCHANGED batched_vars => UNCHANGED B!vars
  BY DEF batched_vars, B!vars, B!seq_vars, B!drain, B!beat, B!counters, B!loop, B!cursor,
         B!latched, B!pulses
<1>2. ASSUME MCNext PROVE [B!Next]_(B!vars)
  BY <1>1, <1>2 DEF MCNext, RollingDoes, BatchedDoes, B!Next
<1>3. MCInit => B!Init
  BY DEF MCInit
<1> QED
  BY <1>1, <1>2, <1>3

LEMMA BatchIsKept == MCSpec => []BatchInv /\ [][B!Next]_(B!vars)
  BY BatchedRuns, BatchInit, BatchStep, PTL DEF MCSpec

(* src/spec_batched_top.v: whenever the next pass is set up, the cursor    *)
(* it starts from is the last token committed and its position, and done   *)
(* comes after the last beat of the run.                                   *)
THEOREM CursorStaysFrontier == MCSpec => []CursorIsFrontier
<1>1. BatchInv => CursorIsFrontier
  <2> SUFFICES ASSUME BatchInv PROVE CursorIsFrontier
    OBVIOUS
  <2>1. b_busy => b_state # "IDLE"
    BY DEF BatchInv, BatchPhases
  <2>2. B!CursorIsFrontier
    BY <2>1 DEF B!CursorIsFrontier, BatchInv, Chained
  <2>3. b_done => ~b_draining /\ ~b_seq_pass
    BY DEF BatchInv, BatchPhases, QueueLeaves
  <2> QED
    BY <2>2, <2>3 DEF CursorIsFrontier, B!DoneAfterStream
<1> QED
  BY <1>1, BatchIsKept, PTL

(* A step of the batched loop is a step of the chain of the model's        *)
(* choices: a pass or a queued beat emits a token, a start or a reset      *)
(* begins a prompt, the other steps are quiet.                             *)
LEMMA PassStreamStep ==
  BatchInv /\ [B!Next]_(B!vars) => [B!PassStream!Next]_(B!PassStream!vars)
<1> SUFFICES ASSUME BatchInv, [B!Next]_(B!vars) PROVE [B!PassStream!Next]_(B!PassStream!vars)
  OBVIOUS
<1>1. /\ b_pos \in Pos /\ b_base \in Pos /\ b_oidx \in Nat /\ b_ocnt \in Nat /\ DRAFT_K \in Nat
      /\ b_seq_pass \in BOOLEAN /\ b_draining \in BOOLEAN
  BY DraftsAssumption DEF BatchInv, BatchTypes
<1>2. CASE B!StartRun
  <2>1. PICK tok \in Token, p \in Pos, n \in NumPasses :
          /\ b_state = "IDLE" /\ B!Controller /\ b_last' = tok /\ b_pos' = p /\ b_base' = p
          /\ b_argmax' = b_argmax
    BY <1>2 DEF B!StartRun, B!Start, B!Pos, Pos
  <2>2. ~b_seq_pass /\ ~b_draining
    BY <2>1 DEF BatchInv, BatchPhases, QueueLeaves
  <2>3. ~b_commit_valid'
    BY <2>1, <2>2, BatchQuietEdge
  <2> QED
    BY <2>1, <2>3 DEF B!PassStream!Next, B!PassStream!Prompt, B!out, Pos, B!PassStream!Pos
<1>3. CASE B!Cycle
  <2>1. /\ B!Controller /\ b_argmax' = b_argmax
        /\ b_last' = IF b_commit_valid' THEN b_commit_tok' ELSE b_last
        /\ b_pos' = IF b_commit_valid' THEN After(b_pos, 1) ELSE b_pos
        /\ b_base' = IF b_seq_pass THEN b_pos ELSE b_base
    BY <1>3 DEF B!Cycle, B!Observe, B!After, After
  <2>2. CASE b_seq_pass
    <3>1. b_commit_valid' = TRUE /\ b_commit_tok' = b_truth_q[1] /\ b_base' = b_pos
      BY <2>1, <2>2, BatchPassEdge
    <3>2. b_truth_q[1] = b_argmax[<<b_last, b_pos>>]
      BY <2>2 DEF BatchInv, Chained, Chosen
    <3>3. b_pos = After(b_pos, 0) /\ 0 \in 0 .. (DRAFT_K + 1) - 1
      BY <1>1, Positions
    <3>4. B!PassStream!Emit
      BY <2>1, <3>1, <3>2, <3>3 DEF B!PassStream!Emit, B!out, After, B!PassStream!After
    <3> QED
      BY <3>4 DEF B!PassStream!Next
  <2>3. CASE ~b_seq_pass /\ b_draining
    <3>1. b_commit_valid' = TRUE /\ b_commit_tok' = b_obuf[b_oidx] /\ b_base' = b_base
      BY <2>1, <2>3, BatchQuietEdge
    <3>2. /\ b_obuf[b_oidx] = b_argmax[<<b_last, b_base>>] /\ b_pos = After(b_base, b_oidx)
          /\ b_oidx < b_ocnt /\ b_ocnt <= DRAFT_K + 1
      BY <2>3 DEF BatchInv, Chained, QueueLeaves
    <3>3. b_oidx \in 0 .. (DRAFT_K + 1) - 1
      BY <1>1, <3>2
    <3>4. B!PassStream!Emit
      BY <2>1, <3>1, <3>2, <3>3 DEF B!PassStream!Emit, B!out, After, B!PassStream!After
    <3> QED
      BY <3>4 DEF B!PassStream!Next
  <2>4. CASE ~b_seq_pass /\ ~b_draining
    <3>1. ~b_commit_valid'
      BY <2>1, <2>4, BatchQuietEdge
    <3> QED
      BY <2>1, <2>4, <3>1 DEF B!PassStream!Next, B!PassStream!Quiet, B!out
  <2> QED
    BY <1>1, <2>2, <2>3, <2>4
<1>4. CASE B!Reset
  <2>1. /\ b_last' = ZeroToken /\ b_pos' = 0 /\ b_base' = 0 /\ ~b_commit_valid'
        /\ b_argmax' = b_argmax
    BY <1>4 DEF B!Reset, B!SeqReset
  <2>2. ZeroToken \in Token /\ 0 \in Pos
    BY Positions, ParamsAssumption
  <2> QED
    BY <2>1, <2>2 DEF B!PassStream!Next, B!PassStream!Prompt, B!out, Pos, B!PassStream!Pos
<1>5. CASE UNCHANGED B!vars
  BY <1>5 DEF B!vars, B!seq_vars, B!beat, B!out, B!PassStream!vars
<1> QED
  BY <1>2, <1>3, <1>4, <1>5 DEF B!Next

(* src/spec_batched_top.v: the committed stream is the chain of the        *)
(* model's own choices, whatever is drafted and however long the model     *)
(* takes; each pass is evaluated at the position of the token before it.   *)
THEOREM BatchedIsChain == MCSpec => ImplementsPassStream
<1>1. B!Init => B!PassStream!Init
  BY DEF B!Init, B!SeqInit, B!PassStream!Init, B!out
<1> QED
  BY <1>1, BatchedRuns, BatchIsKept, PassStreamStep, PTL
     DEF MCSpec, ImplementsPassStream, B!ImplementsPassStream, B!PassStream!Spec
=============================================================================
