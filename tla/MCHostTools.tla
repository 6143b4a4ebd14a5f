------------------------------ MODULE MCHostTools ------------------------------
(***************************************************************************)
(* The host's planning tools and its validation gate, checked in one run:  *)
(* a behaviour draws one selection of experts and hands it to one of the   *)
(* tools, or runs the gate.                                                *)
(***************************************************************************)
EXTENDS FlashLayout, ValidationGate

VARIABLE job     \* "draw", then "replay", "pack" or "measure"; or "gate"

(* Expert 5 is fetched with two others at a time: those that are never      *)
(* fetched together are cheapest on one channel, where the cap keeps one of *)
(* them away.                                                               *)
MCDraws(l) ==
  IF l = 0 THEN {<< 0, 5, 6 >>, << 5, 4, 1 >>, << 5, 2, 3 >>}
  ELSE {<< 1, 3, 0 >>, << 4, 2, 6 >>}
MCShuffles == {[e \in 0 .. E - 1 |-> E - 1 - e], [e \in 0 .. E - 1 |-> (2 * e + 1) % E]}

(* Two tokens, two outputs; the reference has a tie, a zero, a negative, a *)
(* NaN or infinities.                                                      *)
MCRows == {<< 0, 1 >>, << 1, 0 >>, << -1, -1 >>, << 3, 3 >>, << NaN, 1 >>, << NegInf, Inf >>}
MCProduct ==
  {[ours |-> << a, b >>, ref |-> << c, << 3, -1 >> >>, live |-> live] :
     a, c \in MCRows, b \in {<< 3, -1 >>, << 1, 0 >>}, live \in {{2}, {1, 2}}}
MCCorpus == << "p1", "p2" >>

(* The gate at rest, for the behaviours of the planning tools.             *)
GateIdle ==
  /\ tier = 0 /\ prompts = << >> /\ native = << >>
  /\ model = << >>
  /\ GateReset

toolVars == << sel, replayVars, layoutVars, out >>
mcVars == << job, toolVars, gateVars >>

MCInit ==
  /\ sel = << >> /\ ReplayIdle /\ LayoutIdle /\ MeasureIdle
  /\ \/ job = "draw" /\ GateIdle
     \/ job = "gate" /\ GateInit

Draw == job = "draw" /\ DrawToken /\ UNCHANGED << job, replayVars, layoutVars, out >>
Choose ==
  /\ job = "draw" /\ Len(sel) = TOKENS
  /\ \/ /\ job' = "replay" /\ \E p \in Pattern, n \in Slots : ReplayStart(p, n)
        /\ UNCHANGED << layoutVars, out >>
     \/ /\ job' = "pack"
        /\ \E n \in Channels, name \in {"optimized", "roundrobin", "random"} : LayoutStart(name, n)
        /\ UNCHANGED << replayVars, out >>
     \/ job' = "measure" /\ UNCHANGED << replayVars, layoutVars, out >>
  /\ UNCHANGED sel
Replay == job = "replay" /\ lru_hitrate /\ UNCHANGED << sel, job, layoutVars, out >>
Pack ==
  /\ job = "pack" /\ (pack_optimized \/ pack_roundrobin \/ pack_random)
  /\ UNCHANGED << sel, job, replayVars, out >>
Measure == job = "measure" /\ measure_batches /\ UNCHANGED << sel, job, replayVars, layoutVars >>

MCNext ==
  \/ (Draw \/ Choose \/ Replay \/ Pack \/ Measure) /\ UNCHANGED gateVars
  \/ job = "gate" /\ GateNext /\ UNCHANGED << job, toolVars >>
MCSpec == MCInit /\ [][MCNext]_mcVars
=============================================================================
