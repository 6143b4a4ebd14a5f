------------------------------ MODULE SystemCdc ------------------------------
(***************************************************************************)
(* src/glm_fp8_system_cdc.v: the host port of the chip, carried between    *)
(* the host clock and the core clock.  Requests cross in one CdcFifo,      *)
(* tokens in another, busy as a synchronized level and done as a           *)
(* synchronized toggle.  The host FSM of glm_fp8_system.v is included: a   *)
(* start in its idle state begins a run, a start at any other time is      *)
(* ignored.  What the run computes is left out: a token is named by the    *)
(* request it answers.  A step is an edge of one clock or of both.         *)
(***************************************************************************)
EXTENDS Naturals, Sequences

CONSTANTS
  ADDR_W,       \* address bits of both FIFOs
  STAGES,       \* flops of each reset synchronizer
  Word,         \* requests, and the tokens that answer them
  ZeroWord, Unwritten,
  MAX_RUNS      \* bound: requests between two resets

ASSUME BridgeAssumption ==
  /\ ADDR_W \in Nat \ {0, 1} /\ STAGES \in Nat \ {0}
  /\ ZeroWord \in Word /\ Unwritten \notin Word /\ MAX_RUNS \in Nat

VARIABLES
  req_w, req_r, req_mem,     \* the request FIFO, host to core
  tok_w, tok_r, tok_mem,     \* the token FIFO, core to host
  arst, host_sync, core_sync,
  req_pop, tok_pop,          \* observation: the FIFO was read
  h,                         \* host_clk registers of the bridge
  c,                         \* core_clk registers of the bridge
  sys,                       \* host FSM and outputs of glm_fp8_system
  may_start,                 \* external: the host is free to raise start
  owed,                      \* observation: requests accepted, not answered
  runs                       \* observation: requests accepted since reset

fifos == <<req_w, req_r, req_mem, req_pop, tok_w, tok_r, tok_mem, tok_pop>>
resets == <<arst, host_sync, core_sync>>
host == <<h, may_start, owed, runs>>
core == <<c, sys>>
vars == <<fifos, resets, host, core>>

Req == INSTANCE CdcFifo WITH w <- req_w, r <- req_r, mem <- req_mem, reading <- req_pop,
                             w_sync <- host_sync, r_sync <- core_sync
Tok == INSTANCE CdcFifo WITH w <- tok_w, r <- tok_r, mem <- tok_mem, reading <- tok_pop,
                             w_sync <- core_sync, r_sync <- host_sync

ResetH == [start_d |-> FALSE, pending |-> FALSE, busy |-> FALSE, done |-> FALSE,
           next_tok |-> ZeroWord, tok_valid |-> FALSE, tok_rd_d |-> FALSE,
           busy_s1 |-> FALSE, busy_s2 |-> FALSE,
           tgl1 |-> FALSE, tgl2 |-> FALSE, tgl3 |-> FALSE]
ResetC == [req_rd_d |-> FALSE, start |-> FALSE, prompt |-> ZeroWord, done_tgl |-> FALSE]
ResetSys == [state |-> "IDLE", busy |-> FALSE, done |-> FALSE, tok |-> ZeroWord]

Init ==
  /\ Req!Init /\ Tok!Init
  /\ h = ResetH /\ c = ResetC /\ sys = ResetSys
  /\ may_start = TRUE /\ owed = << >> /\ runs = 0

host_rst == host_sync < STAGES
core_rst == core_sync < STAGES

req_wr_en(start) == start /\ ~h.start_d /\ ~req_w.full
req_rd_en == ~req_r.empty /\ ~c.req_rd_d
tok_wr_en == sys.done /\ ~tok_w.full
tok_rd_en == ~tok_r.empty /\ ~h.tok_rd_d
done_edge_level == h.tgl2                 \* mutation: the toggle taken as a level
done_edge == h.tgl3 # h.tgl2

(* A word read from a FIFO is on its read port one cycle later.            *)
req_landed_early == req_rd_en             \* mutation: as if the read port were not registered
req_landed == c.req_rd_d
tok_landed_early == tok_rd_en             \* mutation: the same
tok_landed == h.tok_rd_d

(* The host registers after an edge that samples the core's busy and done  *)
(* toggle as b and t.                                                      *)
HostRegs(start, b, t) ==
  IF host_rst THEN ResetH ELSE
  [start_d |-> start,
   pending |-> req_wr_en(start) \/ (h.pending /\ ~done_edge),
   busy |-> h.pending \/ h.busy_s2, done |-> done_edge,
   next_tok |-> IF tok_landed THEN tok_r.data ELSE h.next_tok,
   tok_valid |-> tok_landed, tok_rd_d |-> tok_rd_en,
   busy_s1 |-> b, busy_s2 |-> h.busy_s1,
   tgl1 |-> t, tgl2 |-> h.tgl1, tgl3 |-> h.tgl2]

CoreRegs ==
  IF core_rst THEN ResetC ELSE
  [req_rd_d |-> req_rd_en,
   start |-> req_landed,
   prompt |-> IF req_landed THEN req_r.data ELSE c.prompt,
   done_tgl |-> IF sys.done THEN ~c.done_tgl ELSE c.done_tgl]

(* The host FSM of glm_fp8_system; finish is the end of the model's run.   *)
SysRegs(finish) ==
  IF core_rst THEN ResetSys ELSE
  CASE sys.state = "IDLE" /\ c.start ->
         [sys EXCEPT !.state = "RUN", !.busy = TRUE, !.done = FALSE]
    [] sys.state = "IDLE" /\ ~c.start -> [sys EXCEPT !.busy = FALSE, !.done = FALSE]
    [] sys.state = "RUN" /\ finish -> [sys EXCEPT !.state = "DONE", !.tok = c.prompt]
    [] sys.state = "RUN" /\ ~finish -> sys
    [] sys.state = "DONE" -> [sys EXCEPT !.state = "IDLE", !.busy = FALSE, !.done = TRUE]

Observe(start, prompt) ==
  LET took == ~host_rst /\ req_wr_en(start)
      rest == IF h'.tok_valid /\ owed # << >> THEN Tail(owed) ELSE owed
  IN /\ owed' = IF took THEN Append(rest, prompt) ELSE rest
     /\ runs' = IF took THEN runs + 1 ELSE runs
     /\ may_start' = IF ~host_rst /\ start THEN h.start_d /\ may_start
                     ELSE may_start \/ h'.done

(* What the host drives: a new start, held at will, only once done has     *)
(* ended the run before.  A host that waits for tok_valid, which is later, *)
(* is one of these.                                                        *)
Drives(start, prompt) ==
  /\ start => (may_start /\ runs < MAX_RUNS) \/ h.start_d
  /\ ~req_wr_en(start) => prompt = ZeroWord

HostClock(start, prompt) ==
  /\ Drives(start, prompt)
  /\ Req!WriteClock(req_wr_en(start), prompt)
  /\ Tok!ReadClock(tok_rd_en)
  /\ h' = HostRegs(start, sys.busy, c.done_tgl)
  /\ Observe(start, prompt)
  /\ UNCHANGED core

CoreClock(finish) ==
  /\ finish => sys.state = "RUN"
  /\ Req!ReadClock(req_rd_en)
  /\ Tok!WriteClock(tok_wr_en, sys.tok)
  /\ c' = CoreRegs /\ sys' = SysRegs(finish)
  /\ UNCHANGED host

BothClocks(start, prompt, finish) ==
  /\ Drives(start, prompt) /\ (finish => sys.state = "RUN")
  /\ Req!BothClocks(req_wr_en(start), prompt, req_rd_en)
  /\ Tok!BothClocks(tok_wr_en, sys.tok, tok_rd_en)
  /\ c' = CoreRegs /\ sys' = SysRegs(finish)
  /\ \E b \in {sys.busy, sys'.busy}, t \in {c.done_tgl, c'.done_tgl} :
       h' = HostRegs(start, b, t)
  /\ Observe(start, prompt)

AssertReset ==
  /\ Req!AssertReset /\ Tok!AssertReset
  /\ may_start' = TRUE /\ owed' = << >> /\ runs' = 0
  /\ UNCHANGED <<h, core>>

ReleaseReset ==
  /\ Req!ReleaseReset /\ Tok!ReleaseReset
  /\ h = ResetH /\ c = ResetC /\ sys = ResetSys
  /\ UNCHANGED <<host, core>>

HostEdge == \E start \in BOOLEAN, prompt \in Word : HostClock(start, prompt)
CoreEdge == \E finish \in BOOLEAN : CoreClock(finish)
BothEdges == \E start, finish \in BOOLEAN, prompt \in Word : BothClocks(start, prompt, finish)

Next == HostEdge \/ CoreEdge \/ BothEdges \/ AssertReset \/ ReleaseReset

Spec == Init /\ [][Next]_vars

(* Both clocks keep ticking, whether or not the host starts anything or    *)
(* the run gets on: an edge that would move a register even so comes in    *)
(* the end.  A reset request is withdrawn and every run of the model comes *)
(* to its end.                                                             *)
IdleHost == HostClock(FALSE, ZeroWord)
IdleCore == CoreClock(FALSE)
RunEnds == CoreClock(TRUE)
           \/ \E start \in BOOLEAN, prompt \in Word : BothClocks(start, prompt, TRUE)
FairSpec == Spec /\ ([]<>~ENABLED <<IdleHost>>_vars \/ []<><<HostEdge \/ BothEdges>>_vars)
                 /\ ([]<>~ENABLED <<IdleCore>>_vars \/ []<><<CoreEdge \/ BothEdges>>_vars)
                 /\ WF_vars(ReleaseReset) /\ WF_vars(RunEnds)
-----------------------------------------------------------------------------
At(place, word) == IF place THEN <<word>> ELSE << >>

(* Every request the host was told is accepted is, until its token is      *)
(* shown, in exactly one place on the way: in the request FIFO, on its     *)
(* read port, in the start pulse, in the run, in the token FIFO or on its  *)
(* read port.  None is lost to a start the core ignores.                   *)
OwedIsOnTheWay ==
  ~arst /\ ~host_rst /\ ~core_rst =>
    owed = At(h.tok_rd_d, tok_r.data) \o Tok!queue
           \o At(sys.done, sys.tok) \o At(sys.state = "DONE", sys.tok)
           \o At(sys.state = "RUN", c.prompt) \o At(c.start, c.prompt)
           \o At(c.req_rd_d, req_r.data) \o Req!queue

(* Requests go in and their tokens come out, one each and in order.        *)
Port == INSTANCE FifoQueue
          WITH Capacity <- 2, NoWord <- Unwritten, queue <- owed,
               popped <- IF h.tok_valid /\ ~arst THEN h.next_tok ELSE Unwritten
ImplementsPort == Port!Spec

(* Every accepted request is answered, unless a reset drops it.            *)
RequestAnswered == (owed # << >>) ~> (h.tok_valid \/ arst)

(* busy, once up, stays up until the run is over, although the level and   *)
(* the toggle cross by different paths.                                    *)
BusyUntilOver ==
  [][h.busy /\ ~h'.busy /\ ~host_rst =>
       /\ ~c.start /\ ~c.req_rd_d /\ sys.state = "IDLE"
       /\ Req!queue = << >>]_vars

(* The host may wait on busy and then on the token: busy spans the run,    *)
(* and every request accepted is answered.                                 *)
HostIsServed == BusyUntilOver /\ RequestAnswered
=============================================================================
