--------------------------- MODULE SystemCdc_proofs ---------------------------
(***************************************************************************)
(* Proofs about the two-clock host port, for every depth of the FIFOs and  *)
(* every length of the reset synchronizers, from what CdcFifo_proofs shows *)
(* of each FIFO.                                                           *)
(***************************************************************************)
EXTENDS SystemCdc, Integers, SequenceTheorems, TLAPS

ReqF == INSTANCE CdcFifo_proofs
          WITH w <- req_w, r <- req_r, mem <- req_mem, reading <- req_pop,
               w_sync <- host_sync, r_sync <- core_sync
TokF == INSTANCE CdcFifo_proofs
          WITH w <- tok_w, r <- tok_r, mem <- tok_mem, reading <- tok_pop,
               w_sync <- core_sync, r_sync <- host_sync

LEMMA Assumptions ==
  /\ ReqF!FifoAssumption /\ TokF!FifoAssumption /\ ZeroWord \in Word
  /\ TokF!DEPTH \in Nat /\ TokF!DEPTH >= 4
<1>1. ReqF!FifoAssumption /\ TokF!FifoAssumption /\ ADDR_W \in Nat \ {0, 1} /\ ZeroWord \in Word
  BY BridgeAssumption DEF ReqF!FifoAssumption, TokF!FifoAssumption
<1> QED
  BY <1>1, TokF!Powers DEF TokF!DEPTH

(* The FIFOs of the bridge are those the lemmas are about.                 *)
LEMMA SameReq ==
  /\ \A wr_en, word : Req!WriteClock(wr_en, word) => ReqF!WriteClock(wr_en, word)
  /\ \A rd_en : Req!ReadClock(rd_en) => ReqF!ReadClock(rd_en)
  /\ \A wr_en, word, rd_en : Req!BothClocks(wr_en, word, rd_en) => ReqF!BothClocks(wr_en, word, rd_en)
  /\ Req!AssertReset => ReqF!AssertReset
  /\ Req!ReleaseReset => ReqF!ReleaseReset
  /\ Req!Init => ReqF!Init
  /\ Req!queue = ReqF!queue
<1>1. Req!DEPTH = ReqF!DEPTH /\ Req!ResetW = ReqF!ResetW /\ Req!ResetR = ReqF!ResetR
      /\ (Req!wrst <=> ReqF!wrst) /\ (Req!rrst <=> ReqF!rrst)
  BY DEF Req!DEPTH, ReqF!DEPTH, Req!ResetW, ReqF!ResetW, Req!ResetR, ReqF!ResetR,
         Req!wrst, ReqF!wrst, Req!rrst, ReqF!rrst
<1>2. \A n : Req!GrayOf(n) = ReqF!GrayOf(n)
  BY DEF Req!GrayOf, ReqF!GrayOf, Req!bit, ReqF!bit, Req!Bits, ReqF!Bits
<1>3. \A n, move : Req!Step(n, move) = ReqF!Step(n, move)
  BY <1>1 DEF Req!Step, ReqF!Step
<1>4. \A x, y : /\ Req!full_next(x, y) = ReqF!full_next(x, y)
               /\ Req!empty_next(x, y) = ReqF!empty_next(x, y)
               /\ Req!Caught(x, y) = ReqF!Caught(x, y)
  BY DEF Req!full_next, ReqF!full_next, Req!empty_next, ReqF!empty_next,
         Req!Caught, ReqF!Caught, Req!Bits, ReqF!Bits
<1>5. \A x : /\ Req!do_write(x) = ReqF!do_write(x) /\ Req!do_read(x) = ReqF!do_read(x)
            /\ Req!Released(x) = ReqF!Released(x)
  BY DEF Req!do_write, ReqF!do_write, Req!do_read, ReqF!do_read,
         Req!Released, ReqF!Released
<1>6. \A x, y : Req!WriteRegs(x, y) = ReqF!WriteRegs(x, y)
  BY <1>1, <1>2, <1>3, <1>4, <1>5 DEF Req!WriteRegs, ReqF!WriteRegs
<1>7. \A x, y : Req!ReadRegs(x, y) = ReqF!ReadRegs(x, y)
  BY <1>1, <1>2, <1>3, <1>4, <1>5 DEF Req!ReadRegs, ReqF!ReadRegs
<1>8. \A x, y : Req!Store(x, y) => ReqF!Store(x, y)
  BY <1>1, <1>5 DEF Req!Store, ReqF!Store
<1>9. \A x, y : Req!WriteClock(x, y) => ReqF!WriteClock(x, y)
  BY <1>5, <1>6, <1>8 DEF Req!WriteClock, ReqF!WriteClock
<1>10. \A x : Req!ReadClock(x) => ReqF!ReadClock(x)
  BY <1>1, <1>5, <1>7 DEF Req!ReadClock, ReqF!ReadClock
<1>11. \A x, y, z : Req!BothClocks(x, y, z) => ReqF!BothClocks(x, y, z)
  BY <1>1, <1>4, <1>5, <1>6, <1>7, <1>8 DEF Req!BothClocks, ReqF!BothClocks
<1>12. (Req!AssertReset => ReqF!AssertReset) /\ (Req!ReleaseReset => ReqF!ReleaseReset)
  BY <1>1 DEF Req!AssertReset, ReqF!AssertReset, Req!ReleaseReset, ReqF!ReleaseReset
<1>13. (Req!Init => ReqF!Init) /\ Req!queue = ReqF!queue
  BY <1>1 DEF Req!Init, ReqF!Init, Req!queue, ReqF!queue, Req!Ahead, ReqF!Ahead
<1> QED
  BY <1>9, <1>10, <1>11, <1>12, <1>13

LEMMA SameTok ==
  /\ \A wr_en, word : Tok!WriteClock(wr_en, word) => TokF!WriteClock(wr_en, word)
  /\ \A rd_en : Tok!ReadClock(rd_en) => TokF!ReadClock(rd_en)
  /\ \A wr_en, word, rd_en : Tok!BothClocks(wr_en, word, rd_en) => TokF!BothClocks(wr_en, word, rd_en)
  /\ Tok!AssertReset => TokF!AssertReset
  /\ Tok!ReleaseReset => TokF!ReleaseReset
  /\ Tok!Init => TokF!Init
  /\ Tok!queue = TokF!queue
<1>1. Tok!DEPTH = TokF!DEPTH /\ Tok!ResetW = TokF!ResetW /\ Tok!ResetR = TokF!ResetR
      /\ (Tok!wrst <=> TokF!wrst) /\ (Tok!rrst <=> TokF!rrst)
  BY DEF Tok!DEPTH, TokF!DEPTH, Tok!ResetW, TokF!ResetW, Tok!ResetR, TokF!ResetR,
         Tok!wrst, TokF!wrst, Tok!rrst, TokF!rrst
<1>2. \A n : Tok!GrayOf(n) = TokF!GrayOf(n)
  BY DEF Tok!GrayOf, TokF!GrayOf, Tok!bit, TokF!bit, Tok!Bits, TokF!Bits
<1>3. \A n, move : Tok!Step(n, move) = TokF!Step(n, move)
  BY <1>1 DEF Tok!Step, TokF!Step
<1>4. \A x, y : /\ Tok!full_next(x, y) = TokF!full_next(x, y)
               /\ Tok!empty_next(x, y) = TokF!empty_next(x, y)
               /\ Tok!Caught(x, y) = TokF!Caught(x, y)
  BY DEF Tok!full_next, TokF!full_next, Tok!empty_next, TokF!empty_next,
         Tok!Caught, TokF!Caught, Tok!Bits, TokF!Bits
<1>5. \A x : /\ Tok!do_write(x) = TokF!do_write(x) /\ Tok!do_read(x) = TokF!do_read(x)
            /\ Tok!Released(x) = TokF!Released(x)
  BY DEF Tok!do_write, TokF!do_write, Tok!do_read, TokF!do_read,
         Tok!Released, TokF!Released
<1>6. \A x, y : Tok!WriteRegs(x, y) = TokF!WriteRegs(x, y)
  BY <1>1, <1>2, <1>3, <1>4, <1>5 DEF Tok!WriteRegs, TokF!WriteRegs
<1>7. \A x, y : Tok!ReadRegs(x, y) = TokF!ReadRegs(x, y)
  BY <1>1, <1>2, <1>3, <1>4, <1>5 DEF Tok!ReadRegs, TokF!ReadRegs
<1>8. \A x, y : Tok!Store(x, y) => TokF!Store(x, y)
  BY <1>1, <1>5 DEF Tok!Store, TokF!Store
<1>9. \A x, y : Tok!WriteClock(x, y) => TokF!WriteClock(x, y)
  BY <1>5, <1>6, <1>8 DEF Tok!WriteClock, TokF!WriteClock
<1>10. \A x : Tok!ReadClock(x) => TokF!ReadClock(x)
  BY <1>1, <1>5, <1>7 DEF Tok!ReadClock, TokF!ReadClock
<1>11. \A x, y, z : Tok!BothClocks(x, y, z) => TokF!BothClocks(x, y, z)
  BY <1>1, <1>4, <1>5, <1>6, <1>7, <1>8 DEF Tok!BothClocks, TokF!BothClocks
<1>12. (Tok!AssertReset => TokF!AssertReset) /\ (Tok!ReleaseReset => TokF!ReleaseReset)
  BY <1>1 DEF Tok!AssertReset, TokF!AssertReset, Tok!ReleaseReset, TokF!ReleaseReset
<1>13. (Tok!Init => TokF!Init) /\ Tok!queue = TokF!queue
  BY <1>1 DEF Tok!Init, TokF!Init, Tok!queue, TokF!queue, Tok!Ahead, TokF!Ahead
<1> QED
  BY <1>9, <1>10, <1>11, <1>12, <1>13
-----------------------------------------------------------------------------
(* The state of the bridge, in counts.  Wq and Rq are the requests written *)
(* to and read from their FIFO, Wt and Rt the tokens; a1 and a2 the reads, *)
(* b1 and b2 the writes, that the two sides of the token FIFO know of; t1, *)
(* t2 and t3 the ends of runs that the host's three toggle flops know of;  *)
(* x is the request on its way to becoming a token, if there is one.       *)
One(b) == IF b THEN 1 ELSE 0
InFlight == One(c.req_rd_d) + One(c.start) + One(sys.state = "RUN")
            + One(sys.state = "DONE") + One(sys.done)

(* The core has exactly one place for a request that is not yet a token.   *)
CoreCounts(Wq, Rq, Wt, x) ==
  /\ Rq = Wt + InFlight
  /\ sys.done => sys.state = "IDLE"
  /\ c.req_rd_d => req_r.data = x
  /\ c.start \/ sys.state = "RUN" => c.prompt = x
  /\ sys.state = "DONE" \/ sys.done => sys.tok = x
  /\ Rq < Wq => Req!queue = <<x>>

(* A run is started only when the end of the one before has reached the    *)
(* host.                                                                   *)
Toggles(Wq, Wt, t1, t2, t3) ==
  /\ t3 <= t2 /\ t2 <= t1 /\ t1 <= Wt /\ Wt <= Wq /\ Wq <= t3 + 1
  /\ may_start => Wq = t3
  /\ c.done_tgl # h.tgl1 <=> Wt # t1
  /\ h.tgl1 # h.tgl2 <=> t1 # t2
  /\ h.tgl2 # h.tgl3 <=> t2 # t3

(* The token is not far behind the end of its run: when the host sees the  *)
(* end of a run, the tokens of all runs before it have been shown.         *)
Shown(Rt, b1, b2, t1, t2, t3) ==
  /\ t2 <= b1 /\ t3 <= b2
  /\ t3 + One(h.tok_rd_d) <= Rt + 1
  /\ t3 < t2 => t3 <= Rt
  /\ t3 < t1 => t3 <= Rt \/ ~tok_r.empty

(* The token FIFO is never full, not even as its late flag sees it.        *)
Room(Wt, a1, a2) ==
  /\ ~tok_w.full /\ Wt <= a1 + 2 /\ Wt <= a2 + 3
  /\ InFlight > 0 => Wt <= a2 + 2

Token == Word \cup {Unwritten}

(* What is owed is the tokens on their way to the host, then the request   *)
(* that is not yet a token.                                                *)
Front == At(h.tok_rd_d, tok_r.data) \o Tok!queue

OwedCounts(Wq, Wt, x) ==
  /\ owed = Front \o At(Wt < Wq, x)
  /\ h.tok_rd_d => tok_r.data \in Token

Shapes ==
  /\ h.tok_rd_d \in BOOLEAN /\ h.start_d \in BOOLEAN
  /\ h.tgl1 \in BOOLEAN /\ h.tgl2 \in BOOLEAN /\ h.tgl3 \in BOOLEAN
  /\ c.req_rd_d \in BOOLEAN /\ c.start \in BOOLEAN /\ c.done_tgl \in BOOLEAN
  /\ DOMAIN sys = {"state", "busy", "done", "tok"}
  /\ sys.state \in {"IDLE", "RUN", "DONE"} /\ sys.done \in BOOLEAN
  /\ may_start \in BOOLEAN
  /\ sys.done => sys.tok \in Word
-----------------------------------------------------------------------------
(* The clocks that tick out of reset, and what an edge then moves: a       *)
(* request accepted from the host or popped by the core, a token pushed by *)
(* the core or taken by the host.                                          *)
Ticks(host_clk, core_clk, host_ticks, core_ticks) ==
  /\ host_clk \in BOOLEAN /\ core_clk \in BOOLEAN
  /\ host_ticks \in BOOLEAN /\ core_ticks \in BOOLEAN
  /\ host_ticks <=> host_clk /\ ~host_rst
  /\ core_ticks <=> core_clk /\ ~core_rst

Answering(host_ticks, core_ticks, pushed, taken) ==
  /\ host_ticks \in BOOLEAN /\ core_ticks \in BOOLEAN
  /\ pushed \in BOOLEAN /\ taken \in BOOLEAN
  /\ pushed <=> core_ticks /\ sys.done
  /\ taken <=> host_ticks /\ tok_rd_en

Moving(host_ticks, core_ticks, start, accepted, popped, pushed, taken) ==
  /\ Answering(host_ticks, core_ticks, pushed, taken)
  /\ accepted \in BOOLEAN /\ popped \in BOOLEAN
  /\ accepted <=> host_ticks /\ req_wr_en(start)
  /\ popped <=> core_ticks /\ req_rd_en

(* How the counts of requests and tokens move along, and x, the request on *)
(* its way.                                                                *)
Accepting(accepted, pushed, prompt, Wq, Rq, Wt, W2, V2, x, x2) ==
  /\ W2 = Wq + One(accepted) /\ V2 = Wt + One(pushed)
  /\ Rq <= Wq /\ Wt <= Wq /\ Wq <= Wt + 1
  /\ accepted => Wq = Wt
  /\ IF accepted THEN x2 = prompt ELSE x2 = x

(* An edge, seen from the registers that move: host or core says whether   *)
(* that clock ticks out of reset.                                          *)
HostMoves(host_ticks, start, prompt, t) ==
  IF host_ticks
  THEN Drives(start, prompt) /\ (\E b : h' = HostRegs(start, b, t)) /\ ~host_rst /\ Observe(start, prompt)
  ELSE h' = h /\ may_start' = may_start /\ owed' = owed

CoreMoves(core_ticks, finish) ==
  IF core_ticks THEN (finish => sys.state = "RUN") /\ c' = CoreRegs /\ sys' = SysRegs(finish) /\ ~core_rst
  ELSE c' = c /\ sys' = sys

(* What it does to the request FIFO ...                                    *)
ReqMoves(accepted, prompt, core_ticks, popped, Wq, Rq, W2, R2) ==
  /\ W2 = Wq + One(accepted) /\ R2 = Rq + One(popped) /\ R2 <= W2
  /\ Req!queue' = ReqF!Moved(Req!queue, accepted, prompt, popped)
  /\ popped => Req!queue # << >> /\ req_r'.data = Head(Req!queue)
  /\ Req!queue \in Seq(Token) /\ Len(Req!queue) = Wq - Rq
  /\ ~core_ticks => req_r' = req_r

(* ... and to the token FIFO.                                              *)
TokMoves(core_ticks, pushed, token, host_ticks, taken, Wt, Rt, a1, a2, b1, b2, W2, R2, c1, c2, d1, d2) ==
  /\ W2 = Wt + One(pushed) /\ R2 = Rt + One(taken)
  /\ c2 <= c1 /\ c1 <= R2 /\ R2 <= d2 /\ d2 <= d1 /\ d1 <= W2
  /\ IF core_ticks THEN Rt <= c1 /\ c2 = a1 /\ (tok_w'.full <=> W2 = a2 + TokF!DEPTH)
     ELSE c1 = a1 /\ c2 = a2 /\ (tok_w'.full => tok_w.full)
  /\ IF host_ticks THEN Wt <= d1 /\ d2 = b1 /\ (tok_r'.empty <=> R2 = b2)
     ELSE d1 = b1 /\ d2 = b2 /\ tok_r' = tok_r
  /\ Tok!queue' = TokF!Moved(Tok!queue, pushed, token, taken)
  /\ taken => Tok!queue # << >> /\ tok_r'.data = Head(Tok!queue)
  /\ Tok!queue \in Seq(Token) /\ Len(Tok!queue) = Wt - Rt

(* The registers of an edge of the core.                                   *)
LEMMA CoreRegisters ==
  ASSUME Shapes, NEW core_ticks \in BOOLEAN, NEW finish \in BOOLEAN, CoreMoves(core_ticks, finish)
  PROVE  IF core_ticks
         THEN /\ c'.req_rd_d = req_rd_en /\ c'.start = c.req_rd_d
              /\ c'.prompt = IF c.req_rd_d THEN req_r.data ELSE c.prompt
              /\ c'.done_tgl = IF sys.done THEN ~c.done_tgl ELSE c.done_tgl
              /\ sys'.state = CASE sys.state = "IDLE" -> IF c.start THEN "RUN" ELSE "IDLE"
                                [] sys.state = "RUN" -> IF finish THEN "DONE" ELSE "RUN"
                                [] sys.state = "DONE" -> "IDLE"
              /\ sys'.done = IF sys.state = "IDLE" THEN FALSE
                             ELSE IF sys.state = "DONE" THEN TRUE ELSE sys.done
              /\ sys'.tok = IF sys.state = "RUN" /\ finish THEN c.prompt ELSE sys.tok
              /\ DOMAIN sys' = {"state", "busy", "done", "tok"}
         ELSE c' = c /\ sys' = sys
<1>1. CASE ~core_ticks
  BY <1>1 DEF CoreMoves
<1>2. CASE core_ticks
  <2>1. c' = CoreRegs /\ sys' = SysRegs(finish) /\ ~core_rst
    BY <1>2 DEF CoreMoves
  <2>2. /\ c'.req_rd_d = req_rd_en /\ c'.start = c.req_rd_d
        /\ c'.prompt = IF c.req_rd_d THEN req_r.data ELSE c.prompt
        /\ c'.done_tgl = IF sys.done THEN ~c.done_tgl ELSE c.done_tgl
    BY <2>1 DEF CoreRegs, req_landed
  <2>3. /\ DOMAIN sys = {"state", "busy", "done", "tok"}
        /\ sys.state \in {"IDLE", "RUN", "DONE"} /\ sys.done \in BOOLEAN
    BY DEF Shapes
  <2>4. CASE sys.state = "IDLE" /\ c.start
    <3>1. sys' = [sys EXCEPT !.state = "RUN", !.busy = TRUE, !.done = FALSE]
      BY <2>1, <2>4 DEF SysRegs
    <3> QED
      BY <1>2, <2>2, <2>3, <2>4, <3>1
  <2>5. CASE sys.state = "IDLE" /\ ~c.start
    <3>1. sys' = [sys EXCEPT !.busy = FALSE, !.done = FALSE]
      BY <2>1, <2>5 DEF SysRegs
    <3> QED
      BY <1>2, <2>2, <2>3, <2>5, <3>1
  <2>6. CASE sys.state = "RUN" /\ finish
    <3>1. sys' = [sys EXCEPT !.state = "DONE", !.tok = c.prompt]
      BY <2>1, <2>6 DEF SysRegs
    <3> QED
      BY <1>2, <2>2, <2>3, <2>6, <3>1
  <2>7. CASE sys.state = "RUN" /\ ~finish
    <3>1. sys' = sys
      BY <2>1, <2>7 DEF SysRegs
    <3> QED
      BY <1>2, <2>2, <2>3, <2>7, <3>1
  <2>8. CASE sys.state = "DONE"
    <3>1. sys' = [sys EXCEPT !.state = "IDLE", !.busy = FALSE, !.done = TRUE]
      BY <2>1, <2>8 DEF SysRegs
    <3> QED
      BY <1>2, <2>2, <2>3, <2>8, <3>1
  <2> QED
    BY <2>3, <2>4, <2>5, <2>6, <2>7, <2>8
<1> QED
  BY <1>1, <1>2

FlightMoves(popped, pushed, Wq, Wt, x) ==
  /\ InFlight' \in Nat /\ InFlight \in 0 .. 1
  /\ InFlight' = InFlight + One(popped) - One(pushed)
  /\ pushed => sys.tok = x /\ InFlight > 0 /\ Wq = Wt + 1 /\ ~popped
  /\ InFlight > 0 => Wq = Wt + 1

(* An edge keeps the one request the core is busy with in one place.       *)
LEMMA CoreStep ==
  ASSUME Shapes, NEW host_ticks, NEW core_ticks, NEW start, NEW finish \in BOOLEAN,
         CoreMoves(core_ticks, finish), NEW accepted, NEW popped, NEW pushed, NEW taken,
         Moving(host_ticks, core_ticks, start, accepted, popped, pushed, taken), NEW prompt \in Word,
         NEW Wq \in Nat, NEW Rq \in Nat, NEW Wt \in Nat, NEW W2 \in Nat, NEW R2 \in Nat, NEW V2 \in Nat,
         NEW x \in Word, NEW x2 \in Word, Accepting(accepted, pushed, prompt, Wq, Rq, Wt, W2, V2, x, x2),
         CoreCounts(Wq, Rq, Wt, x), ReqMoves(accepted, prompt, core_ticks, popped, Wq, Rq, W2, R2)
  PROVE  CoreCounts(W2, R2, V2, x2)' /\ FlightMoves(popped, pushed, Wq, Wt, x)
<1> USE DEF Moving, Answering, Accepting
<1>1. /\ Rq = Wt + InFlight /\ InFlight \in 0 .. 1 /\ (popped => InFlight = 0 /\ ~accepted)
      /\ (accepted => InFlight = 0 /\ Rq = Wq)
  <2>1. Rq = Wt + InFlight /\ InFlight \in Nat
    BY DEF CoreCounts, InFlight, One
  <2>2. popped => Rq < Wq
    <3>1. popped => Len(Req!queue) # 0
      BY EmptySeq DEF ReqMoves
    <3> QED
      BY <3>1 DEF ReqMoves
  <2> QED
    BY <2>1, <2>2
<1>2. InFlight' = InFlight + One(popped) - One(pushed) /\ InFlight' \in Nat
  <2>1. CASE ~core_ticks
    <3>1. InFlight' = InFlight /\ ~popped /\ ~pushed
      BY <2>1, CoreRegisters DEF InFlight, One
    <3> QED
      BY <1>1, <3>1 DEF One
  <2>2. CASE core_ticks
    <3>1. /\ c'.req_rd_d = popped /\ c'.start = c.req_rd_d /\ pushed = sys.done
          /\ sys.state \in {"IDLE", "RUN", "DONE"}
          /\ c.req_rd_d \in BOOLEAN /\ c.start \in BOOLEAN /\ sys.done \in BOOLEAN
      BY <2>2, CoreRegisters DEF Shapes, req_rd_en
    <3>2. /\ sys.state = "IDLE" => /\ sys'.state = IF c.start THEN "RUN" ELSE "IDLE"
                                   /\ sys'.done = FALSE
          /\ sys.state = "RUN" => /\ sys'.state = IF finish THEN "DONE" ELSE "RUN"
                                  /\ sys'.done = sys.done
          /\ sys.state = "DONE" => sys'.state = "IDLE" /\ sys'.done = TRUE
      BY <2>2, CoreRegisters
    <3>3. One(c.req_rd_d) + One(c.start) + One(sys.state = "RUN")
            + One(sys.state = "DONE") + One(sys.done) <= 1
      BY <1>1 DEF InFlight
    <3>4. InFlight' = One(popped) + One(c.req_rd_d) + One(sys'.state = "RUN")
                        + One(sys'.state = "DONE") + One(sys'.done)
      BY <3>1 DEF InFlight, One
    <3>5. CASE sys.state = "IDLE"
      BY <3>1, <3>2, <3>3, <3>4, <3>5 DEF InFlight, One
    <3>6. CASE sys.state = "RUN"
      BY <3>1, <3>2, <3>3, <3>4, <3>6 DEF InFlight, One
    <3>7. CASE sys.state = "DONE"
      BY <3>1, <3>2, <3>3, <3>4, <3>7 DEF InFlight, One
    <3> QED
      BY <3>1, <3>5, <3>6, <3>7
  <2> QED
    BY <2>1, <2>2
<1>3. R2 = V2 + InFlight'
  BY <1>1, <1>2 DEF ReqMoves, One
<1>4. sys'.done => sys'.state = "IDLE"
  BY <1>1, CoreRegisters DEF Shapes, CoreCounts, InFlight, One
<1>5. R2 < W2 => Req!queue' = <<x2>>
  <2>1. CASE accepted
    <3>1. Req!queue = << >> /\ ~popped
      BY <1>1, <2>1, EmptySeq DEF ReqMoves
    <3>2. Req!queue' = Append(<< >>, prompt)
      BY <2>1, <3>1 DEF ReqMoves, ReqF!Moved
    <3> QED
      BY <2>1, <3>2
  <2>2. CASE ~accepted
    <3>1. R2 < W2 => Rq < Wq /\ ~popped
      BY <1>1, <2>2 DEF ReqMoves, One
    <3>2. ~popped => Req!queue' = Req!queue
      BY <2>2 DEF ReqMoves, ReqF!Moved
    <3> QED
      BY <2>2, <3>1, <3>2 DEF CoreCounts
  <2> QED
    BY <2>1, <2>2
<1>6. popped => req_r'.data = x2
  <2> SUFFICES ASSUME popped PROVE req_r'.data = x2
    OBVIOUS
  <2>1. Req!queue # << >> /\ req_r'.data = Head(Req!queue) /\ Len(Req!queue) # 0 /\ x2 = x
    BY <1>1, EmptySeq DEF ReqMoves
  <2>2. Req!queue = <<x>>
    BY <2>1 DEF ReqMoves, CoreCounts
  <2> QED
    BY <2>1, <2>2
<1>7. InFlight > 0 => x2 = x
  BY <1>1
<1>8. /\ c'.req_rd_d => req_r'.data = x2
      /\ c'.start \/ sys'.state = "RUN" => c'.prompt = x2
      /\ sys'.state = "DONE" \/ sys'.done => sys'.tok = x2
  <2>0. /\ c.req_rd_d \/ c.start \/ sys.state = "RUN" \/ sys.state = "DONE" \/ sys.done => x2 = x
        /\ c.req_rd_d => req_r.data = x /\ ~c.start /\ sys.state # "RUN"
        /\ c.start \/ sys.state = "RUN" => c.prompt = x
        /\ sys.state = "DONE" \/ sys.done => sys.tok = x
    <3>1. c.req_rd_d \/ c.start \/ sys.state = "RUN" \/ sys.state = "DONE" \/ sys.done => InFlight > 0
      BY DEF InFlight, One
    <3>2. c.req_rd_d => ~c.start /\ sys.state # "RUN"
      BY <1>1 DEF InFlight, One
    <3> QED
      BY <1>7, <3>1, <3>2 DEF CoreCounts
  <2>1. CASE ~core_ticks
    <3>1. c' = c /\ sys' = sys /\ req_r' = req_r
      BY <2>1, CoreRegisters DEF ReqMoves
    <3> QED
      BY <2>0, <3>1
  <2>2. CASE core_ticks
    <3>1. c'.req_rd_d => req_r'.data = x2
      BY <1>6, <2>2, CoreRegisters
    <3>2. c'.start \/ sys'.state = "RUN" => c'.prompt = x2
      BY <2>0, <2>2, CoreRegisters DEF Shapes
    <3>3. sys'.state = "DONE" \/ sys'.done => sys'.tok = x2
      BY <1>4, <2>0, <2>2, CoreRegisters DEF Shapes, CoreCounts
    <3> QED
      BY <3>1, <3>2, <3>3
  <2> QED
    BY <2>1, <2>2
<1>9. CoreCounts(W2, R2, V2, x2)'
  BY <1>3, <1>4, <1>5, <1>8 DEF CoreCounts
<1>10. pushed => sys.tok = x /\ InFlight > 0 /\ Wq = Wt + 1 /\ ~popped
  <2>1. pushed => InFlight > 0
    BY DEF InFlight, One
  <2> QED
    BY <1>1, <2>1 DEF CoreCounts
<1> QED
  BY <1>1, <1>2, <1>9, <1>10 DEF FlightMoves

(* A request is accepted only when the host has seen every run end.        *)
LEMMA AcceptedWhenOver ==
  ASSUME NEW start \in BOOLEAN, NEW prompt, NEW t, HostMoves(TRUE, start, prompt, t), req_wr_en(start),
         NEW Wq \in Nat, NEW Wt \in Nat, NEW t1 \in Nat, NEW t2 \in Nat, NEW t3 \in Nat,
         Toggles(Wq, Wt, t1, t2, t3)
  PROVE  Wq = t3 /\ Wt = t3
<1>1. may_start
  BY DEF HostMoves, Drives, req_wr_en
<1> QED
  BY <1>1 DEF Toggles

(* An edge of the host moves the toggle and the tokens along together.     *)
HostReads(host_ticks, taken, Wt, Rt, b1, b2, R2, d1, d2) ==
  /\ R2 = Rt + One(taken)
  /\ IF host_ticks THEN Wt <= d1 /\ d2 = b1 /\ (tok_r'.empty <=> R2 = b2)
     ELSE d1 = b1 /\ d2 = b2 /\ tok_r' = tok_r

Toggled(pushed) == c'.done_tgl # c.done_tgl <=> pushed

LEMMA HostStep ==
  ASSUME Shapes, Shapes', NEW host_ticks, NEW core_ticks, NEW start \in BOOLEAN, NEW prompt \in Word,
         NEW t \in {c.done_tgl, c'.done_tgl}, HostMoves(host_ticks, start, prompt, t),
         NEW accepted, NEW popped, NEW pushed, NEW taken,
         Moving(host_ticks, core_ticks, start, accepted, popped, pushed, taken), Toggled(pushed),
         NEW Wq \in Nat, NEW Rq \in Nat, NEW Wt \in Nat, NEW Rt \in Nat, NEW b1 \in Nat, NEW b2 \in Nat,
         NEW t1 \in Nat, NEW t2 \in Nat, NEW t3 \in Nat,
         Toggles(Wq, Wt, t1, t2, t3), Shown(Rt, b1, b2, t1, t2, t3),
         NEW W2 \in Nat, NEW V2 \in Nat, NEW R2 \in Nat, NEW d1 \in Nat, NEW d2 \in Nat,
         NEW x \in Word, NEW x2 \in Word, Accepting(accepted, pushed, prompt, Wq, Rq, Wt, W2, V2, x, x2),
         FlightMoves(popped, pushed, Wq, Wt, x),
         HostReads(host_ticks, taken, Wt, Rt, b1, b2, R2, d1, d2)
  PROVE  \E s1, s2, s3 \in Nat : Toggles(W2, V2, s1, s2, s3)' /\ Shown(R2, d1, d2, s1, s2, s3)'
<1> USE DEF Moving, Answering, Accepting, FlightMoves, Toggled
<1>1. accepted => Wq = t3 /\ Wt = t3 /\ ~pushed
  <2>1. accepted => Wq = t3 /\ Wt = t3
    <3>1. accepted => HostMoves(TRUE, start, prompt, t) /\ req_wr_en(start)
      BY DEF HostMoves
    <3> QED
      BY <3>1, AcceptedWhenOver
  <2> QED
    BY <2>1
<1>2. /\ t3 <= t2 /\ t2 <= t1 /\ t1 <= Wt /\ Wt <= Wq /\ Wt <= V2 /\ V2 <= W2 /\ Wq <= t3 + 1
      /\ (pushed => Wt = t1 /\ V2 = Wt + 1) /\ (~pushed => V2 = Wt)
  BY <1>1 DEF Toggles, One
<1>3. CASE ~host_ticks
  <2>1. h' = h /\ may_start' = may_start /\ ~accepted /\ ~taken
    BY <1>3 DEF HostMoves
  <2>2. Toggles(W2, V2, t1, t2, t3)'
    <3>1. W2 = Wq
      BY <2>1 DEF One
    <3>2. c'.done_tgl # h'.tgl1 <=> V2 # t1
      BY <1>2, <2>1 DEF Toggles, Shapes
    <3> QED
      BY <1>2, <2>1, <3>1, <3>2 DEF Toggles
  <2>3. Shown(R2, d1, d2, t1, t2, t3)'
    <3>1. R2 = Rt /\ d1 = b1 /\ d2 = b2 /\ tok_r' = tok_r
      BY <1>3, <2>1 DEF HostReads, One
    <3> QED
      BY <2>1, <3>1 DEF Shown
  <2> QED
    BY <2>2, <2>3
<1>4. CASE host_ticks
  <2>1. /\ h'.tgl1 = t /\ h'.tgl2 = h.tgl1 /\ h'.tgl3 = h.tgl2 /\ h'.tok_rd_d = tok_rd_en
        /\ h'.done = done_edge
        /\ may_start' = IF start THEN h.start_d /\ may_start ELSE may_start \/ h'.done
    BY <1>4, SMTT(30) DEF HostMoves, HostRegs, Observe
  <2>2. PICK s1 \in Nat : /\ s1 = IF t = c.done_tgl THEN Wt ELSE V2
    OBVIOUS
  <2>3. t1 <= s1 /\ s1 <= V2 /\ W2 <= t2 + 1
    BY <1>1, <1>2, <2>2 DEF One
  <2>4. c'.done_tgl # h'.tgl1 <=> V2 # s1
    BY <1>2, <2>1, <2>2
  <2>5. h'.tgl1 # h'.tgl2 <=> s1 # t1
    <3>1. CASE t = c.done_tgl
      BY <2>1, <2>2, <3>1 DEF Toggles
    <3>2. CASE t # c.done_tgl
      <4>1. pushed /\ s1 = Wt + 1 /\ Wt = t1
        BY <1>2, <2>2, <3>2
      <4>2. c.done_tgl = h.tgl1
        BY <4>1 DEF Toggles
      <4> QED
        BY <2>1, <3>2, <4>1, <4>2
    <3> QED
      BY <3>1, <3>2
  <2>6. h'.tgl2 # h'.tgl3 <=> t1 # t2
    BY <2>1 DEF Toggles
  <2>7. may_start' => W2 = t2
    <3>1. CASE start
      <4>1. may_start' => h.start_d /\ may_start
        BY <2>1, <3>1
      <4>2. h.start_d => ~accepted
        BY DEF req_wr_en
      <4> QED
        BY <1>2, <4>1, <4>2 DEF Toggles, One
    <3>2. CASE ~start
      <4>1. ~accepted
        BY <3>2 DEF req_wr_en
      <4>2. may_start' => may_start \/ h.tgl3 # h.tgl2
        BY <2>1, <3>2 DEF done_edge
      <4>3. may_start' => Wq = t3 \/ t2 # t3
        BY <4>2 DEF Toggles
      <4> QED
        BY <1>2, <4>1, <4>3 DEF One
    <3> QED
      BY <3>1, <3>2
  <2>8. Toggles(W2, V2, s1, t1, t2)'
    BY <1>2, <2>3, <2>4, <2>5, <2>6, <2>7 DEF Toggles
  <2>9. /\ Wt <= d1 /\ d2 = b1 /\ (tok_r'.empty <=> R2 = b2) /\ R2 = Rt + One(taken)
        /\ (taken <=> ~tok_r.empty /\ ~h.tok_rd_d) /\ (h'.tok_rd_d <=> taken)
    BY <1>4, <2>1 DEF HostReads, tok_rd_en
  <2>10. /\ t2 <= b1 /\ t3 <= b2 /\ t3 + One(h.tok_rd_d) <= Rt + 1
         /\ t3 < t2 => t3 <= Rt
         /\ t3 < t1 => t3 <= Rt \/ ~tok_r.empty
    BY DEF Shown
  <2>11. t1 <= d1 /\ t2 <= d2 /\ t2 + One(taken) <= R2 + 1
    BY <1>2, <2>9, <2>10 DEF One
  <2>12. t2 < t1 => t2 <= R2
    <3>1. t2 < t1 => t2 = t3 /\ t3 < t1
      BY <1>2
    <3>2. t3 < t1 => t3 <= R2
      <4>1. CASE h.tok_rd_d
        BY <2>9, <2>10, <4>1 DEF One
      <4>2. CASE ~h.tok_rd_d
        <5>1. t3 <= Rt + 1
          BY <2>10, <4>2 DEF One
        <5>2. t3 <= Rt \/ R2 = Rt + 1 \/ ~(t3 < t1)
          BY <2>9, <2>10, <4>2 DEF One
        <5>3. R2 >= Rt
          BY <2>9 DEF One
        <5> QED
          BY <5>1, <5>2, <5>3
      <4> QED
        BY <4>1, <4>2
    <3> QED
      BY <3>1, <3>2
  <2>13. t2 < s1 => t2 <= R2 \/ ~tok_r'.empty
    <3>1. t2 < s1 => t2 = t3
      BY <1>1, <1>2, <2>3 DEF One
    <3> QED
      BY <2>9, <2>10, <3>1
  <2>14. Shown(R2, d1, d2, s1, t1, t2)'
    <3>1. One(h'.tok_rd_d) = One(taken)
      BY <2>9 DEF One
    <3>2. (t2 <= d2) /\ (t1 <= d1) /\ t2 + One(h'.tok_rd_d) <= R2 + 1
      BY <2>11, <3>1
    <3> QED
      BY <3>2, <2>12, <2>13 DEF Shown, One
  <2> QED
    BY <2>2, <2>8, <2>14
<1> QED
  BY <1>3, <1>4

(* The late flag of the token FIFO sees room for every token.              *)
CoreWrites(core_ticks, pushed, Wt, Rt, a1, a2, W2, c1, c2) ==
  /\ W2 = Wt + One(pushed)
  /\ IF core_ticks THEN Rt <= c1 /\ c2 = a1 /\ (tok_w'.full <=> W2 = a2 + TokF!DEPTH)
     ELSE c1 = a1 /\ c2 = a2 /\ (tok_w'.full => tok_w.full)

Behind(Wq, Wt, Rt) == Wt <= Wq /\ Wq <= Rt + 2

LEMMA RoomStep ==
  ASSUME NEW host_ticks, NEW core_ticks, NEW start \in BOOLEAN, NEW accepted, NEW popped, NEW pushed, NEW taken,
         Moving(host_ticks, core_ticks, start, accepted, popped, pushed, taken),
         NEW Wq \in Nat, NEW Wt \in Nat, NEW Rt \in Nat, NEW a1 \in Nat, NEW a2 \in Nat,
         NEW W2 \in Nat, NEW c1 \in Nat, NEW c2 \in Nat, NEW x \in Word, FlightMoves(popped, pushed, Wq, Wt, x),
         Behind(Wq, Wt, Rt), Room(Wt, a1, a2),
         CoreWrites(core_ticks, pushed, Wt, Rt, a1, a2, W2, c1, c2)
  PROVE  Room(W2, c1, c2)'
<1> USE DEF Moving, Answering, FlightMoves, Behind
<1>1. /\ Wt <= a1 + 2 /\ Wt <= a2 + 3 /\ (InFlight > 0 => Wt <= a2 + 2) /\ ~tok_w.full
  BY DEF Room
<1>3. TokF!DEPTH \in Nat /\ TokF!DEPTH >= 4
  BY Assumptions
<1>4. CASE ~core_ticks
  <2>1. W2 = Wt /\ InFlight' = InFlight /\ c1 = a1 /\ c2 = a2 /\ ~tok_w'.full
    BY <1>1, <1>4 DEF CoreWrites, One
  <2> QED
    BY <1>1, <2>1 DEF Room
<1>5. CASE core_ticks
  <2>1. Rt <= c1 /\ c2 = a1 /\ (tok_w'.full <=> W2 = a2 + TokF!DEPTH) /\ W2 = Wt + One(pushed)
    BY <1>5 DEF CoreWrites
  <2>2. W2 <= c1 + 2
    BY <2>1 DEF One
  <2>3. W2 <= c2 + 3 /\ W2 < a2 + 4
    BY <1>1, <2>1 DEF One
  <2>4. InFlight' > 0 => W2 <= c2 + 2
    <3>1. CASE pushed
      <4>1. InFlight' = 0
        BY <3>1 DEF One
      <4> QED
        BY <4>1
    <3>2. CASE ~pushed
      BY <1>1, <2>1, <3>2 DEF One
    <3> QED
      BY <3>1, <3>2
  <2>5. ~tok_w'.full
    BY <1>3, <2>1, <2>3
  <2> QED
    BY <2>2, <2>3, <2>4, <2>5 DEF Room
<1> QED
  BY <1>4, <1>5
-----------------------------------------------------------------------------
(* Sequences of words on their way.                                        *)
LEMMA Fronts ==
  ASSUME NEW S, NEW d \in S, NEW q \in Seq(S)
  PROVE  /\ At(TRUE, d) \o q \in Seq(S) /\ Len(At(TRUE, d) \o q) = Len(q) + 1
         /\ Head(At(TRUE, d) \o q) = d /\ Tail(At(TRUE, d) \o q) = q
<1> DEFINE f == <<d>> \o q
<1>1. <<d>> \in Seq(S) /\ Len(<<d>>) = 1 /\ <<d>>[1] = d /\ Len(q) \in Nat
  OBVIOUS
<1>2. f \in Seq(S) /\ Len(f) = 1 + Len(q)
      /\ \A i \in 1 .. Len(f) : f[i] = IF i <= 1 THEN <<d>>[i] ELSE q[i - 1]
  BY <1>1, ConcatProperties
<1> HIDE DEF f
<1>3. Head(f) = d /\ f # << >>
  BY <1>1, <1>2
<1>4. Tail(f) \in Seq(S) /\ Len(Tail(f)) = Len(q) /\ \A i \in 1 .. Len(q) : Tail(f)[i] = f[i + 1]
  BY <1>1, <1>2, <1>3, HeadTailProperties
<1>5. \A i \in 1 .. Len(q) : Tail(f)[i] = q[i]
  BY <1>1, <1>2, <1>4
<1>6. Tail(f) = q
  BY <1>4, <1>5, SeqEqual
<1>7. At(TRUE, d) \o q = f
  BY DEF At, f
<1>8. Len(f) = Len(q) + 1
  BY <1>1, <1>2
<1>9. f \in Seq(S) /\ Len(f) = Len(q) + 1 /\ Head(f) = d /\ Tail(f) = q
  BY <1>2, <1>3, <1>6, <1>8
<1> QED
  BY <1>7, <1>9

LEMMA Backs ==
  ASSUME NEW S, NEW s \in Seq(S), NEW q \in Seq(S), NEW x \in S
  PROVE  /\ \A y : s \o At(FALSE, y) = s /\ At(FALSE, y) \o s = s
         /\ s \o At(TRUE, x) = Append(s, x)
         /\ s \o Append(q, x) = Append(s \o q, x)
         /\ s # << >> => Tail(Append(s, x)) = Append(Tail(s), x) /\ Head(Append(s, x)) = Head(s)
         /\ s # << >> => At(TRUE, Head(s)) \o Tail(s) = s
<1>1. s \o << >> = s /\ << >> \o s = s
  BY ConcatEmptySeq
<1>2. s \o <<x>> = Append(s, x)
  OBVIOUS
<1>3. s \o Append(q, x) = Append(s \o q, x)
  <2>1. <<x>> \in Seq(S) /\ Append(q, x) = q \o <<x>> /\ s \o q \in Seq(S)
    OBVIOUS
  <2>2. s \o (q \o <<x>>) = (s \o q) \o <<x>>
    BY <2>1, ConcatAssociative
  <2> QED
    BY <2>1, <2>2
<1>4. s # << >> => Tail(Append(s, x)) = Append(Tail(s), x) /\ Head(Append(s, x)) = Head(s)
  OBVIOUS
<1>5. s # << >> => <<Head(s)>> \o Tail(s) = s
  OBVIOUS
<1> QED
  BY <1>1, <1>2, <1>3, <1>4, <1>5 DEF At
-----------------------------------------------------------------------------
(* The clocks that tick in an edge, and what each FIFO makes of it.        *)
ReqActs(host_clk, start, prompt, core_clk) ==
  /\ host_clk \/ core_clk
  /\ host_clk /\ ~core_clk => Req!WriteClock(req_wr_en(start), prompt)
  /\ core_clk /\ ~host_clk => Req!ReadClock(req_rd_en)
  /\ host_clk /\ core_clk => Req!BothClocks(req_wr_en(start), prompt, req_rd_en)

TokActs(host_clk, core_clk) ==
  /\ host_clk \/ core_clk
  /\ core_clk /\ ~host_clk => Tok!WriteClock(tok_wr_en, sys.tok)
  /\ host_clk /\ ~core_clk => Tok!ReadClock(tok_rd_en)
  /\ host_clk /\ core_clk => Tok!BothClocks(tok_wr_en, sys.tok, tok_rd_en)

LEMMA ReqEdge ==
  ASSUME ReqF!FifoTypes, ~arst, NEW Wq \in Nat, NEW Rq \in Nat, ReqF!Lagging(Wq, Rq),
         NEW host_clk, NEW core_clk, NEW start \in BOOLEAN, NEW prompt \in Word,
         ReqActs(host_clk, start, prompt, core_clk), NEW host_ticks, NEW core_ticks,
         Ticks(host_clk, core_clk, host_ticks, core_ticks), NEW accepted, NEW popped, NEW pushed, NEW taken,
         Moving(host_ticks, core_ticks, start, accepted, popped, pushed, taken)
  PROVE  \E W2, R2 \in Nat : /\ ReqMoves(accepted, prompt, core_ticks, popped, Wq, Rq, W2, R2)
                            /\ ReqF!Lagging(W2, R2)' /\ ReqF!FifoTypes' /\ ~arst'
<1> USE DEF Ticks, Moving, Answering
<1>1. PICK a1, a2, b1, b2 \in Nat : ReqF!Lags(Wq, Rq, a1, a2, b1, b2)
  BY DEF ReqF!Lagging
<1>2. PICK wr_en, rd_en \in BOOLEAN : (wr_en <=> req_wr_en(start)) /\ (rd_en <=> req_rd_en)
  BY DEF req_wr_en, req_rd_en
<1>3. /\ ReqF!wrst <=> host_rst
      /\ ReqF!rrst <=> core_rst
      /\ ReqF!Wrote(wr_en) <=> ~host_rst /\ req_wr_en(start)
      /\ ReqF!Took(rd_en) <=> ~core_rst /\ req_rd_en
  BY <1>2 DEF ReqF!wrst, ReqF!rrst, host_rst, core_rst, ReqF!Wrote, ReqF!Took,
              ReqF!do_write, ReqF!do_read, req_wr_en, req_rd_en
<1>4. ReqF!FifoAssumption
  BY Assumptions
<1>5. ReqF!Advances(host_clk, accepted, prompt, core_clk, popped, Wq, Rq, a1, a2, b1, b2)
  <2>1. CASE host_clk /\ core_clk
    <3>1. accepted = ReqF!Wrote(wr_en) /\ popped = ReqF!Took(rd_en)
      BY <1>3, <2>1 DEF ReqF!Wrote, ReqF!Took
    <3>2. ReqF!BothClocks(wr_en, prompt, rd_en)
      BY <1>2, <2>1, SameReq DEF ReqActs, req_wr_en, req_rd_en
    <3>3. ReqF!Advances(TRUE, ReqF!Wrote(wr_en), prompt, TRUE, ReqF!Took(rd_en), Wq, Rq, a1, a2, b1, b2)
      BY <1>1, <1>4, <3>2, ReqF!BothAdvance
    <3>4. host_clk = TRUE /\ core_clk = TRUE
      BY <2>1
    <3> QED
      BY <3>1, <3>3, <3>4
  <2>2. CASE host_clk /\ ~core_clk
    <3>1. accepted = ReqF!Wrote(wr_en) /\ popped = FALSE
      BY <1>3, <2>2 DEF ReqF!Wrote
    <3>2. ReqF!WriteClock(wr_en, prompt)
      BY <1>2, <2>2, SameReq DEF ReqActs, req_wr_en
    <3>3. ReqF!Advances(TRUE, ReqF!Wrote(wr_en), prompt, FALSE, FALSE, Wq, Rq, a1, a2, b1, b2)
      BY <1>1, <1>4, <3>2, ReqF!WriteAdvances
    <3>4. host_clk = TRUE /\ core_clk = FALSE
      BY <2>2
    <3> QED
      BY <3>1, <3>3, <3>4
  <2>3. CASE ~host_clk /\ core_clk
    <3>1. accepted = FALSE /\ popped = ReqF!Took(rd_en)
      BY <1>3, <2>3 DEF ReqF!Took
    <3>2. ReqF!ReadClock(rd_en)
      BY <1>2, <2>3, SameReq DEF ReqActs, req_rd_en
    <3>3. ReqF!Advances(FALSE, FALSE, prompt, TRUE, ReqF!Took(rd_en), Wq, Rq, a1, a2, b1, b2)
      BY <1>1, <1>4, <3>2, ReqF!ReadAdvances
    <3>4. host_clk = FALSE /\ core_clk = TRUE
      BY <2>3
    <3> QED
      BY <3>1, <3>3, <3>4
  <2> QED
    BY <2>1, <2>2, <2>3 DEF ReqActs
<1>6. ReqF!Advances(host_ticks, accepted, prompt, core_ticks, popped, Wq, Rq, a1, a2, b1, b2)
  <2>1. (ReqF!wrst => ~accepted) /\ (ReqF!rrst => ~popped)
    BY <1>3
  <2>2. host_ticks = (host_clk /\ ~ReqF!wrst) /\ core_ticks = (core_clk /\ ~ReqF!rrst)
    BY <1>3
  <2>3. ReqF!Advances(host_clk /\ ~ReqF!wrst, accepted, prompt, core_clk /\ ~ReqF!rrst, popped,
                      Wq, Rq, a1, a2, b1, b2)
    BY <1>1, <1>4, <1>5, <2>1, ReqF!AwakeEdges
  <2> QED
    BY <2>2, <2>3
<1>7. PICK W2, R2, c1, c2, d1, d2 \in Nat :
        /\ W2 = Wq + One(accepted) /\ R2 = Rq + One(popped) /\ ReqF!Lags(W2, R2, c1, c2, d1, d2)'
        /\ ReqF!ReaderSees(core_ticks, Wq, R2, b1, b2, d1, d2)
        /\ ReqF!FifoTypes' /\ ~arst' /\ ReqF!QueueMoves(accepted, prompt, popped)
  BY <1>6 DEF ReqF!Advances, ReqF!One, One
<1>8. Req!queue \in Seq(Token) /\ Len(Req!queue) = Wq - Rq
  BY <1>4, ReqF!QueueLength, SameReq DEF Token, ReqF!RamWord
<1>9. ReqF!Lagging(W2, R2)' /\ R2 <= W2
  BY <1>7 DEF ReqF!Lagging, ReqF!Lags
<1>10. /\ Req!queue' = ReqF!Moved(Req!queue, accepted, prompt, popped)
       /\ popped => Req!queue # << >> /\ req_r'.data = Head(Req!queue)
  <2>1. (Req!queue = ReqF!queue)'
    BY SameReq, PTL
  <2> QED
    BY <1>7, <2>1, SameReq DEF ReqF!QueueMoves
<1>11. ~core_ticks => req_r' = req_r
  BY <1>7 DEF ReqF!ReaderSees
<1> QED
  BY <1>7, <1>8, <1>9, <1>10, <1>11 DEF ReqMoves

(* The core has a token to write, and room for it.                         *)
Offers(token) == ~tok_w.full /\ (sys.done => token = sys.tok)

TokGoes(core_ticks, pushed, token, host_ticks, taken, Wt, Rt, a1, a2, b1, b2) ==
  \E W2, R2, c1, c2, d1, d2 \in Nat :
    /\ TokMoves(core_ticks, pushed, token, host_ticks, taken,
                Wt, Rt, a1, a2, b1, b2, W2, R2, c1, c2, d1, d2)
    /\ TokF!Lags(W2, R2, c1, c2, d1, d2)' /\ TokF!FifoTypes'

LEMMA TokEdge ==
  ASSUME TokF!FifoTypes, ~arst, NEW Wt \in Nat, NEW Rt \in Nat, NEW a1 \in Nat, NEW a2 \in Nat,
         NEW b1 \in Nat, NEW b2 \in Nat, TokF!Lags(Wt, Rt, a1, a2, b1, b2),
         NEW host_clk, NEW core_clk, TokActs(host_clk, core_clk),
         NEW token \in Word, Offers(token), NEW host_ticks, NEW core_ticks,
         Ticks(host_clk, core_clk, host_ticks, core_ticks), NEW pushed, NEW taken,
         Answering(host_ticks, core_ticks, pushed, taken)
  PROVE  TokGoes(core_ticks, pushed, token, host_ticks, taken, Wt, Rt, a1, a2, b1, b2)
<1> USE DEF Ticks, Answering, Offers
<1>2. PICK wr_en, rd_en \in BOOLEAN : (wr_en <=> tok_wr_en) /\ (rd_en <=> tok_rd_en)
  BY DEF tok_wr_en, tok_rd_en
<1>3. /\ TokF!wrst <=> core_rst
      /\ TokF!rrst <=> host_rst
      /\ TokF!Wrote(wr_en) <=> ~core_rst /\ sys.done
      /\ TokF!Took(rd_en) <=> ~host_rst /\ tok_rd_en
  BY <1>2 DEF TokF!wrst, TokF!rrst, host_rst, core_rst, TokF!Wrote, TokF!Took,
              TokF!do_write, TokF!do_read, tok_wr_en, tok_rd_en
<1>4. TokF!FifoAssumption
  BY Assumptions
<1>5. TokF!Advances(core_clk, pushed, token, host_clk, taken, Wt, Rt, a1, a2, b1, b2)
  <2>0. /\ TokF!WriteClock(wr_en, sys.tok) => TokF!WriteClock(wr_en, token)
        /\ TokF!BothClocks(wr_en, sys.tok, rd_en) => TokF!BothClocks(wr_en, token, rd_en)
    <3>1. TokF!Store(wr_en, sys.tok) => TokF!Store(wr_en, token)
      BY <1>2 DEF TokF!Store, TokF!do_write, tok_wr_en
    <3> QED
      BY <3>1 DEF TokF!WriteClock, TokF!BothClocks
  <2>1. CASE host_clk /\ core_clk
    <3>1. pushed = TokF!Wrote(wr_en) /\ taken = TokF!Took(rd_en)
      BY <1>3, <2>1 DEF TokF!Wrote, TokF!Took
    <3>0. TokF!BothClocks(wr_en, sys.tok, rd_en)
      BY <1>2, <2>1, SameTok DEF TokActs, tok_wr_en, tok_rd_en
    <3>2. TokF!BothClocks(wr_en, token, rd_en)
      BY <2>0, <3>0
    <3>3. TokF!Advances(TRUE, TokF!Wrote(wr_en), token, TRUE, TokF!Took(rd_en), Wt, Rt, a1, a2, b1, b2)
      BY <1>4, <3>2, TokF!BothAdvance
    <3>4. host_clk = TRUE /\ core_clk = TRUE
      BY <2>1
    <3> QED
      BY <3>1, <3>3, <3>4
  <2>2. CASE core_clk /\ ~host_clk
    <3>1. pushed = TokF!Wrote(wr_en) /\ taken = FALSE
      BY <1>3, <2>2 DEF TokF!Wrote
    <3>0. TokF!WriteClock(wr_en, sys.tok)
      BY <1>2, <2>2, SameTok DEF TokActs, tok_wr_en
    <3>2. TokF!WriteClock(wr_en, token)
      BY <2>0, <3>0
    <3>3. TokF!Advances(TRUE, TokF!Wrote(wr_en), token, FALSE, FALSE, Wt, Rt, a1, a2, b1, b2)
      BY <1>4, <3>2, TokF!WriteAdvances
    <3>4. host_clk = FALSE /\ core_clk = TRUE
      BY <2>2
    <3> QED
      BY <3>1, <3>3, <3>4
  <2>3. CASE ~core_clk /\ host_clk
    <3>1. pushed = FALSE /\ taken = TokF!Took(rd_en)
      BY <1>3, <2>3 DEF TokF!Took
    <3>2. TokF!ReadClock(rd_en)
      BY <1>2, <2>3, SameTok DEF TokActs, tok_rd_en
    <3>3. TokF!Advances(FALSE, FALSE, token, TRUE, TokF!Took(rd_en), Wt, Rt, a1, a2, b1, b2)
      BY <1>4, <3>2, TokF!ReadAdvances
    <3>4. host_clk = TRUE /\ core_clk = FALSE
      BY <2>3
    <3> QED
      BY <3>1, <3>3, <3>4
  <2> QED
    BY <2>1, <2>2, <2>3 DEF TokActs
<1>6. TokF!Advances(core_ticks, pushed, token, host_ticks, taken, Wt, Rt, a1, a2, b1, b2)
  <2>1. (TokF!wrst => ~pushed) /\ (TokF!rrst => ~taken)
    BY <1>3
  <2>2. core_ticks = (core_clk /\ ~TokF!wrst) /\ host_ticks = (host_clk /\ ~TokF!rrst)
    BY <1>3
  <2>3. TokF!Advances(core_clk /\ ~TokF!wrst, pushed, token, host_clk /\ ~TokF!rrst, taken,
                      Wt, Rt, a1, a2, b1, b2)
    BY <1>4, <1>5, <2>1, TokF!AwakeEdges
  <2> QED
    BY <2>2, <2>3
<1>7. PICK W2, R2, c1, c2, d1, d2 \in Nat :
        /\ W2 = Wt + One(pushed) /\ R2 = Rt + One(taken) /\ TokF!Lags(W2, R2, c1, c2, d1, d2)'
        /\ TokF!WriterSees(core_ticks, Rt, W2, a1, a2, c1, c2)
        /\ TokF!ReaderSees(host_ticks, Wt, R2, b1, b2, d1, d2)
        /\ TokF!FifoTypes' /\ TokF!QueueMoves(pushed, token, taken)
  BY <1>6 DEF TokF!Advances, TokF!One, One
<1>8. Tok!queue \in Seq(Token) /\ Len(Tok!queue) = Wt - Rt
  <2>1. TokF!Lagging(Wt, Rt)
    BY DEF TokF!Lagging
  <2> QED
    BY <1>4, <2>1, TokF!QueueLength, SameTok DEF Token, TokF!RamWord
<1>9. c2 <= c1 /\ c1 <= R2 /\ R2 <= d2 /\ d2 <= d1 /\ d1 <= W2
  BY <1>7 DEF TokF!Lags
<1>10. /\ Tok!queue' = TokF!Moved(Tok!queue, pushed, token, taken)
       /\ taken => Tok!queue # << >> /\ tok_r'.data = Head(Tok!queue)
  <2>1. (Tok!queue = TokF!queue)'
    BY SameTok, PTL
  <2> QED
    BY <1>7, <2>1, SameTok DEF TokF!QueueMoves
<1>11. /\ IF core_ticks THEN Rt <= c1 /\ c2 = a1 /\ (tok_w'.full <=> W2 = a2 + TokF!DEPTH)
          ELSE c1 = a1 /\ c2 = a2 /\ (tok_w'.full => tok_w.full)
       /\ IF host_ticks THEN Wt <= d1 /\ d2 = b1 /\ (tok_r'.empty <=> R2 = b2)
          ELSE d1 = b1 /\ d2 = b2 /\ tok_r' = tok_r
  BY <1>3, <1>7 DEF TokF!WriterSees, TokF!ReaderSees
<1>12. TokMoves(core_ticks, pushed, token, host_ticks, taken,
                Wt, Rt, a1, a2, b1, b2, W2, R2, c1, c2, d1, d2)
  BY <1>7, <1>8, <1>9, <1>10, <1>11 DEF TokMoves
<1> QED
  BY <1>7, <1>12 DEF TokGoes
-----------------------------------------------------------------------------
(* What an edge leaves of the tokens on their way to the host.             *)
Left(host_ticks) == IF host_ticks /\ h.tok_rd_d THEN Tail(Front) ELSE Front

FrontMoves(host_ticks, pushed, x) ==
  /\ Front \in Seq(Token) /\ Left(host_ticks) \in Seq(Token)
  /\ Front' = IF pushed THEN Append(Left(host_ticks), x) ELSE Left(host_ticks)
  /\ h'.tok_rd_d => tok_r'.data \in Token
  /\ h.tok_rd_d => Front # << >> /\ Head(Front) = tok_r.data

LEMMA FrontStep ==
  ASSUME Shapes, NEW host_ticks \in BOOLEAN, NEW start, NEW prompt, NEW t,
         HostMoves(host_ticks, start, prompt, t), NEW core_ticks, NEW pushed \in BOOLEAN,
         NEW taken \in BOOLEAN, taken <=> host_ticks /\ tok_rd_en, NEW x \in Word,
         h.tok_rd_d => tok_r.data \in Token,
         Tok!queue \in Seq(Token), Tok!queue' = TokF!Moved(Tok!queue, pushed, x, taken),
         taken => Tok!queue # << >> /\ tok_r'.data = Head(Tok!queue),
         ~host_ticks => tok_r' = tok_r
  PROVE  FrontMoves(host_ticks, pushed, x) /\ Len(Front) = One(h.tok_rd_d) + Len(Tok!queue)
<1> DEFINE q == Tok!queue
           d == tok_r.data
<1>1. x \in Token /\ h.tok_rd_d \in BOOLEAN /\ (taken => ~h.tok_rd_d /\ host_ticks) /\ q \in Seq(Token)
      /\ Len(q) \in Nat
  BY DEF Token, Shapes, tok_rd_en
<1>2. ~taken => q' = IF pushed THEN Append(q, x) ELSE q
  BY DEF TokF!Moved
<1>3. CASE h.tok_rd_d
  <2>1. d \in Token /\ ~taken
    BY <1>1, <1>3
  <2>2. /\ Front = At(TRUE, d) \o q /\ Front \in Seq(Token) /\ Len(Front) = Len(q) + 1
        /\ Head(Front) = d /\ Tail(Front) = q
    <3>1. Front = At(TRUE, d) \o q
      BY <1>3 DEF Front, At
    <3> HIDE DEF q, d
    <3> QED
      BY <1>1, <2>1, <3>1, Fronts
  <2>3. Front # << >> /\ Len(Front) = One(h.tok_rd_d) + Len(q)
    <3>1. Len(Front) = Len(q) + 1 /\ Len(q) \in Nat
      BY <1>1, <2>2
    <3>2. One(h.tok_rd_d) = 1
      BY <1>3 DEF One
    <3>3. Len(Front) # 0 /\ Len(Front) = One(h.tok_rd_d) + Len(q)
      BY <3>1, <3>2
    <3> QED
      BY <3>3, EmptySeq
  <2>4. CASE host_ticks
    <3>1. ~h'.tok_rd_d
      BY <1>3, <2>4 DEF HostMoves, HostRegs, tok_rd_en
    <3>2. Front' = At(FALSE, d') \o q'
      BY <3>1 DEF Front, At
    <3>3. q' \in Seq(Token)
      BY <1>1, <1>2, <2>1
    <3>4. Front' = q'
      <4>1. At(FALSE, d') = << >>
        BY DEF At
      <4> HIDE DEF q
      <4> QED
        BY <3>2, <3>3, <4>1, ConcatEmptySeq
    <3>5. Left(host_ticks) = q
      BY <1>3, <2>2, <2>4 DEF Left
    <3> QED
      BY <1>1, <1>2, <2>1, <2>2, <2>3, <3>1, <3>4, <3>5 DEF FrontMoves
  <2>5. CASE ~host_ticks
    <3>1. h' = h /\ tok_r' = tok_r
      BY <2>5 DEF HostMoves
    <3>2. Front' = At(TRUE, d) \o q'
      BY <1>3, <3>1 DEF Front, At
    <3>3. pushed => At(TRUE, d) \o Append(q, x) = Append(At(TRUE, d) \o q, x)
      <4>2. q \in Seq(Token) /\ x \in Token
        BY <1>1
      <4> DEFINE a == At(TRUE, d)
      <4>1. a \in Seq(Token)
        BY <2>1 DEF At
      <4>3. a \o Append(q, x) = Append(a \o q, x)
        <5> HIDE DEF q, d, a
        <5> QED
          BY <4>1, <4>2, Backs
      <4> QED
        BY <4>3
    <3>4. Front' = IF pushed THEN Append(Front, x) ELSE Front
      BY <1>2, <2>1, <2>2, <3>2, <3>3
    <3>5. Left(host_ticks) = Front
      BY <2>5 DEF Left
    <3> QED
      BY <1>1, <2>1, <2>2, <2>3, <3>1, <3>4, <3>5 DEF FrontMoves
  <2> QED
    BY <2>4, <2>5
<1>4. CASE ~h.tok_rd_d
  <2>1. Front = q /\ Left(host_ticks) = q
    <3>1. At(FALSE, d) = << >> /\ Front = At(FALSE, d) \o q
      BY <1>4 DEF Front, At
    <3>2. Front = q
      <4> HIDE DEF q
      <4> QED
        BY <1>1, <3>1, ConcatEmptySeq
    <3> QED
      BY <1>4, <3>2 DEF Left
  <2>2. Len(Front) = One(h.tok_rd_d) + Len(q)
    BY <1>1, <1>4, <2>1 DEF One
  <2>3. CASE taken
    <3>0. h'.tok_rd_d
      <4>1. tok_rd_en /\ host_ticks
        BY <2>3
      <4>2. PICK b : h' = HostRegs(start, b, t) /\ ~host_rst
        BY <4>1 DEF HostMoves
      <4>3. h'.tok_rd_d = tok_rd_en
        BY <4>2 DEF HostRegs
      <4> QED
        BY <4>1, <4>3
    <3>1. h'.tok_rd_d /\ d' = Head(q) /\ q # << >> /\ host_ticks
      BY <1>1, <2>3, <3>0
    <3>2. Front' = At(TRUE, Head(q)) \o q'
      BY <3>1 DEF Front, At
    <3>3. q' = IF pushed THEN Append(Tail(q), x) ELSE Tail(q)
      BY <2>3 DEF TokF!Moved
    <3>4. At(TRUE, Head(q)) \o Tail(q) = q /\ Tail(q) \in Seq(Token) /\ Head(q) \in Token
      <4>1. Tail(q) \in Seq(Token) /\ Head(q) \in Token
        BY <1>1, <3>1
      <4> HIDE DEF q
      <4> QED
        BY <1>1, <3>1, <4>1, Backs
    <3>5. pushed => At(TRUE, Head(q)) \o Append(Tail(q), x) = Append(q, x)
      <4>1. At(TRUE, Head(q)) \in Seq(Token)
        BY <3>4 DEF At
      <4> DEFINE a == At(TRUE, Head(q))
                 b == Tail(q)
      <4>0. a \in Seq(Token) /\ b \in Seq(Token) /\ x \in Token
        BY <1>1, <3>4, <4>1
      <4>2. a \o Append(b, x) = Append(a \o b, x)
        <5> HIDE DEF a, b, q
        <5> QED
          BY <4>0, Backs
      <4> QED
        BY <3>4, <4>2
    <3>6. Front' = IF pushed THEN Append(q, x) ELSE q
      BY <3>2, <3>3, <3>4, <3>5
    <3> QED
      BY <1>1, <1>4, <2>1, <2>2, <3>1, <3>4, <3>6 DEF FrontMoves
  <2>4. CASE ~taken
    <3>1. ~h'.tok_rd_d
      BY <1>4, <2>4 DEF HostMoves, HostRegs
    <3>2. Front' = At(FALSE, d') \o q' /\ At(FALSE, d') = << >>
      BY <3>1 DEF Front, At
    <3>3. q' \in Seq(Token)
      BY <1>1, <1>2, <2>4
    <3>4. Front' = q'
      <4> HIDE DEF q
      <4> QED
        BY <3>2, <3>3, ConcatEmptySeq
    <3> QED
      BY <1>1, <1>2, <1>4, <2>1, <2>2, <2>4, <3>1, <3>4 DEF FrontMoves
  <2> QED
    BY <2>3, <2>4
<1> QED
  BY <1>1, <1>3, <1>4

OwedMoves(host_ticks, accepted, prompt) ==
  LET shown == host_ticks /\ h.tok_rd_d
      rest == IF shown THEN Tail(owed) ELSE owed
  IN  /\ owed' = IF accepted THEN Append(rest, prompt) ELSE rest
      /\ shown => owed # << >> /\ Head(owed) = tok_r.data

LEMMA OwedStep ==
  ASSUME NEW host_ticks, NEW core_ticks, NEW start \in BOOLEAN, NEW prompt \in Word, NEW t,
         HostMoves(host_ticks, start, prompt, t), NEW accepted, NEW popped, NEW pushed, NEW taken,
         Moving(host_ticks, core_ticks, start, accepted, popped, pushed, taken),
         NEW x \in Word, NEW x2 \in Word, FrontMoves(host_ticks, pushed, x),
         NEW Wq \in Nat, NEW Rq \in Nat, NEW Wt \in Nat, NEW W2 \in Nat, NEW V2 \in Nat,
         OwedCounts(Wq, Wt, x), Accepting(accepted, pushed, prompt, Wq, Rq, Wt, W2, V2, x, x2),
         FlightMoves(popped, pushed, Wq, Wt, x)
  PROVE  OwedCounts(W2, V2, x2)' /\ OwedMoves(host_ticks, accepted, prompt)
<1> USE DEF Moving, Answering, Accepting, FlightMoves
<1> DEFINE f1 == Left(host_ticks)
           g == At(Wt < Wq, x)
           shown == host_ticks /\ h.tok_rd_d
           rest == IF shown THEN Tail(owed) ELSE owed
<1>1. /\ Front \in Seq(Token) /\ f1 \in Seq(Token) /\ x \in Token /\ prompt \in Token
      /\ owed = Front \o g /\ (shown => Front # << >> /\ Head(Front) = tok_r.data)
      /\ g = IF Wt < Wq THEN <<x>> ELSE << >>
  BY DEF FrontMoves, Token, OwedCounts, At
<1>2. rest = f1 \o g /\ (shown => owed # << >> /\ Head(owed) = tok_r.data)
  <2>1. CASE shown
    <3>1. f1 = Tail(Front) /\ rest = Tail(owed)
      BY <2>1 DEF Left
    <3>2. CASE Wt < Wq
      <4>1. g = <<x>> /\ Front \o <<x>> = Append(Front, x) /\ f1 \o <<x>> = Append(f1, x)
        <5> HIDE DEF f1
        <5> QED
          BY <1>1, <3>2
      <4>2. Tail(Append(Front, x)) = Append(Tail(Front), x) /\ Head(Append(Front, x)) = Head(Front)
        BY <1>1, <2>1, Backs
      <4>3. Append(Front, x) # << >>
        BY <1>1, AppendProperties
      <4> QED
        BY <1>1, <2>1, <3>1, <4>1, <4>2, <4>3
    <3>3. CASE ~(Wt < Wq)
      <4>1. g = << >> /\ Front \o << >> = Front /\ f1 \o << >> = f1
        <5> HIDE DEF f1
        <5> QED
          BY <1>1, <3>3, ConcatEmptySeq
      <4> QED
        BY <1>1, <2>1, <3>1, <4>1
    <3> QED
      BY <3>2, <3>3
  <2>2. CASE ~shown
    BY <1>1, <2>2 DEF Left
  <2> QED
    BY <2>1, <2>2
<1>3. owed' = IF accepted THEN Append(rest, prompt) ELSE rest
  <2>1. CASE ~host_ticks
    BY <2>1 DEF HostMoves
  <2>2. CASE host_ticks
    <3>1. PICK b : h' = HostRegs(start, b, t) /\ ~host_rst /\ Observe(start, prompt)
      BY <2>2 DEF HostMoves
    <3>2. h'.tok_valid <=> h.tok_rd_d
      <4>1. h'.tok_valid = h.tok_rd_d
        BY <3>1 DEF HostRegs, tok_landed
      <4> QED
        BY <4>1
    <3>3. (h'.tok_valid /\ owed # << >>) <=> shown
      BY <1>2, <2>2, <3>2
    <3> QED
      BY <2>2, <3>1, <3>3 DEF Observe
  <2> QED
    BY <2>1, <2>2
<1>4. Front' = IF pushed THEN Append(f1, x) ELSE f1
  BY DEF FrontMoves
<1>5. owed' = Front' \o At(V2 < W2, x2)
  <2> HIDE DEF f1
  <2>1. CASE pushed
    <3>1. ~accepted /\ V2 = W2 /\ Wt < Wq
      BY <2>1 DEF One
    <3>2. At(V2 < W2, x2) = << >> /\ Append(f1, x) \o << >> = Append(f1, x)
          /\ f1 \o <<x>> = Append(f1, x)
      <4>1. Append(f1, x) \in Seq(Token)
        BY <1>1
      <4> QED
        BY <1>1, <3>1, <4>1, ConcatEmptySeq DEF At
    <3> QED
      BY <1>1, <1>2, <1>3, <1>4, <2>1, <3>1, <3>2
  <2>2. CASE accepted
    <3>1. ~pushed /\ V2 < W2 /\ ~(Wt < Wq) /\ x2 = prompt
      BY <2>2 DEF One
    <3>2. At(V2 < W2, x2) = <<prompt>> /\ g = << >> /\ f1 \o << >> = f1
          /\ f1 \o <<prompt>> = Append(f1, prompt)
      BY <1>1, <3>1, ConcatEmptySeq DEF At
    <3> QED
      BY <1>2, <1>3, <1>4, <2>2, <3>1, <3>2
  <2>3. CASE ~pushed /\ ~accepted
    <3>1. At(V2 < W2, x2) = g
      BY <2>3 DEF One
    <3> QED
      BY <1>2, <1>3, <1>4, <2>3, <3>1
  <2> QED
    BY <2>1, <2>2, <2>3
<1>6. (h'.tok_rd_d => tok_r'.data \in Token)
  BY DEF FrontMoves
<1>7. OwedCounts(W2, V2, x2)'
  BY <1>5, <1>6 DEF OwedCounts, At
<1>8. OwedMoves(host_ticks, accepted, prompt)
  BY <1>2, <1>3 DEF OwedMoves
<1> QED
  BY <1>7, <1>8

(* An edge is a step of the port.                                          *)
LEMMA PortStep ==
  ASSUME ~arst, ~arst', NEW host_ticks \in BOOLEAN, NEW start \in BOOLEAN, NEW prompt \in Word, NEW t,
         HostMoves(host_ticks, start, prompt, t), h.tok_rd_d \in BOOLEAN, owed \in Seq(Token),
         NEW accepted \in BOOLEAN, accepted => host_ticks, OwedMoves(host_ticks, accepted, prompt),
         accepted => Len(owed) < 2
  PROVE  [Port!Next]_(Port!vars)
<1> DEFINE shows == IF h.tok_valid /\ ~arst THEN h.next_tok ELSE Unwritten
<1>1. CASE ~host_ticks
  <2>1. h' = h /\ owed' = owed
    BY <1>1 DEF HostMoves
  <2>2. shows' = shows
    BY <2>1
  <2> QED
    BY <2>1, <2>2 DEF Port!vars
<1>2. CASE host_ticks
  <2>1. PICK b : h' = HostRegs(start, b, t) /\ ~host_rst
    BY <1>2 DEF HostMoves
  <2>2. h'.tok_valid = h.tok_rd_d /\ (h.tok_rd_d => h'.next_tok = tok_r.data)
    BY <2>1 DEF HostRegs, tok_landed
  <2>3. shows' = IF h.tok_rd_d THEN tok_r.data ELSE Unwritten
    BY <2>2
  <2> HIDE DEF shows
  <2>4. CASE h.tok_rd_d
    <3>1. owed # << >> /\ shows' = Head(owed)
          /\ owed' = IF accepted THEN Append(Tail(owed), prompt) ELSE Tail(owed)
      BY <1>2, <2>3, <2>4 DEF OwedMoves
    <3>2. CASE accepted
      <4>1. Port!PushPop(prompt)
        BY <3>1, <3>2 DEF Port!PushPop, shows
      <4> QED
        BY <4>1 DEF Port!Next
    <3>3. CASE ~accepted
      <4>1. Port!Pop
        BY <3>1, <3>3 DEF Port!Pop, shows
      <4> QED
        BY <4>1 DEF Port!Next
    <3> QED
      BY <3>2, <3>3
  <2>5. CASE ~h.tok_rd_d
    <3>1. shows' = Unwritten /\ owed' = IF accepted THEN Append(owed, prompt) ELSE owed
      BY <1>2, <2>3, <2>5 DEF OwedMoves
    <3>2. CASE accepted
      <4>1. Port!Push(prompt)
        BY <3>1, <3>2 DEF Port!Push, shows
      <4> QED
        BY <4>1 DEF Port!Next
    <3>3. CASE ~accepted
      <4>1. Port!Quiet
        BY <3>1, <3>3 DEF Port!Quiet, shows
      <4> QED
        BY <4>1 DEF Port!Next
    <3> QED
      BY <3>2, <3>3
  <2> QED
    BY <2>4, <2>5
<1> QED
  BY <1>1, <1>2
-----------------------------------------------------------------------------
Counts(Wq, Rq, Wt, Rt, a1, a2, b1, b2, t1, t2, t3, x) ==
  /\ ReqF!Lagging(Wq, Rq) /\ TokF!Lags(Wt, Rt, a1, a2, b1, b2)
  /\ CoreCounts(Wq, Rq, Wt, x) /\ Toggles(Wq, Wt, t1, t2, t3)
  /\ Shown(Rt, b1, b2, t1, t2, t3) /\ Room(Wt, a1, a2) /\ OwedCounts(Wq, Wt, x)

(* A domain still in reset holds its reset values.                         *)
Resets ==
  /\ host_rst => h = ResetH
  /\ core_rst => c = ResetC /\ sys = ResetSys

(* The invariant of the bridge.                                            *)
Bridge ==
  /\ Shapes /\ ReqF!FifoTypes /\ TokF!FifoTypes
  /\ arst => owed = << >> /\ may_start
  /\ ~arst => /\ Resets
              /\ \E Wq, Rq, Wt, Rt, a1, a2, b1, b2, t1, t2, t3 \in Nat, x \in Word :
                   Counts(Wq, Rq, Wt, Rt, a1, a2, b1, b2, t1, t2, t3, x)

LEMMA ResetsEnd ==
  ASSUME ReqF!FifoTypes, ~arst, NEW host_clk \in BOOLEAN, NEW core_clk \in BOOLEAN,
         NEW start, NEW prompt, ReqActs(host_clk, start, prompt, core_clk)
  PROVE  (host_rst' => host_rst) /\ (core_rst' => core_rst)
<1>1. /\ host_sync' = ReqF!Released(host_sync) \/ host_sync' = host_sync
      /\ core_sync' = ReqF!Released(core_sync) \/ core_sync' = core_sync
  <2>1. CASE host_clk /\ core_clk
    BY <2>1, SameReq DEF ReqActs, ReqF!BothClocks
  <2>2. CASE host_clk /\ ~core_clk
    BY <2>2, SameReq DEF ReqActs, ReqF!WriteClock
  <2>3. CASE ~host_clk /\ core_clk
    BY <2>3, SameReq DEF ReqActs, ReqF!ReadClock
  <2> QED
    BY <2>1, <2>2, <2>3 DEF ReqActs
<1>2. ReqF!FifoAssumption
  BY Assumptions
<1> QED
  BY <1>1, <1>2, ReqF!Releasing DEF host_rst, core_rst, ReqF!wrst, ReqF!rrst

(* The registers of an edge of the host.                                   *)
LEMMA ShapesKept ==
  ASSUME Shapes, NEW host_ticks \in BOOLEAN, NEW start \in BOOLEAN, NEW prompt,
         NEW core_ticks \in BOOLEAN, NEW finish \in BOOLEAN, CoreMoves(core_ticks, finish),
         NEW t \in {c.done_tgl, c'.done_tgl}, HostMoves(host_ticks, start, prompt, t),
         sys'.done => sys'.tok \in Word
  PROVE  Shapes'
<1>1. /\ c'.req_rd_d \in BOOLEAN /\ c'.start \in BOOLEAN /\ c'.done_tgl \in BOOLEAN
      /\ DOMAIN sys' = {"state", "busy", "done", "tok"}
      /\ sys'.state \in {"IDLE", "RUN", "DONE"} /\ sys'.done \in BOOLEAN
  BY CoreRegisters DEF Shapes, req_rd_en
<1>2. t \in BOOLEAN
  BY <1>1 DEF Shapes
<1>3. /\ h'.tok_rd_d \in BOOLEAN /\ h'.start_d \in BOOLEAN
      /\ h'.tgl1 \in BOOLEAN /\ h'.tgl2 \in BOOLEAN /\ h'.tgl3 \in BOOLEAN
      /\ may_start' \in BOOLEAN
  <2>1. CASE ~host_ticks
    BY <2>1 DEF HostMoves, Shapes
  <2>2. CASE host_ticks
    <3>1. PICK b : h' = HostRegs(start, b, t) /\ ~host_rst /\ Observe(start, prompt)
      BY <2>2 DEF HostMoves
    <3>2. /\ h'.tok_rd_d = tok_rd_en /\ h'.start_d = start /\ h'.done = done_edge
          /\ h'.tgl1 = t /\ h'.tgl2 = h.tgl1 /\ h'.tgl3 = h.tgl2
      BY <3>1 DEF HostRegs
    <3>3. tok_rd_en \in BOOLEAN /\ done_edge \in BOOLEAN
      BY DEF tok_rd_en, done_edge
    <3>4. may_start' \in BOOLEAN
      <4>1. may_start' = IF start THEN h.start_d /\ may_start ELSE may_start \/ h'.done
        BY <3>1 DEF Observe
      <4> QED
        BY <4>1
    <3> QED
      BY <1>2, <3>2, <3>3, <3>4 DEF Shapes
  <2> QED
    BY <2>1, <2>2
<1> QED
  BY <1>1, <1>3 DEF Shapes

(* An edge out of reset keeps the bridge and is a step of the port.        *)
LEMMA BridgeEdge ==
  ASSUME Bridge, ~arst, NEW host_clk \in BOOLEAN, NEW core_clk \in BOOLEAN,
         NEW start \in BOOLEAN, NEW prompt \in Word, NEW finish \in BOOLEAN,
         NEW t \in {c.done_tgl, c'.done_tgl},
         ReqActs(host_clk, start, prompt, core_clk), TokActs(host_clk, core_clk),
         NEW host_ticks \in BOOLEAN, NEW core_ticks \in BOOLEAN,
         Ticks(host_clk, core_clk, host_ticks, core_ticks),
         HostMoves(host_ticks, start, prompt, t), CoreMoves(core_ticks, finish)
  PROVE  Bridge' /\ [Port!Next]_(Port!vars)
<1>1. Shapes /\ ReqF!FifoTypes /\ TokF!FifoTypes /\ Resets
  BY DEF Bridge
<1>2. PICK Wq, Rq, Wt, Rt, a1, a2, b1, b2, t1, t2, t3 \in Nat, x \in Word :
        Counts(Wq, Rq, Wt, Rt, a1, a2, b1, b2, t1, t2, t3, x)
  BY DEF Bridge
<1>3. /\ ReqF!Lagging(Wq, Rq) /\ TokF!Lags(Wt, Rt, a1, a2, b1, b2)
      /\ CoreCounts(Wq, Rq, Wt, x) /\ Toggles(Wq, Wt, t1, t2, t3)
      /\ Shown(Rt, b1, b2, t1, t2, t3) /\ Room(Wt, a1, a2) /\ OwedCounts(Wq, Wt, x)
  BY <1>2 DEF Counts
<1>4. PICK accepted, popped, pushed, taken \in BOOLEAN :
        Moving(host_ticks, core_ticks, start, accepted, popped, pushed, taken)
  <2>1. \A f \in BOOLEAN : \E b \in BOOLEAN : b <=> f
    OBVIOUS
  <2>2. /\ (host_ticks /\ req_wr_en(start)) \in BOOLEAN /\ (core_ticks /\ req_rd_en) \in BOOLEAN
        /\ (core_ticks /\ sys.done) \in BOOLEAN /\ (host_ticks /\ tok_rd_en) \in BOOLEAN
    OBVIOUS
  <2> QED
    BY <2>1, <2>2 DEF Moving, Answering
<1>5. PICK W2, R2 \in Nat : /\ ReqMoves(accepted, prompt, core_ticks, popped, Wq, Rq, W2, R2)
                           /\ ReqF!Lagging(W2, R2)' /\ ReqF!FifoTypes' /\ ~arst'
  BY <1>1, <1>3, <1>4, ReqEdge
<1>6. PICK V2, S2, c1, c2, d1, d2 \in Nat :
        /\ TokMoves(core_ticks, pushed, x, host_ticks, taken,
                    Wt, Rt, a1, a2, b1, b2, V2, S2, c1, c2, d1, d2)
        /\ TokF!Lags(V2, S2, c1, c2, d1, d2)' /\ TokF!FifoTypes'
  <2>1. Offers(x)
    BY <1>3 DEF Room, CoreCounts, Offers
  <2>2. TokGoes(core_ticks, pushed, x, host_ticks, taken, Wt, Rt, a1, a2, b1, b2)
    BY <1>1, <1>3, <1>4, <2>1, TokEdge DEF Moving
  <2> QED
    BY <2>2 DEF TokGoes
<1>7. Rq <= Wq /\ Wt <= Wq /\ Wq <= Wt + 1 /\ Wt <= Wq /\ Rt <= Wt
  <2>1. Len(Req!queue) \in Nat /\ Len(Req!queue) = Wq - Rq
    BY <1>5 DEF ReqMoves
  <2>2. Len(Tok!queue) \in Nat /\ Len(Tok!queue) = Wt - Rt
    BY <1>6 DEF TokMoves
  <2>3. Wt <= Wq /\ Wq <= t3 + 1 /\ t3 <= Wt
    BY <1>3 DEF Toggles
  <2> QED
    BY <2>1, <2>2, <2>3
<1>8. accepted => Wq = t3 /\ Wt = t3
  <2>1. accepted => HostMoves(TRUE, start, prompt, t) /\ req_wr_en(start)
    BY <1>4 DEF Moving, Answering
  <2> QED
    BY <1>3, <2>1, AcceptedWhenOver
<1>9. PICK x2 \in Word : IF accepted THEN x2 = prompt ELSE x2 = x
  OBVIOUS
<1>10. V2 = Wt + One(pushed) /\ S2 = Rt + One(taken) /\ W2 = Wq + One(accepted)
  BY <1>5, <1>6 DEF ReqMoves, TokMoves
<1>11. Accepting(accepted, pushed, prompt, Wq, Rq, Wt, W2, V2, x, x2)
  BY <1>7, <1>8, <1>9, <1>10 DEF Accepting
<1>23. CoreCounts(W2, R2, V2, x2)' /\ FlightMoves(popped, pushed, Wq, Wt, x)
  BY <1>1, <1>3, <1>4, <1>5, <1>11, CoreStep
<1>12. Shapes'
  <2>1. sys'.done => sys'.tok \in Word
    BY <1>9, <1>23 DEF CoreCounts
  <2> QED
    BY <1>1, <2>1, ShapesKept
<1>13. Toggled(pushed)
  BY <1>1, <1>4, CoreRegisters DEF Shapes, Moving, Answering, Toggled
<1>14. PICK s1, s2, s3 \in Nat : Toggles(W2, V2, s1, s2, s3)' /\ Shown(S2, d1, d2, s1, s2, s3)'
  <2>1. HostReads(host_ticks, taken, Wt, Rt, b1, b2, S2, d1, d2)
    BY <1>6 DEF TokMoves, HostReads
  <2> QED
    BY <1>1, <1>3, <1>4, <1>11, <1>12, <1>13, <1>23, <2>1, HostStep
<1>15. Room(V2, c1, c2)'
  <2>1. CoreWrites(core_ticks, pushed, Wt, Rt, a1, a2, V2, c1, c2)
    BY <1>6 DEF TokMoves, CoreWrites
  <2>2. Behind(Wq, Wt, Rt)
    <3>1. Wt <= Wq /\ Wq <= t3 + 1 /\ t3 <= Rt + 1
      BY <1>3 DEF Toggles, Shown, One
    <3> QED
      BY <3>1 DEF Behind
  <2> QED
    BY <1>3, <1>4, <1>23, <2>1, <2>2, RoomStep
<1>16. FrontMoves(host_ticks, pushed, x) /\ Len(Front) = One(h.tok_rd_d) + Len(Tok!queue)
  <2>1. h.tok_rd_d => tok_r.data \in Token
    BY <1>3 DEF OwedCounts
  <2>2. /\ Tok!queue \in Seq(Token) /\ Tok!queue' = TokF!Moved(Tok!queue, pushed, x, taken)
        /\ taken => Tok!queue # << >> /\ tok_r'.data = Head(Tok!queue)
        /\ ~host_ticks => tok_r' = tok_r
    BY <1>6 DEF TokMoves
  <2> QED
    BY <1>1, <1>4, <2>1, <2>2, FrontStep DEF Moving, Answering
<1>17. OwedCounts(W2, V2, x2)' /\ OwedMoves(host_ticks, accepted, prompt)
  BY <1>3, <1>4, <1>11, <1>16, <1>23, OwedStep
<1>18. owed \in Seq(Token) /\ (accepted => Len(owed) < 2)
  <2>1. Front \in Seq(Token) /\ owed = Front \o At(Wt < Wq, x) /\ x \in Token
    BY <1>3, <1>16 DEF FrontMoves, OwedCounts, Token
  <2>2. owed \in Seq(Token)
    BY <2>1 DEF At
  <2>3. ASSUME accepted PROVE Len(owed) < 2
    <3>1. Wt = Wq /\ Wq = t3
      BY <1>8, <2>3
    <3>2. owed = Front
      <4>1. At(Wt < Wq, x) = << >>
        BY <3>1 DEF At
      <4> QED
        BY <2>1, <4>1, ConcatEmptySeq
    <3>3. Len(Tok!queue) = Wt - Rt /\ t3 + One(h.tok_rd_d) <= Rt + 1 /\ One(h.tok_rd_d) \in Nat
      BY <1>3, <1>6 DEF TokMoves, Shown, One
    <3> QED
      BY <1>16, <3>1, <3>2, <3>3
  <2> QED
    BY <2>2, <2>3
<1>19. [Port!Next]_(Port!vars)
  <2>1. h.tok_rd_d \in BOOLEAN /\ (accepted => host_ticks)
    BY <1>1, <1>4 DEF Shapes, Moving, Answering
  <2> QED
    BY <1>5, <1>17, <1>18, <2>1, PortStep
<1>20. Resets'
  <2>1. (host_rst' => host_rst) /\ (core_rst' => core_rst)
    BY <1>1, ResetsEnd
  <2>2. host_rst => h' = h
    BY DEF HostMoves, Ticks
  <2>3. core_rst => c' = c /\ sys' = sys
    BY DEF CoreMoves, Ticks
  <2> QED
    BY <1>1, <2>1, <2>2, <2>3 DEF Resets, ResetH, ResetC, ResetSys
<1>21. Counts(W2, R2, V2, S2, c1, c2, d1, d2, s1, s2, s3, x2)'
  BY <1>5, <1>6, <1>14, <1>15, <1>17, <1>23 DEF Counts
<1>22. Bridge'
  BY <1>5, <1>6, <1>12, <1>20, <1>21 DEF Bridge
<1> QED
  BY <1>19, <1>22

(* An edge of the host or of the core, in reset or out of it.              *)
LEMMA HostRegisters ==
  ASSUME Shapes, Resets, NEW host_ticks \in BOOLEAN, host_ticks <=> ~host_rst, NEW start \in BOOLEAN,
         NEW prompt, Drives(start, prompt), NEW b, NEW t, h' = HostRegs(start, b, t), Observe(start, prompt)
  PROVE  HostMoves(host_ticks, start, prompt, t)
<1>1. CASE ~host_rst
  BY <1>1 DEF HostMoves
<1>2. CASE host_rst
  <2>1. h' = h /\ h' = ResetH
    BY <1>2 DEF HostRegs, Resets
  <2>2. h'.tok_valid = FALSE /\ h'.done = FALSE
    BY <2>1 DEF ResetH
  <2>3. owed' = owed /\ may_start' = may_start
    BY <1>2, <2>2 DEF Observe, Shapes
  <2> QED
    BY <1>2, <2>1, <2>3 DEF HostMoves
<1> QED
  BY <1>1, <1>2

LEMMA CoreRegistersIn ==
  ASSUME Resets, NEW core_ticks \in BOOLEAN, core_ticks <=> ~core_rst, NEW finish \in BOOLEAN,
         finish => sys.state = "RUN", c' = CoreRegs, sys' = SysRegs(finish)
  PROVE  CoreMoves(core_ticks, finish)
<1>1. core_rst => c' = c /\ sys' = sys
  BY DEF CoreRegs, SysRegs, Resets
<1> QED
  BY <1>1 DEF CoreMoves

LEMMA BridgeEdges ==
  ASSUME Bridge, ~arst, HostEdge \/ CoreEdge \/ BothEdges
  PROVE  Bridge' /\ [Port!Next]_(Port!vars)
<1>1. Shapes /\ Resets
  BY DEF Bridge
<1>2. CASE HostEdge
  <2>1. PICK start \in BOOLEAN, prompt \in Word : HostClock(start, prompt)
    BY <1>2 DEF HostEdge
  <2>2. ReqActs(TRUE, start, prompt, FALSE) /\ TokActs(TRUE, FALSE)
    BY <2>1 DEF HostClock, ReqActs, TokActs
  <2>3. PICK host_ticks \in BOOLEAN : host_ticks <=> ~host_rst
    BY DEF host_rst
  <2>4. Ticks(TRUE, FALSE, host_ticks, FALSE)
    BY <2>3 DEF Ticks
  <2>5. HostMoves(host_ticks, start, prompt, c.done_tgl)
    BY <1>1, <2>1, <2>3, HostRegisters DEF HostClock
  <2>6. CoreMoves(FALSE, FALSE)
    BY <2>1 DEF HostClock, core, CoreMoves
  <2> QED
    BY <2>2, <2>4, <2>5, <2>6, BridgeEdge
<1>3. CASE CoreEdge
  <2>1. PICK finish \in BOOLEAN : CoreClock(finish)
    BY <1>3 DEF CoreEdge
  <2>2. ReqActs(FALSE, FALSE, ZeroWord, TRUE) /\ TokActs(FALSE, TRUE)
    BY <2>1 DEF CoreClock, ReqActs, TokActs
  <2>3. PICK core_ticks \in BOOLEAN : core_ticks <=> ~core_rst
    BY DEF core_rst
  <2>4. Ticks(FALSE, TRUE, FALSE, core_ticks)
    BY <2>3 DEF Ticks
  <2>5. CoreMoves(core_ticks, finish)
    BY <1>1, <2>1, <2>3, CoreRegistersIn DEF CoreClock
  <2>6. HostMoves(FALSE, FALSE, ZeroWord, c.done_tgl) /\ ZeroWord \in Word
    BY <2>1, Assumptions DEF CoreClock, host, HostMoves
  <2> QED
    BY <2>2, <2>4, <2>5, <2>6, BridgeEdge
<1>4. CASE BothEdges
  <2>1. PICK start \in BOOLEAN, finish \in BOOLEAN, prompt \in Word : BothClocks(start, prompt, finish)
    BY <1>4 DEF BothEdges
  <2>2. ReqActs(TRUE, start, prompt, TRUE) /\ TokActs(TRUE, TRUE)
    BY <2>1 DEF BothClocks, ReqActs, TokActs
  <2>3. PICK host_ticks, core_ticks \in BOOLEAN : (host_ticks <=> ~host_rst) /\ (core_ticks <=> ~core_rst)
    BY DEF host_rst, core_rst
  <2>4. Ticks(TRUE, TRUE, host_ticks, core_ticks)
    BY <2>3 DEF Ticks
  <2>5. CoreMoves(core_ticks, finish)
    BY <1>1, <2>1, <2>3, CoreRegistersIn DEF BothClocks
  <2>6. PICK t \in {c.done_tgl, c'.done_tgl} : \E b : h' = HostRegs(start, b, t)
    BY <2>1 DEF BothClocks
  <2>7. HostMoves(host_ticks, start, prompt, t)
    BY <1>1, <2>1, <2>3, <2>6, HostRegisters DEF BothClocks
  <2> QED
    BY <2>2, <2>4, <2>5, <2>7, BridgeEdge, ZenonT(60)
<1> QED
  BY <1>2, <1>3, <1>4

(* An edge while the reset request lasts changes nothing that is owed.     *)
LEMMA EdgesInReset ==
  ASSUME Bridge, arst, HostEdge \/ CoreEdge \/ BothEdges
  PROVE  Bridge' /\ [Port!Next]_(Port!vars)
<1>1. /\ Shapes /\ ReqF!FifoTypes /\ TokF!FifoTypes /\ owed = << >> /\ may_start
      /\ ReqF!FifoAssumption /\ TokF!FifoAssumption /\ ZeroWord \in Word
  BY Assumptions DEF Bridge
<1>2. host_rst /\ core_rst /\ ReqF!FifoInv /\ TokF!FifoInv
  BY <1>1 DEF ReqF!FifoTypes, ReqF!wrst, ReqF!rrst, host_rst, core_rst, ReqF!FifoInv, TokF!FifoInv
<1>3. PICK host_clk, core_clk, start, finish \in BOOLEAN, prompt \in Word :
        /\ ReqActs(host_clk, start, prompt, core_clk) /\ TokActs(host_clk, core_clk)
        /\ ~req_wr_en(start) => prompt = ZeroWord
        /\ IF host_clk THEN (\E b, t : h' = HostRegs(start, b, t)) /\ Observe(start, prompt)
           ELSE h' = h /\ owed' = owed /\ may_start' = may_start
        /\ IF core_clk THEN c' = CoreRegs /\ sys' = SysRegs(finish) ELSE c' = c /\ sys' = sys
  <2>1. CASE HostEdge
    <3>1. PICK start \in BOOLEAN, prompt \in Word : HostClock(start, prompt)
      BY <2>1 DEF HostEdge
    <3>2. /\ ReqActs(TRUE, start, prompt, FALSE) /\ TokActs(TRUE, FALSE)
          /\ ~req_wr_en(start) => prompt = ZeroWord
          /\ (\E b, t : h' = HostRegs(start, b, t)) /\ Observe(start, prompt)
          /\ c' = c /\ sys' = sys
      BY <3>1 DEF HostClock, ReqActs, TokActs, Drives, core
    <3> QED
      BY <3>2
  <2>2. CASE CoreEdge
    <3>1. PICK finish \in BOOLEAN : CoreClock(finish)
      BY <2>2 DEF CoreEdge
    <3>2. /\ ReqActs(FALSE, FALSE, ZeroWord, TRUE) /\ TokActs(FALSE, TRUE)
          /\ h' = h /\ owed' = owed /\ may_start' = may_start
          /\ c' = CoreRegs /\ sys' = SysRegs(finish)
      BY <3>1 DEF CoreClock, ReqActs, TokActs, host
    <3> QED
      BY <1>1, <3>2
  <2>3. CASE BothEdges
    <3>1. PICK start \in BOOLEAN, finish \in BOOLEAN, prompt \in Word : BothClocks(start, prompt, finish)
      BY <2>3 DEF BothEdges
    <3>2. /\ ReqActs(TRUE, start, prompt, TRUE) /\ TokActs(TRUE, TRUE)
          /\ ~req_wr_en(start) => prompt = ZeroWord
          /\ (\E b, t : h' = HostRegs(start, b, t)) /\ Observe(start, prompt)
          /\ c' = CoreRegs /\ sys' = SysRegs(finish)
      BY <3>1 DEF BothClocks, ReqActs, TokActs, Drives
    <3> QED
      BY <3>2
  <2> QED
    BY <2>1, <2>2, <2>3
<1>4. ReqF!FifoInv' /\ arst' = arst
  <2>1. ReqF!Writing \/ ReqF!Reading \/ ReqF!Both
    <3>1. PICK wr_en, rd_en \in BOOLEAN : (wr_en <=> req_wr_en(start)) /\ (rd_en <=> req_rd_en)
      BY DEF req_wr_en, req_rd_en
    <3>2. prompt \in ReqF!Presented(wr_en)
      BY <1>3, <3>1 DEF ReqF!Presented
    <3>3. CASE host_clk /\ core_clk
      <4>1. ReqF!BothClocks(wr_en, prompt, rd_en)
        BY <1>3, <3>1, <3>3, SameReq DEF ReqActs, req_wr_en, req_rd_en
      <4> QED
        BY <3>2, <4>1 DEF ReqF!Both
    <3>4. CASE host_clk /\ ~core_clk
      <4>1. ReqF!WriteClock(wr_en, prompt)
        BY <1>3, <3>1, <3>4, SameReq DEF ReqActs, req_wr_en
      <4> QED
        BY <3>2, <4>1 DEF ReqF!Writing
    <3>5. CASE ~host_clk /\ core_clk
      <4>1. ReqF!ReadClock(rd_en)
        BY <1>3, <3>1, <3>5, SameReq DEF ReqActs, req_rd_en
      <4> QED
        BY <4>1 DEF ReqF!Reading
    <3> QED
      BY <1>3, <3>3, <3>4, <3>5 DEF ReqActs
  <2>2. [ReqF!Next]_(ReqF!vars)
    BY <2>1 DEF ReqF!Next
  <2>3. arst' = arst
    BY <2>1 DEF ReqF!Writing, ReqF!Reading, ReqF!Both, ReqF!WriteClock, ReqF!ReadClock, ReqF!BothClocks
  <2> QED
    BY <1>1, <1>2, <2>2, <2>3, ReqF!FifoStep
<1>5. TokF!FifoInv'
  <2>1. TokF!Writing \/ TokF!Reading \/ TokF!Both
    <3>1. PICK wr_en, rd_en \in BOOLEAN : (wr_en <=> tok_wr_en) /\ (rd_en <=> tok_rd_en)
      BY DEF tok_wr_en, tok_rd_en
    <3>2. PICK token \in Word : token = IF wr_en THEN sys.tok ELSE ZeroWord
      BY <1>1, <3>1 DEF Shapes, tok_wr_en
    <3>3. token \in TokF!Presented(wr_en)
      BY <3>2 DEF TokF!Presented
    <3>4. /\ TokF!WriteClock(wr_en, sys.tok) => TokF!WriteClock(wr_en, token)
          /\ TokF!BothClocks(wr_en, sys.tok, rd_en) => TokF!BothClocks(wr_en, token, rd_en)
      <4>1. TokF!Store(wr_en, sys.tok) => TokF!Store(wr_en, token)
        BY <3>2 DEF TokF!Store, TokF!do_write
      <4> QED
        BY <4>1 DEF TokF!WriteClock, TokF!BothClocks
    <3>5. CASE host_clk /\ core_clk
      <4>1. TokF!BothClocks(wr_en, sys.tok, rd_en)
        BY <1>3, <3>1, <3>5, SameTok DEF TokActs, tok_wr_en, tok_rd_en
      <4> QED
        BY <3>3, <3>4, <4>1 DEF TokF!Both
    <3>6. CASE ~host_clk /\ core_clk
      <4>1. TokF!WriteClock(wr_en, sys.tok)
        BY <1>3, <3>1, <3>6, SameTok DEF TokActs, tok_wr_en
      <4> QED
        BY <3>3, <3>4, <4>1 DEF TokF!Writing
    <3>7. CASE host_clk /\ ~core_clk
      <4>1. TokF!ReadClock(rd_en)
        BY <1>3, <3>1, <3>7, SameTok DEF TokActs, tok_rd_en
      <4> QED
        BY <4>1 DEF TokF!Reading
    <3> QED
      BY <1>3, <3>5, <3>6, <3>7 DEF TokActs
  <2>2. [TokF!Next]_(TokF!vars)
    BY <2>1 DEF TokF!Next
  <2> QED
    BY <1>1, <1>2, <2>2, TokF!FifoStep
<1>6. h' = h \/ h' = ResetH
  BY <1>2, <1>3 DEF HostRegs
<1>7. owed' = << >> /\ may_start' = TRUE
  <2>1. CASE host_clk
    <3>1. h' = ResetH /\ Observe(start, prompt)
      BY <1>2, <1>3, <2>1 DEF HostRegs
    <3>2. h'.tok_valid = FALSE
      BY <3>1 DEF ResetH
    <3> QED
      BY <1>1, <1>2, <3>1, <3>2 DEF Observe
  <2>2. CASE ~host_clk
    BY <1>1, <1>3, <2>2 DEF Shapes
  <2> QED
    BY <2>1, <2>2
<1>8. (c' = c \/ c' = ResetC) /\ (sys' = sys \/ sys' = ResetSys)
  BY <1>2, <1>3 DEF CoreRegs, SysRegs
<1>9. Shapes'
  <2>1. /\ h'.tok_rd_d \in BOOLEAN /\ h'.start_d \in BOOLEAN
        /\ h'.tgl1 \in BOOLEAN /\ h'.tgl2 \in BOOLEAN /\ h'.tgl3 \in BOOLEAN
    <3>1. CASE h' = h
      BY <1>1, <3>1 DEF Shapes
    <3>2. CASE h' = ResetH
      BY <3>2 DEF ResetH
    <3> QED
      BY <1>6, <3>1, <3>2
  <2>2. c'.req_rd_d \in BOOLEAN /\ c'.start \in BOOLEAN /\ c'.done_tgl \in BOOLEAN
    <3>1. CASE c' = c
      BY <1>1, <3>1 DEF Shapes
    <3>2. CASE c' = ResetC
      BY <3>2 DEF ResetC
    <3> QED
      BY <1>8, <3>1, <3>2
  <2>3. /\ DOMAIN sys' = {"state", "busy", "done", "tok"}
        /\ sys'.state \in {"IDLE", "RUN", "DONE"} /\ sys'.done \in BOOLEAN
        /\ sys'.done => sys'.tok \in Word
    <3>1. CASE sys' = sys
      BY <1>1, <3>1 DEF Shapes
    <3>2. CASE sys' = ResetSys
      BY <3>2 DEF ResetSys
    <3> QED
      BY <1>8, <3>1, <3>2
  <2> QED
    BY <1>7, <2>1, <2>2, <2>3 DEF Shapes
<1>10. Bridge'
  BY <1>4, <1>5, <1>7, <1>9 DEF Bridge, ReqF!FifoInv, TokF!FifoInv
<1>11. Port!Clear
  BY <1>4, <1>7 DEF Port!Clear
<1> QED
  BY <1>10, <1>11 DEF Port!Next

(* The reset request comes and goes.                                       *)
LEMMA RequestedReset ==
  ASSUME Bridge, AssertReset
  PROVE  Bridge' /\ [Port!Next]_(Port!vars)
<1>1. /\ Shapes /\ ReqF!FifoTypes /\ TokF!FifoTypes /\ ReqF!FifoAssumption /\ TokF!FifoAssumption
  BY Assumptions DEF Bridge
<1>2. /\ ReqF!AssertReset /\ TokF!AssertReset
      /\ may_start' = TRUE /\ owed' = << >> /\ h' = h /\ c' = c /\ sys' = sys
  BY SameReq, SameTok DEF AssertReset, core
<1>3. ReqF!FifoInv' /\ TokF!FifoInv'
  BY <1>1, <1>2, ReqF!RequestKeeps, TokF!RequestKeeps
<1>4. arst' = TRUE
  BY <1>2 DEF ReqF!AssertReset
<1>5. Shapes'
  BY <1>1, <1>2 DEF Shapes
<1>6. Bridge'
  BY <1>2, <1>3, <1>4, <1>5 DEF Bridge, ReqF!FifoInv, TokF!FifoInv
<1>7. Port!Clear
  BY <1>2, <1>4 DEF Port!Clear
<1> QED
  BY <1>6, <1>7 DEF Port!Next

LEMMA NothingCounted ==
  ASSUME h = ResetH, c = ResetC, sys = ResetSys, ~tok_w.full, owed = << >>, Tok!queue = << >>,
         ReqF!Lagging(0, 0), TokF!Lags(0, 0, 0, 0, 0, 0)
  PROVE  Counts(0, 0, 0, 0, 0, 0, 0, 0, 0, 0, 0, ZeroWord)
<1>1. InFlight = 0
  BY DEF InFlight, One, ResetC, ResetSys
<1>2. CoreCounts(0, 0, 0, ZeroWord)
  BY <1>1 DEF CoreCounts, ResetC, ResetSys
<1>3. Toggles(0, 0, 0, 0, 0)
  BY DEF Toggles, ResetH, ResetC
<1>4. Shown(0, 0, 0, 0, 0, 0)
  BY DEF Shown, One, ResetH
<1>5. Room(0, 0, 0)
  BY <1>1 DEF Room
<1>6. OwedCounts(0, 0, ZeroWord)
  <2>1. Front = << >> \o << >> /\ At(0 < 0, ZeroWord) = << >>
    BY DEF Front, At, ResetH
  <2>2. << >> \in Seq(Token) /\ << >> \o << >> = << >>
    BY ConcatEmptySeq
  <2> QED
    BY <2>1, <2>2 DEF OwedCounts, ResetH
<1> QED
  BY <1>2, <1>3, <1>4, <1>5, <1>6 DEF Counts

LEMMA WithdrawnReset ==
  ASSUME Bridge, ReleaseReset
  PROVE  Bridge' /\ [Port!Next]_(Port!vars)
<1>1. /\ Shapes /\ ReqF!FifoTypes /\ TokF!FifoTypes /\ ReqF!FifoAssumption /\ TokF!FifoAssumption
      /\ ZeroWord \in Word
  BY Assumptions DEF Bridge
<1>2. /\ ReqF!ReleaseReset /\ TokF!ReleaseReset
      /\ h = ResetH /\ c = ResetC /\ sys = ResetSys
      /\ may_start' = may_start /\ owed' = owed /\ h' = h /\ c' = c /\ sys' = sys
  BY SameReq, SameTok DEF ReleaseReset, host, core
<1>3. arst /\ owed = << >> /\ tok_w' = tok_w /\ tok_w.full = FALSE
  <2>1. arst /\ tok_w = TokF!ResetW /\ tok_w' = tok_w
    BY <1>2 DEF ReqF!ReleaseReset, TokF!ReleaseReset
  <2> QED
    BY <2>1 DEF Bridge, TokF!ResetW
<1>4. /\ ReqF!FifoTypes' /\ ~arst' /\ ReqF!Lags(0, 0, 0, 0, 0, 0)'
      /\ TokF!FifoTypes' /\ TokF!Lags(0, 0, 0, 0, 0, 0)' /\ TokF!queue' = << >>
  BY <1>1, <1>2, <1>3, ReqF!ReleaseStarts, TokF!ReleaseStarts
<1>5. ReqF!Lagging(0, 0)'
  <2>1. 0 \in Nat
    OBVIOUS
  <2> QED
    BY <1>4, <2>1 DEF ReqF!Lagging
<1>6. Tok!queue' = << >>
  <2>1. (Tok!queue = TokF!queue)'
    BY SameTok, PTL
  <2> QED
    BY <1>4, <2>1
<1>7. Counts(0, 0, 0, 0, 0, 0, 0, 0, 0, 0, 0, ZeroWord)'
  <2>1. /\ h' = ResetH /\ c' = ResetC /\ sys' = ResetSys /\ ~tok_w'.full /\ owed' = << >>
        /\ ReqF!Lagging(0, 0)' /\ TokF!Lags(0, 0, 0, 0, 0, 0)' /\ Tok!queue' = << >>
    BY <1>2, <1>3, <1>4, <1>5, <1>6
  <2>2. (/\ h = ResetH /\ c = ResetC /\ sys = ResetSys /\ ~tok_w.full /\ owed = << >>
         /\ Tok!queue = << >> /\ ReqF!Lagging(0, 0) /\ TokF!Lags(0, 0, 0, 0, 0, 0)
         => Counts(0, 0, 0, 0, 0, 0, 0, 0, 0, 0, 0, ZeroWord))'
    BY NothingCounted, PTL
  <2> QED
    BY <2>1, <2>2 DEF ResetH, ResetC, ResetSys
<1>8. Shapes' /\ Resets'
  BY <1>1, <1>2 DEF Shapes, Resets, ResetH, ResetC, ResetSys
<1>9. Bridge'
  <2>1. 0 \in Nat
    OBVIOUS
  <2> QED
    BY <1>1, <1>4, <1>7, <1>8, <2>1 DEF Bridge
<1>10. Port!Clear
  <2>1. h'.tok_valid = FALSE
    BY <1>2 DEF ResetH
  <2> QED
    BY <1>2, <1>3, <2>1 DEF Port!Clear
<1> QED
  BY <1>9, <1>10 DEF Port!Next

LEMMA BridgeStays ==
  ASSUME Bridge, UNCHANGED vars
  PROVE  Bridge' /\ UNCHANGED Port!vars
<1>1. /\ req_w' = req_w /\ req_r' = req_r /\ req_mem' = req_mem /\ req_pop' = req_pop
      /\ tok_w' = tok_w /\ tok_r' = tok_r /\ tok_mem' = tok_mem /\ tok_pop' = tok_pop
      /\ arst' = arst /\ host_sync' = host_sync /\ core_sync' = core_sync
      /\ h' = h /\ c' = c /\ sys' = sys /\ may_start' = may_start /\ owed' = owed
  BY DEF vars, fifos, resets, host, core
<1>2. ReqF!FifoTypes' /\ TokF!FifoTypes'
  <2>1. ReqF!DEPTH' = ReqF!DEPTH /\ TokF!DEPTH' = TokF!DEPTH
    BY DEF ReqF!DEPTH, TokF!DEPTH
  <2>2. ReqF!FifoTypes'
    BY <1>1, <2>1 DEF Bridge, ReqF!FifoTypes, ReqF!wrst, ReqF!rrst
  <2>3. TokF!FifoTypes'
    BY <1>1, <2>1 DEF Bridge, TokF!FifoTypes, TokF!wrst, TokF!rrst
  <2> QED
    BY <2>2, <2>3
<1>3. Shapes' /\ (Resets => Resets') /\ (arst' => owed' = << >> /\ may_start')
  BY <1>1 DEF Bridge, Shapes, Resets, host_rst, core_rst, ResetH, ResetC, ResetSys
<1>4. ASSUME NEW Wq \in Nat, NEW Rq \in Nat, NEW Wt \in Nat, NEW Rt \in Nat, NEW a1 \in Nat, NEW a2 \in Nat,
             NEW b1 \in Nat, NEW b2 \in Nat, NEW t1 \in Nat, NEW t2 \in Nat, NEW t3 \in Nat, NEW x \in Word,
             Counts(Wq, Rq, Wt, Rt, a1, a2, b1, b2, t1, t2, t3, x)
      PROVE  Counts(Wq, Rq, Wt, Rt, a1, a2, b1, b2, t1, t2, t3, x)'
  <2>1. ReqF!Lagging(Wq, Rq)'
    <3>1. PICK e1, e2, f1, f2 \in Nat : ReqF!Lags(Wq, Rq, e1, e2, f1, f2)
      BY <1>4 DEF Counts, ReqF!Lagging
    <3>2. ReqF!Lags(Wq, Rq, e1, e2, f1, f2)'
      BY <1>1, <3>1 DEF ReqF!Lags, ReqF!WriterHas, ReqF!ReaderHas, ReqF!WriterIs, ReqF!ReaderIs,
                        ReqF!wrst, ReqF!rrst
    <3> QED
      BY <3>2 DEF ReqF!Lagging
  <2>2. TokF!Lags(Wt, Rt, a1, a2, b1, b2)'
    BY <1>1, <1>4 DEF Counts, TokF!Lags, TokF!WriterHas, TokF!ReaderHas, TokF!WriterIs, TokF!ReaderIs,
                      TokF!wrst, TokF!rrst
  <2>3. Req!queue' = Req!queue /\ Tok!queue' = Tok!queue
    BY <1>1 DEF Req!queue, Tok!queue, Req!Ahead, Tok!Ahead, Req!DEPTH, Tok!DEPTH
  <2>4. InFlight' = InFlight /\ Front' = Front
    BY <1>1, <2>3 DEF InFlight, Front, One, At
  <2>5. CoreCounts(Wq, Rq, Wt, x)' /\ Toggles(Wq, Wt, t1, t2, t3)'
    BY <1>1, <1>4, <2>3, <2>4 DEF Counts, CoreCounts, Toggles
  <2>6. Shown(Rt, b1, b2, t1, t2, t3)' /\ Room(Wt, a1, a2)'
    BY <1>1, <1>4, <2>4 DEF Counts, Shown, Room
  <2>7. OwedCounts(Wq, Wt, x)'
    BY <1>1, <1>4, <2>4 DEF Counts, OwedCounts
  <2> QED
    BY <2>1, <2>2, <2>5, <2>6, <2>7 DEF Counts
<1>5. Bridge'
  <2>1. CASE arst
    BY <1>1, <1>2, <1>3, <2>1 DEF Bridge
  <2>2. CASE ~arst
    <3>1. PICK Wq, Rq, Wt, Rt, a1, a2, b1, b2, t1, t2, t3 \in Nat, x \in Word :
            Counts(Wq, Rq, Wt, Rt, a1, a2, b1, b2, t1, t2, t3, x)
      BY <2>2 DEF Bridge
    <3>2. Counts(Wq, Rq, Wt, Rt, a1, a2, b1, b2, t1, t2, t3, x)'
      BY <1>4, <3>1
    <3>3. Resets'
      BY <1>3, <2>2 DEF Bridge
    <3> QED
      BY <1>1, <1>2, <1>3, <2>2, <3>2, <3>3 DEF Bridge
  <2> QED
    BY <2>1, <2>2
<1> QED
  BY <1>1, <1>5 DEF Port!vars

LEMMA BridgeStep == Bridge /\ [Next]_vars => Bridge' /\ [Port!Next]_(Port!vars)
<1> SUFFICES ASSUME Bridge, [Next]_vars PROVE Bridge' /\ [Port!Next]_(Port!vars)
  OBVIOUS
<1>1. CASE HostEdge \/ CoreEdge \/ BothEdges
  BY <1>1, BridgeEdges, EdgesInReset
<1>2. CASE AssertReset
  BY <1>2, RequestedReset
<1>3. CASE ReleaseReset
  BY <1>3, WithdrawnReset
<1>4. CASE UNCHANGED vars
  BY <1>4, BridgeStays
<1> QED
  BY <1>1, <1>2, <1>3, <1>4 DEF Next

LEMMA BridgeStarts == Init => Bridge /\ Port!Init
<1> SUFFICES ASSUME Init PROVE Bridge /\ Port!Init
  OBVIOUS
<1>1. ReqF!FifoInv /\ TokF!FifoInv
  BY Assumptions, SameReq, SameTok, ReqF!FifoStarts, TokF!FifoStarts DEF Init
<1>2. arst = TRUE
  BY SameReq DEF Init, ReqF!Init
<1>3. Shapes
  BY DEF Init, Shapes, ResetH, ResetC, ResetSys
<1>4. Bridge
  BY <1>1, <1>2, <1>3 DEF Init, Bridge, ReqF!FifoInv, TokF!FifoInv
<1>5. Port!Init
  BY <1>2 DEF Init, Port!Init
<1> QED
  BY <1>4, <1>5

(* src/glm_fp8_system_cdc.v: between the host's clock and the core's,      *)
(* requests go in and their tokens come out, one each and in order.        *)
THEOREM PortIsQueue == Spec => ImplementsPort
<1> QED
  BY BridgeStarts, BridgeStep, PTL DEF Spec, ImplementsPort, Port!Spec

(* A request in one of two places is one place for a request.              *)
Joins(p, q, j) == p \in BOOLEAN /\ q \in BOOLEAN /\ ~(p /\ q) /\ (j <=> p \/ q)

LEMMA Joined ==
  ASSUME NEW S, NEW s \in Seq(S), NEW x \in S, NEW p, NEW q, NEW j, Joins(p, q, j)
  PROVE  (s \o At(p, x)) \o At(q, x) = s \o At(j, x)
<1> USE DEF Joins
<1>1. s \o At(p, x) \in Seq(S)
  BY DEF At
<1>2. CASE q
  <2>1. ~p /\ At(p, x) = << >> /\ At(j, x) = At(q, x)
    BY <1>2 DEF At
  <2> QED
    BY <2>1, ConcatEmptySeq
<1>3. CASE ~q
  <2>1. At(q, x) = << >> /\ At(j, x) = At(p, x)
    BY <1>3 DEF At
  <2> QED
    BY <1>1, <2>1, ConcatEmptySeq
<1> QED
  BY <1>2, <1>3

(* src/glm_fp8_system_cdc.v: every request the host was told is accepted   *)
(* is in exactly one place on the way until its token is shown; no start   *)
(* reaches the core while it would be ignored.                             *)
THEOREM NoRequestIsLost == Spec => []OwedIsOnTheWay
<1>1. Bridge => OwedIsOnTheWay
  <2> SUFFICES ASSUME Bridge, ~arst, ~host_rst, ~core_rst
               PROVE  owed = Front \o At(sys.done, sys.tok) \o At(sys.state = "DONE", sys.tok)
                             \o At(sys.state = "RUN", c.prompt) \o At(c.start, c.prompt)
                             \o At(c.req_rd_d, req_r.data) \o Req!queue
    BY DEF OwedIsOnTheWay, Front
  <2>1. PICK Wq, Rq, Wt, Rt, a1, a2, b1, b2, t1, t2, t3 \in Nat, x \in Word :
          Counts(Wq, Rq, Wt, Rt, a1, a2, b1, b2, t1, t2, t3, x)
    BY DEF Bridge
  <2>2. /\ CoreCounts(Wq, Rq, Wt, x) /\ OwedCounts(Wq, Wt, x) /\ Shapes
        /\ Wt <= Wq /\ Wq <= Wt + 1 /\ ReqF!Lagging(Wq, Rq) /\ TokF!Lagging(Wt, Rt)
    <3>1. CoreCounts(Wq, Rq, Wt, x) /\ OwedCounts(Wq, Wt, x) /\ ReqF!Lagging(Wq, Rq)
          /\ Toggles(Wq, Wt, t1, t2, t3) /\ TokF!Lags(Wt, Rt, a1, a2, b1, b2)
      BY <2>1 DEF Counts
    <3>2. Wt <= Wq /\ Wq <= Wt + 1
      <4>1. t3 <= t2 /\ t2 <= t1 /\ t1 <= Wt /\ Wt <= Wq /\ Wq <= t3 + 1
        BY <3>1 DEF Toggles
      <4> QED
        BY <4>1
    <3>3. TokF!Lagging(Wt, Rt)
      BY <3>1 DEF TokF!Lagging
    <3> QED
      BY <3>1, <3>2, <3>3 DEF Bridge
  <2>3. PICK p1, p2, p3, p4, p5, p6 \in BOOLEAN :
          /\ p1 <=> sys.done
          /\ p2 <=> sys.state = "DONE"
          /\ p3 <=> sys.state = "RUN"
          /\ p4 <=> c.start
          /\ p5 <=> c.req_rd_d
          /\ p6 <=> Rq < Wq
    <3>1. \A f \in BOOLEAN : \E b \in BOOLEAN : b <=> f
      OBVIOUS
    <3>2. /\ sys.done \in BOOLEAN /\ (sys.state = "DONE") \in BOOLEAN /\ (sys.state = "RUN") \in BOOLEAN
          /\ c.start \in BOOLEAN /\ c.req_rd_d \in BOOLEAN /\ (Rq < Wq) \in BOOLEAN
      BY <2>2 DEF Shapes
    <3> QED
      BY <3>1, <3>2
  <2>4. /\ Req!queue = At(p6, x) /\ At(sys.done, sys.tok) = At(p1, x)
        /\ At(sys.state = "DONE", sys.tok) = At(p2, x)
        /\ At(sys.state = "RUN", c.prompt) = At(p3, x) /\ At(c.start, c.prompt) = At(p4, x)
        /\ At(c.req_rd_d, req_r.data) = At(p5, x)
    <3>1. Req!queue = At(p6, x)
      <4>1. Rq <= Wq /\ (Req!queue = << >> <=> Rq = Wq)
        BY <2>2, Assumptions, SameReq, ReqF!QueueLength DEF Bridge
      <4> QED
        BY <2>2, <2>3, <4>1 DEF CoreCounts, At
    <3> QED
      BY <2>2, <2>3, <3>1 DEF CoreCounts, At
  <2>5. /\ Rq = Wt + (One(p5) + One(p4) + One(p3) + One(p2) + One(p1)) /\ Rq <= Wq
    <3>1. InFlight = One(p5) + One(p4) + One(p3) + One(p2) + One(p1)
      BY <2>3 DEF InFlight, One
    <3>2. Rq <= Wq
      BY <2>2, Assumptions, ReqF!QueueLength DEF Bridge
    <3> QED
      BY <2>2, <3>1, <3>2 DEF CoreCounts
  <2>6. PICK j2, j3, j4, j5, j6 \in BOOLEAN :
          /\ Joins(p1, p2, j2) /\ Joins(j2, p3, j3) /\ Joins(j3, p4, j4)
          /\ Joins(j4, p5, j5) /\ Joins(j5, p6, j6)
          /\ j6 <=> Wt < Wq
    <3>1. /\ ~(p1 /\ p2) /\ ~((p1 \/ p2) /\ p3) /\ ~((p1 \/ p2 \/ p3) /\ p4)
          /\ ~((p1 \/ p2 \/ p3 \/ p4) /\ p5) /\ ~((p1 \/ p2 \/ p3 \/ p4 \/ p5) /\ p6)
          /\ Wt < Wq <=> p1 \/ p2 \/ p3 \/ p4 \/ p5 \/ p6
      BY <2>2, <2>3, <2>5 DEF One
    <3>2. \A p, q \in BOOLEAN : ~(p /\ q) => \E j \in BOOLEAN : Joins(p, q, j)
      BY DEF Joins
    <3>3. PICK j2 \in BOOLEAN : Joins(p1, p2, j2)
      BY <3>1, <3>2
    <3>4. PICK j3 \in BOOLEAN : Joins(j2, p3, j3)
      BY <3>1, <3>2, <3>3 DEF Joins
    <3>5. PICK j4 \in BOOLEAN : Joins(j3, p4, j4)
      BY <3>1, <3>2, <3>3, <3>4 DEF Joins
    <3>6. PICK j5 \in BOOLEAN : Joins(j4, p5, j5)
      BY <3>1, <3>2, <3>3, <3>4, <3>5 DEF Joins
    <3>7. PICK j6 \in BOOLEAN : Joins(j5, p6, j6)
      BY <3>1, <3>2, <3>3, <3>4, <3>5, <3>6 DEF Joins
    <3>8. j6 <=> Wt < Wq
      BY <3>1, <3>3, <3>4, <3>5, <3>6, <3>7 DEF Joins
    <3> QED
      BY <3>3, <3>4, <3>5, <3>6, <3>7, <3>8
  <2>7. Front \in Seq(Token) /\ x \in Token
    <3>1. Tok!queue \in Seq(Token)
      BY <2>2, Assumptions, SameTok, TokF!QueueLength DEF Bridge, Token, TokF!RamWord
    <3>2. h.tok_rd_d => tok_r.data \in Token
      BY <2>2 DEF OwedCounts
    <3>3. At(h.tok_rd_d, tok_r.data) \in Seq(Token)
      BY <3>2 DEF At
    <3> QED
      BY <3>1, <3>3 DEF Front, Token
  <2> DEFINE s2 == (Front \o At(p1, x)) \o At(p2, x)
             s3 == s2 \o At(p3, x)
             s4 == s3 \o At(p4, x)
             s5 == s4 \o At(p5, x)
             s6 == s5 \o At(p6, x)
  <2>8. s2 = Front \o At(j2, x)
    BY <2>6, <2>7, Joined
  <2>9. s3 = Front \o At(j3, x)
    <3>1. s3 = (Front \o At(j2, x)) \o At(p3, x)
      BY <2>8
    <3> QED
      BY <3>1, <2>6, <2>7, Joined
  <2>10. s4 = Front \o At(j4, x)
    <3>1. s4 = (Front \o At(j3, x)) \o At(p4, x)
      BY <2>9
    <3> QED
      BY <3>1, <2>6, <2>7, Joined
  <2>11. s5 = Front \o At(j5, x)
    <3>1. s5 = (Front \o At(j4, x)) \o At(p5, x)
      BY <2>10
    <3> QED
      BY <3>1, <2>6, <2>7, Joined
  <2>12. s6 = Front \o At(j6, x)
    <3>1. s6 = (Front \o At(j5, x)) \o At(p6, x)
      BY <2>11
    <3> HIDE DEF s6
    <3> QED
      BY <3>1, <2>6, <2>7, Joined
  <2>13. owed = Front \o At(j6, x)
    BY <2>2, <2>6 DEF OwedCounts, At
  <2> QED
    BY <2>4, <2>12, <2>13
<1> QED
  BY <1>1, BridgeStarts, BridgeStep, PTL DEF Spec
=============================================================================
