---------------------------- MODULE MCReadFabrics ----------------------------
(***************************************************************************)
(* Both read fabrics, one per behaviour: the Flash fabric, or the DDR5     *)
(* fabric with registers of its own.                                       *)
(***************************************************************************)
EXTENDS FlashXbar

VARIABLES job, ddr_fifo, ddr_head, ddr_tail, ddr_cnt, ddr_rr, ddr_die, ddr_resp

Ddr == INSTANCE Ddr5Xbar WITH fifo <- ddr_fifo, head <- ddr_head, tail <- ddr_tail, cnt <- ddr_cnt,
                              rr <- ddr_rr, die <- ddr_die, resp <- ddr_resp

ddrVars == << ddr_fifo, ddr_head, ddr_tail, ddr_cnt, ddr_rr, ddr_die, ddr_resp >>
FlashDoes(A) == job = "flash" /\ A /\ UNCHANGED << job, ddrVars >>
Ddr5Does(A) == job = "ddr5" /\ A /\ UNCHANGED << job, vars >>
allVars == << job, vars, ddrVars >>

FabricsInit == job \in {"flash", "ddr5"} /\ Init /\ Ddr!Init
FabricsSpec ==
  /\ FabricsInit
  /\ [][FlashDoes(Next) \/ Ddr5Does(Ddr!Next)]_allVars
  /\ WF_allVars(FlashDoes(Drain)) /\ WF_allVars(Ddr5Does(Ddr!Drain))
  /\ \A c \in Channel : WF_allVars(FlashDoes(Deliver(c))) /\ WF_allVars(Ddr5Does(Ddr!Deliver(c)))

(* The DDR5 fabric answers every accepted read once and in order within    *)
(* its channel, although nothing bounds the reads in flight.               *)
Ddr5ImplementsReadFabric == Ddr!ImplementsReadFabric

(* In neither fabric does a channel that keeps owing reads starve.         *)
NoChannelStarves == NoStarvation /\ Ddr!NoStarvation
==============================================================================
