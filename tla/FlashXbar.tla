------------------------------ MODULE FlashXbar ------------------------------
(***************************************************************************)
(* src/flash_xbar.v: the Flash read fabric.  A request is routed to the    *)
(* channel its address is banked to and accepted only while that channel   *)
(* owes fewer than QDEPTH answers, so the response FIFOs, QDEPTH deep, can *)
(* never be asked to hold more.  One step is one clock edge; the requester *)
(* and the Flash PHYs choose their inputs freely.                          *)
(***************************************************************************)
EXTENDS FabricResponse

QDEPTH == RESP_QD

VARIABLE outst  \* outst[c]: reads issued to c and not yet drained from it

vars == <<fifo, head, tail, cnt, rr, die, resp, outst>>

ch_full_never(c) == FALSE     \* mutation: the counter does not gate the request
ch_full(c) == outst[c] = QDEPTH

(* The requester presents req (a one-element sequence, or none); ready is  *)
(* mem_req_ready of the channel it is banked to.                           *)
iss_fire(c, req, ready) ==
  req # << >> /\ BankOf(Head(req).data) = c /\ ~ch_full(c) /\ ready

(* An issue and a drain of the same channel at one edge cancel out.        *)
outst_next_issue_wins(c, iss, deq) ==           \* mutation: the drain is lost
  IF iss THEN outst[c] + 1 ELSE outst[c] - Inc(deq)
outst_next(c, iss, deq) == outst[c] + Inc(iss) - Inc(deq)

Init ==
  /\ RespInit
  /\ outst = [c \in Channel |-> 0]
  /\ die = [c \in Channel |-> << >>]

Cycle(req, ready, drive, resp_ready) ==
  /\ RespEdge(drive, resp_ready)
  /\ outst' = [c \in Channel |-> outst_next(c, iss_fire(c, req, ready),
                                               deq_fire(c, resp_ready))]
  /\ die' = [c \in Channel |->
               (IF enq_fire(c, drive) THEN Tail(die[c]) ELSE die[c])
                 \o (IF iss_fire(c, req, ready) THEN req ELSE << >>)]

(* The die-wide synchronous reset, which also empties the PHYs.            *)
Reset ==
  /\ RespReset
  /\ outst' = [c \in Channel |-> 0]
  /\ die' = [c \in Channel |-> << >>]

Returning == {c \in Channel : die[c] # << >>}
Requests == {<< >>} \cup {<<p>> : p \in Payload}

Edge == \E req \in Requests, ready, resp_ready \in BOOLEAN,
           drive \in SUBSET Returning : Cycle(req, ready, drive, resp_ready)

Next == Edge \/ Reset

Spec == Init /\ [][Next]_vars

(* The requester is ready again and again, and every PHY eventually        *)
(* presents a read it holds.                                               *)
Drain == \E req \in Requests, ready \in BOOLEAN, drive \in SUBSET Returning :
            gnt_valid /\ Cycle(req, ready, drive, TRUE)
Deliver(c) == \E req \in Requests, ready, resp_ready \in BOOLEAN,
                 drive \in SUBSET Returning :
                c \in drive /\ mem_resp_ready(c) /\ Cycle(req, ready, drive, resp_ready)

FairSpec == Spec /\ WF_vars(Drain) /\ \A c \in Channel : WF_vars(Deliver(c))
-----------------------------------------------------------------------------
TypeOK ==
  /\ RespTypeOK
  /\ outst \in [Channel -> 0 .. QDEPTH]

(* The outstanding counter of a channel is exactly the reads inside its    *)
(* PHY plus the answers in its FIFO, although three independent events     *)
(* (issue, completion, drain) move the three quantities.                   *)
OutstandingCounts == \A c \in Channel : outst[c] = Len(die[c]) + cnt[c]

(* A completing NAND read is never held back: whenever a PHY holds a read, *)
(* its channel's FIFO has room (flash_xbar.v, back-pressure model).        *)
NeverBackpressured == \A c \in Returning : mem_resp_ready(c)

(* Each drain of another channel brings the pointer strictly nearer to a   *)
(* waiting channel, so a waiting FIFO is served within N_CH drains.        *)
RotationAdvances ==
  [][\A c \in Channel :
       resp' # << >> /\ fifo_ne(c) /\ gnt # c =>
         Distance(c, rr') < Distance(c, rr)]_vars

(* The fabric answers every accepted read once, with its own word and tag, *)
(* in order within its channel.                                            *)
ImplementsReadFabric == Fabric!Spec

(* No channel starves: unless it keeps running out of reads, every channel *)
(* is drained again and again, however busy the other channels are.        *)
NoStarvation ==
  \A c \in Channel :
    []<>(outst[c] = 0) \/ []<><<resp' # << >> /\ gnt_valid /\ gnt = c>>_vars
=============================================================================
