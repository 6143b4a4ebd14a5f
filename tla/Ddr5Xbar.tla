------------------------------ MODULE Ddr5Xbar ------------------------------
(***************************************************************************)
(* src/ddr5_xbar.v: the DDR5 read fabric of the fast tier.  A request is   *)
(* accepted whenever the PHY of its channel takes it, without any count of *)
(* the reads outstanding; a channel whose response FIFO is full is held    *)
(* back through mem_resp_ready instead.  One step is one clock edge.       *)
(***************************************************************************)
EXTENDS FabricResponse

vars == <<fifo, head, tail, cnt, rr, die, resp>>

iss_fire(c, req, ready) ==
  /\ req # << >>
  /\ BankOf(Head(req).data) = c
  /\ ready

Init ==
  /\ RespInit
  /\ die = [c \in Channel |-> << >>]

Cycle(req, ready, drive, resp_ready) ==
  /\ RespEdge(drive, resp_ready)
  /\ die' = [c \in Channel |->
               (IF enq_fire(c, drive) THEN Tail(die[c]) ELSE die[c])
                 \o (IF iss_fire(c, req, ready) THEN req ELSE << >>)]

(* The die-wide synchronous reset, which also empties the PHYs.            *)
Reset ==
  /\ RespReset
  /\ die' = [c \in Channel |-> << >>]

Returning == {c \in Channel : die[c] # << >>}
Requests == {<< >>} \cup {<<p>> : p \in Payload}

(* A PHY that already holds PHY_DEPTH reads takes no further command.      *)
CanTake(req, ready) ==
  ready => req # << >> /\ Len(die[BankOf(Head(req).data)]) < PHY_DEPTH

Edge == \E req \in Requests, ready, resp_ready \in BOOLEAN,
           drive \in SUBSET Returning :
          CanTake(req, ready) /\ Cycle(req, ready, drive, resp_ready)

Next == Edge \/ Reset

Spec == Init /\ [][Next]_vars

(* The requester is ready again and again, and a PHY whose FIFO has room   *)
(* again and again presents the read it holds.                             *)
Drain == \E req \in Requests, ready \in BOOLEAN, drive \in SUBSET Returning :
           /\ gnt_valid
           /\ CanTake(req, ready)
           /\ Cycle(req, ready, drive, TRUE)
Deliver(c) == \E req \in Requests, ready, resp_ready \in BOOLEAN,
                 drive \in SUBSET Returning :
                /\ enq_fire(c, drive)
                /\ CanTake(req, ready)
                /\ Cycle(req, ready, drive, resp_ready)

FairSpec == Spec /\ WF_vars(Drain) /\ \A c \in Channel : WF_vars(Deliver(c))
-----------------------------------------------------------------------------
(* The fabric answers every accepted read once, with its own word and tag, *)
(* in order within its channel, although nothing bounds the reads in       *)
(* flight and a full FIFO holds its channel back for any number of cycles. *)
ImplementsReadFabric == Fabric!Spec

(* A read that has reached its FIFO is drained whatever the other channels *)
(* do, and a channel held back by a full FIFO delivers again: every        *)
(* channel that keeps owing reads is drained again and again.              *)
NoStarvation ==
  \A c \in Channel :
    \/ []<>(cnt[c] = 0 /\ die[c] = << >>)
    \/ []<><<resp' # << >> /\ gnt_valid /\ gnt = c>>_vars
=============================================================================
