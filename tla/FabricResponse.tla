---------------------------- MODULE FabricResponse ----------------------------
(***************************************************************************)
(* The response half of the two banked read fabrics, flash_xbar.v and      *)
(* ddr5_xbar.v: one ring-buffer FIFO per channel, filled by the channel's  *)
(* PHY and drained, one answer a cycle, by a round-robin arbiter.  The     *)
(* source repeats this text in both files; the modules share it.           *)
(***************************************************************************)
EXTENDS Naturals, Sequences

CONSTANTS
  N_CH,         \* number of channels
  RESP_QD,      \* depth of each channel's response FIFO
  Addr,         \* block addresses the requester may ask for
  Tag,          \* requester tags
  BANK_LSB,     \* first address bit of the channel-select field
  PHY_DEPTH,    \* bound: reads a DDR5 PHY accepts before answering one
  Unwritten     \* content of a FIFO slot no word was ever stored in

(* N_CH is a power of two, so that the channel-select field is a clean     *)
(* modulo-N_CH index, and at least two: the field is never narrower than   *)
(* one bit.                                                                *)
ASSUME FabricAssumption ==
  /\ N_CH \in Nat \ {0, 1}
  /\ \E k \in 1 .. N_CH : N_CH = 2^k
  /\ RESP_QD \in Nat \ {0}
  /\ Addr \subseteq Nat
  /\ BANK_LSB \in Nat
  /\ PHY_DEPTH \in Nat \ {0}

VARIABLES
  fifo,         \* fifo[c][s]: slot s of channel c's response FIFO
  head, tail,   \* read and write slot of each FIFO
  cnt,          \* words held in each FIFO
  rr,           \* round-robin pointer
  die,          \* external: reads inside channel c's PHY, oldest first
  resp          \* observation: answer handed over at the last edge, or <<>>

Channel == 0 .. N_CH - 1
Slot == 0 .. RESP_QD - 1

(* A request is an address and a tag.  The word a channel returns for it   *)
(* is named by the address it was read from.                               *)
Payload == [tag : Tag, data : Addr]

(* The channel-select field of an address: CH_IDX_W bits from BANK_LSB.    *)
BankOf(a) == (a \div 2^BANK_LSB) % N_CH

fifo_ne(c) == cnt[c] # 0
mem_resp_ready(c) == cnt[c] # RESP_QD

(* The arbiter grants the first non-empty FIFO at or after rr, cyclically. *)
Distance(c, from) == IF c >= from THEN c - from ELSE c + N_CH - from
gnt_valid == \E c \in Channel : fifo_ne(c)
gnt_lowest == CHOOSE c \in Channel :
                /\ fifo_ne(c)
                /\ \A d \in Channel : fifo_ne(d) => c <= d   \* mutation: ignores rr
gnt == CHOOSE c \in Channel :
         /\ fifo_ne(c)
         /\ \A d \in Channel : fifo_ne(d) => Distance(c, rr) <= Distance(d, rr)

(* drive is the set of channels whose PHY presents a completed read.       *)
enq_fire(c, drive) == c \in drive /\ mem_resp_ready(c)
deq_fire_unready(c, resp_ready) ==              \* mutation: no handshake
  gnt_valid /\ gnt = c
deq_fire(c, resp_ready) == gnt_valid /\ gnt = c /\ resp_ready

NextSlot(s) == IF s = RESP_QD - 1 THEN 0 ELSE s + 1
Inc(b) == IF b THEN 1 ELSE 0

RespInit ==
  /\ fifo = [c \in Channel |-> [s \in Slot |-> Unwritten]]
  /\ head = [c \in Channel |-> 0]
  /\ tail = [c \in Channel |-> 0]
  /\ cnt = [c \in Channel |-> 0]
  /\ rr = 0
  /\ resp = << >>

(* The clocked response path.                                              *)
RespEdge(drive, resp_ready) ==
  /\ fifo' = [c \in Channel |-> IF enq_fire(c, drive)
                THEN [fifo[c] EXCEPT ![tail[c]] = Head(die[c])]
                ELSE fifo[c]]
  /\ tail' = [c \in Channel |-> IF enq_fire(c, drive)
                                  THEN NextSlot(tail[c]) ELSE tail[c]]
  /\ head' = [c \in Channel |-> IF deq_fire(c, resp_ready)
                                  THEN NextSlot(head[c]) ELSE head[c]]
  /\ cnt' = [c \in Channel |-> cnt[c] + Inc(enq_fire(c, drive))
                                 - Inc(deq_fire(c, resp_ready))]
  /\ rr' = IF gnt_valid /\ resp_ready
             THEN IF gnt = N_CH - 1 THEN 0 ELSE gnt + 1
             ELSE rr
  /\ resp' = IF gnt_valid /\ resp_ready THEN <<fifo[gnt][head[gnt]]>> ELSE << >>

(* Reset clears the pointers and counts; the FIFO storage keeps its bits.  *)
RespReset ==
  /\ head' = [c \in Channel |-> 0]
  /\ tail' = [c \in Channel |-> 0]
  /\ cnt' = [c \in Channel |-> 0]
  /\ rr' = 0
  /\ resp' = << >>
  /\ UNCHANGED fifo

-----------------------------------------------------------------------------
(* The slot k places after slot h of a ring of RESP_QD slots.              *)
SlotAt(h, k) == IF h + k < RESP_QD THEN h + k ELSE h + k - RESP_QD

(* The words waiting in channel c's FIFO, oldest first, and all the        *)
(* answers the fabric owes: those words, then the reads still in the PHY.  *)
Queued(c) == [i \in 1 .. cnt[c] |-> fifo[c][SlotAt(head[c], i - 1)]]
Owed == [c \in Channel |-> Queued(c) \o die[c]]

Fabric == INSTANCE ReadFabric WITH owed <- Owed, answer <- resp

RespTypeOK ==
  /\ fifo \in [Channel -> [Slot -> Payload \cup {Unwritten}]]
  /\ head \in [Channel -> Slot]
  /\ tail \in [Channel -> Slot]
  /\ cnt \in [Channel -> 0 .. RESP_QD]
  /\ rr \in Channel
  /\ die \in [Channel -> Seq(Payload)]
  /\ resp \in {<< >>} \cup {<<p>> : p \in Payload \cup {Unwritten}}

(* The count agrees with the two pointers, and every slot between them     *)
(* holds a word that was stored there.                                     *)
RingsHoldWords ==
  \A c \in Channel :
    /\ tail[c] = SlotAt(head[c], cnt[c])
    /\ \A k \in 0 .. RESP_QD - 1 :
         k < cnt[c] => fifo[c][SlotAt(head[c], k)] \in Payload
===============================================================================
