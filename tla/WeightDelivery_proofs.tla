------------------------- MODULE WeightDelivery_proofs -------------------------
(***************************************************************************)
(* Proofs about how a weight gets to the matmul.  First the read fabrics   *)
(* that fetch words, for every number of channels, FIFO depth, PHY depth,  *)
(* address set and tag set: the Flash fabric, then the DDR5 fabric, whose  *)
(* response half is the same text over registers of its own.  Then the     *)
(* packer and the loader, for every checkpoint and every size of a tile    *)
(* and of a block.                                                         *)
(***************************************************************************)
EXTENDS MCReadFabrics, FabricResponse_proofs, MCWeights, Fp8Numerics_proofs

(* ------------------------- The read fabrics ---------------------------- *)
Half == INSTANCE FabricResponse_proofs
       WITH fifo <- ddr_fifo, head <- ddr_head, tail <- ddr_tail, cnt <- ddr_cnt,
            rr <- ddr_rr, die <- ddr_die, resp <- ddr_resp

(* The inductive invariant.  The counters stay in range only because the   *)
(* outstanding counter bounds what the PHY and the FIFO hold together; the *)
(* answers are the right ones only because the rings are well formed.      *)
IInv == TypeOK /\ RingsHoldWords /\ OutstandingCounts

(* The read sent to each channel at an edge.                             *)
Issued(req, ready) ==
  [c \in Channel |-> IF iss_fire(c, req, ready) THEN req ELSE << >>]

(* An edge of FlashXbar is an edge of its response half and of its PHYs,   *)
(* which issues at most one read, to one channel.                          *)
LEMMA CycleFacts ==
  ASSUME NEW req \in Requests, NEW ready \in BOOLEAN,
         NEW resp_ready \in BOOLEAN, NEW drive \in SUBSET Returning,
         Cycle(req, ready, drive, resp_ready)
  PROVE  /\ drive \in SUBSET Holding
         /\ RespEdge(drive, resp_ready)
         /\ Issued(req, ready) \in [Channel -> AtMostOne]
         /\ DieEdge(drive, Issued(req, ready))
         /\ \E in \in Channel, new \in AtMostOne :
              Issued(req, ready) = [c \in Channel |-> IF c = in THEN new ELSE << >>]
<1>1. req \in AtMostOne /\ << >> \in AtMostOne
  BY DEF Requests, AtMostOne
<1>2. drive \in SUBSET Holding /\ RespEdge(drive, resp_ready)
  BY DEF Returning, Holding, Cycle
<1>3. Issued(req, ready) \in [Channel -> AtMostOne]
  BY <1>1 DEF Issued
<1>4. DieEdge(drive, Issued(req, ready))
  BY DEF Cycle, DieEdge, Issued
<1>5. CASE \E in \in Channel : iss_fire(in, req, ready)
  <2>1. PICK in \in Channel : iss_fire(in, req, ready)
    BY <1>5
  <2>2. \A c \in Channel : iss_fire(c, req, ready) <=> c = in
    BY <2>1 DEF iss_fire
  <2>3. Issued(req, ready) = [c \in Channel |-> IF c = in THEN req ELSE << >>]
    BY <2>2 DEF Issued
  <2> QED
    BY <1>1, <1>2, <1>3, <1>4, <2>3
<1>6. CASE ~ \E in \in Channel : iss_fire(in, req, ready)
  <2>1. 0 \in Channel
    BY FabricAssumption DEF Channel
  <2>2. Issued(req, ready) = [c \in Channel |-> IF c = 0 THEN << >> ELSE << >>]
    BY <1>6 DEF Issued
  <2> QED
    BY <1>1, <1>2, <1>3, <1>4, <2>1, <2>2
<1> QED
  BY <1>5, <1>6
-----------------------------------------------------------------------------
LEMMA InitIInv == Init => IInv /\ Fabric!Init
<1> SUFFICES ASSUME Init PROVE IInv /\ Fabric!Init
  OBVIOUS
<1>1. RespTypeOK /\ RingsHoldWords /\ Fabric!Init
  BY RespInitFacts DEF Init
<1>2. TypeOK /\ OutstandingCounts
  BY <1>1, FabricAssumption DEF Init, RespInit, TypeOK, OutstandingCounts, QDEPTH
<1> QED
  BY <1>1, <1>2 DEF IInv

(* The outstanding counter of one channel across a clock edge.             *)
LEMMA CountStep ==
  ASSUME IInv, NEW req \in Requests, NEW ready \in BOOLEAN,
         NEW resp_ready \in BOOLEAN, NEW drive \in SUBSET Returning,
         Cycle(req, ready, drive, resp_ready), NEW c \in Channel
  PROVE  /\ outst'[c] \in 0 .. QDEPTH
         /\ outst'[c] = Len(die'[c]) + cnt'[c]
<1>1. /\ RespTypeOK /\ RingsHoldWords
      /\ die[c] \in Seq(Payload) /\ Len(die[c]) \in Nat
      /\ cnt[c] \in 0 .. RESP_QD /\ outst[c] \in 0 .. RESP_QD
      /\ outst[c] = Len(die[c]) + cnt[c]
      /\ rr \in Channel /\ RESP_QD \in Nat
  BY FabricAssumption DEF IInv, TypeOK, RespTypeOK, OutstandingCounts, QDEPTH
<1>2. PICK e \in {0, 1}, i \in {0, 1}, d \in {0, 1} :
         /\ e = Inc(enq_fire(c, drive))
         /\ i = Inc(iss_fire(c, req, ready)) /\ (i = 1 <=> iss_fire(c, req, ready))
         /\ d = Inc(deq_fire(c, resp_ready)) /\ (d = 1 <=> deq_fire(c, resp_ready))
  BY DEF Inc
<1>3. outst'[c] = outst[c] + i - d
  BY <1>2 DEF Cycle, outst_next
<1>4. cnt'[c] = cnt[c] + e - d /\ cnt'[c] \in 0 .. RESP_QD
  BY <1>1, <1>2, RingEdge, CycleFacts
<1>5. Len(Issued(req, ready)[c]) = i
  <2>1. CASE iss_fire(c, req, ready)
    <3>1. PICK p \in Payload : req = <<p>>
      BY <2>1 DEF iss_fire, Requests
    <3> QED
      BY <1>2, <2>1, <3>1 DEF Issued
  <2>2. CASE ~iss_fire(c, req, ready)
    BY <1>2, <2>2, EmptySeq DEF Issued
  <2> QED
    BY <2>1, <2>2
<1>6. Len(die'[c]) = Len(die[c]) - e + i /\ Len(die'[c]) \in Nat
  <2>1. PICK sent \in [Channel -> AtMostOne] :
          sent = Issued(req, ready) /\ DieEdge(drive, sent)
    BY CycleFacts
  <2>2. /\ die'[c] \in Seq(Payload)
        /\ Len(die'[c]) = Len(die[c]) - Inc(enq_fire(c, drive)) + Len(sent[c])
    BY <1>1, <2>1, CycleFacts, DieFacts
  <2> QED
    BY <1>2, <1>5, <2>1, <2>2, LenProperties
<1>7. (i = 1 => outst[c] # RESP_QD) /\ (d = 1 => outst[c] # 0)
  <2>1. /\ iss_fire(c, req, ready) => outst[c] # RESP_QD
        /\ deq_fire(c, resp_ready) => cnt[c] # 0
    BY <1>1, DrainFacts DEF iss_fire, ch_full, QDEPTH
  <2> QED
    BY <1>1, <1>2, <2>1
<1>8. outst'[c] \in 0 .. RESP_QD
  BY <1>1, <1>3, <1>7, CounterInRange
<1>9. outst'[c] = Len(die'[c]) + cnt'[c]
  <2>1. /\ cnt[c] \in Int /\ Len(die[c]) \in Int
        /\ outst'[c] = Len(die[c]) + cnt[c] + i - d
    BY <1>1, <1>3
  <2> QED
    BY <1>4, <1>6, <2>1
<1> QED
  BY <1>8, <1>9 DEF QDEPTH

(* A clock edge preserves the invariant and is a step of ReadFabric.       *)
LEMMA CycleStep ==
  ASSUME IInv, NEW req \in Requests, NEW ready \in BOOLEAN,
         NEW resp_ready \in BOOLEAN, NEW drive \in SUBSET Returning,
         Cycle(req, ready, drive, resp_ready)
  PROVE  IInv' /\ Fabric!Next
<1>1. RespTypeOK /\ RingsHoldWords
  BY DEF IInv, TypeOK
<1>2. PICK in \in Channel, new \in AtMostOne :
        Issued(req, ready) = [c \in Channel |-> IF c = in THEN new ELSE << >>]
  BY CycleFacts
<1> DEFINE sent == [c \in Channel |-> IF c = in THEN new ELSE << >>]
<1>3. /\ drive \in SUBSET Holding /\ RespEdge(drive, resp_ready)
      /\ sent \in [Channel -> AtMostOne] /\ DieEdge(drive, sent)
  BY <1>2, CycleFacts
<1>4. Fabric!Next
  BY <1>1, <1>3, EdgeIsFabricStep
<1>5. RespTypeOK' /\ RingsHoldWords'
  BY <1>1, <1>3, EdgeInv
<1>6. outst' \in [Channel -> 0 .. QDEPTH] /\ OutstandingCounts'
  <2>1. outst' = [c \in Channel |-> outst'[c]]
    BY DEF Cycle
  <2> QED
    BY <2>1, CountStep DEF OutstandingCounts
<1> QED
  BY <1>4, <1>5, <1>6 DEF IInv, TypeOK

LEMMA FlashResetStep == ASSUME IInv, Reset PROVE IInv' /\ Fabric!Next
<1>1. RespTypeOK' /\ RingsHoldWords' /\ Fabric!Next
  BY RespResetFacts DEF IInv, TypeOK, Reset
<1>2. outst' \in [Channel -> 0 .. QDEPTH]
  BY FabricAssumption DEF Reset, QDEPTH
<1>3. OutstandingCounts'
  BY EmptySeq DEF Reset, RespReset, OutstandingCounts
<1> QED
  BY <1>1, <1>2, <1>3 DEF IInv, TypeOK

LEMMA Step == IInv /\ [Next]_vars => IInv' /\ [Fabric!Next]_(Fabric!vars)
<1> SUFFICES ASSUME IInv, [Next]_vars PROVE IInv' /\ [Fabric!Next]_(Fabric!vars)
  OBVIOUS
<1>1. CASE Edge
  BY <1>1, CycleStep DEF Edge
<1>2. CASE Reset
  BY <1>2, FlashResetStep
<1>3. CASE UNCHANGED vars
  <2>1. IInv'
    BY <1>3 DEF IInv, TypeOK, RespTypeOK, RingsHoldWords, OutstandingCounts, vars
  <2>2. UNCHANGED Fabric!vars
    BY <1>3 DEF Fabric!vars, Owed, Queued, vars
  <2> QED
    BY <2>1, <2>2
<1> QED
  BY <1>1, <1>2, <1>3 DEF Next

THEOREM Invariance == Spec => []IInv
  BY InitIInv, Step, PTL DEF Spec
-----------------------------------------------------------------------------
(* The Flash fabric implements ReadFabric for every N_CH and QDEPTH: every *)
(* accepted read is answered once, with its own word and tag, in the order *)
(* of its channel.                                                         *)
THEOREM Refinement == Spec => ImplementsReadFabric
<1>1. Init => Fabric!Init
  BY InitIInv
<1>2. IInv /\ [Next]_vars => [Fabric!Next]_(Fabric!vars)
  BY Step
<1> QED
  BY <1>1, <1>2, Invariance, PTL DEF Spec, ImplementsReadFabric, Fabric!Spec

(* Every register of flash_xbar.v stays in the range its width is chosen   *)
(* for, whatever N_CH and QDEPTH: no counter passes QDEPTH or zero.        *)
THEOREM TypeCorrect == Spec => []TypeOK
<1>1. IInv => TypeOK
  BY DEF IInv
<1> QED
  BY Invariance, <1>1, PTL

(* outst[c] is the reads in channel c's PHY plus the answers in its FIFO.  *)
THEOREM OutstandingCorrect == Spec => []OutstandingCounts
<1>1. IInv => OutstandingCounts
  BY DEF IInv
<1> QED
  BY Invariance, <1>1, PTL

(* mem_resp_ready is high on every channel that has a read to return, so   *)
(* the fabric never holds back a completing NAND read.                     *)
THEOREM NoBackpressure == Spec => []NeverBackpressured
<1>1. IInv => NeverBackpressured
  <2> SUFFICES ASSUME IInv, NEW c \in Returning PROVE cnt[c] # RESP_QD
    BY DEF NeverBackpressured, mem_resp_ready
  <2>1. /\ c \in Channel /\ die[c] \in Seq(Payload) /\ die[c] # << >>
        /\ outst[c] \in 0 .. RESP_QD /\ cnt[c] \in 0 .. RESP_QD
        /\ outst[c] = Len(die[c]) + cnt[c]
    BY DEF IInv, TypeOK, RespTypeOK, OutstandingCounts, Returning, QDEPTH
  <2>2. Len(die[c]) \in Nat /\ Len(die[c]) # 0
    BY <2>1, EmptySeq
  <2> QED
    BY <2>1, <2>2, FabricAssumption
<1> QED
  BY Invariance, <1>1, PTL

(* A drain of another channel brings the pointer strictly nearer to every  *)
(* waiting channel: the round-robin arbiter passes nobody over.            *)
THEOREM RotationProgress == Spec => RotationAdvances
<1> DEFINE Nearer == \A c \in Channel :
                       resp' # << >> /\ fifo_ne(c) /\ gnt # c =>
                         Distance(c, rr') < Distance(c, rr)
<1>1. IInv /\ [Next]_vars => [Nearer]_vars
  <2> SUFFICES ASSUME IInv, Next, NEW c \in Channel,
                      resp' # << >>, fifo_ne(c), gnt # c
               PROVE  Distance(c, rr') < Distance(c, rr)
    OBVIOUS
  <2>1. Edge
    BY DEF Next, Reset, RespReset
  <2>2. rr \in Channel /\ gnt_valid
    BY DEF IInv, TypeOK, RespTypeOK, gnt_valid
  <2>3. /\ gnt \in Channel
        /\ Distance(gnt, rr) <= Distance(c, rr)
    BY <2>2, GrantFacts
  <2>4. rr' = IF gnt = N_CH - 1 THEN 0 ELSE gnt + 1
    BY <2>1, <2>2 DEF Edge, Cycle, RespEdge
  <2>5. Distance(gnt, rr) # Distance(c, rr)
    BY <2>2, <2>3, DistanceFacts
  <2> QED
    BY <2>2, <2>3, <2>4, <2>5, FabricAssumption DEF Distance, Channel
<1> QED
  BY Invariance, <1>1, PTL DEF Spec, RotationAdvances
-----------------------------------------------------------------------------
(* The DDR5 fabric.  No counter bounds the reads in flight here, so the    *)
(* rings alone keep the answers, held back by mem_resp_ready.              *)
Ddr5Inv == Ddr!RespTypeOK /\ Ddr!RingsHoldWords

(* The response half of the DDR5 fabric is the shared one.                 *)
LEMMA SameInvariant ==
  /\ Ddr!RespTypeOK <=> Half!RespTypeOK
  /\ Ddr!RingsHoldWords <=> Half!RingsHoldWords
  /\ Ddr!RespInit <=> Half!RespInit
  BY DEF Ddr!RespTypeOK, Half!RespTypeOK, Ddr!RingsHoldWords, Half!RingsHoldWords, Ddr!RespInit, Half!RespInit,
         Ddr!Channel, Half!Channel, Ddr!Slot, Half!Slot, Ddr!Payload, Half!Payload, Ddr!SlotAt, Half!SlotAt

RingsInv == Half!RespTypeOK /\ Half!RingsHoldWords

LEMMA SharedInv == RingsInv => Ddr5Inv
  BY SameInvariant DEF RingsInv, Ddr5Inv

LEMMA SharedInvNext == RingsInv' => Ddr5Inv'
  BY SharedInv, PTL

LEMMA SameReset == Ddr!RespReset <=> Half!RespReset
  BY DEF Ddr!RespReset, Half!RespReset, Ddr!Channel, Half!Channel

LEMMA SameEdge ==
  ASSUME NEW drive, NEW resp_ready, Ddr!RespEdge(drive, resp_ready)
  PROVE  Half!RespEdge(drive, resp_ready)
  BY SMTT(30) DEF Ddr!RespEdge, Half!RespEdge, Ddr!enq_fire, Half!enq_fire, Ddr!deq_fire, Half!deq_fire,
         Ddr!mem_resp_ready, Half!mem_resp_ready, Ddr!fifo_ne, Half!fifo_ne, Ddr!gnt_valid, Half!gnt_valid,
         Ddr!gnt, Half!gnt, Ddr!Distance, Half!Distance, Ddr!NextSlot, Half!NextSlot, Ddr!Inc, Half!Inc,
         Ddr!Channel, Half!Channel

LEMMA SamePromise ==
  /\ Half!Fabric!Init <=> Ddr!Fabric!Init
  /\ Half!Fabric!Next => Ddr!Fabric!Next
  BY ZenonT(30) DEF Ddr!Fabric!Init, Half!Fabric!Init, Ddr!Fabric!Next, Half!Fabric!Next,
         Ddr!Fabric!Quiet, Half!Fabric!Quiet, Ddr!Fabric!Answer, Half!Fabric!Answer,
         Ddr!Fabric!Reset, Half!Fabric!Reset, Ddr!Owed, Half!Owed, Ddr!Queued, Half!Queued,
         Ddr!SlotAt, Half!SlotAt, Ddr!Channel, Half!Channel, Ddr!Payload, Half!Payload

(* The read sent to each channel at an edge: at most one, to the channel   *)
(* it is banked to.                                                        *)
Ddr5Issued(req, ready) ==
  [c \in Half!Channel |-> IF Ddr!iss_fire(c, req, ready) THEN req ELSE << >>]

LEMMA Ddr5IssueFacts ==
  ASSUME NEW req \in Ddr!Requests, NEW ready \in BOOLEAN
  PROVE  \E in \in Half!Channel, new \in Half!AtMostOne :
           Ddr5Issued(req, ready) = [c \in Half!Channel |-> IF c = in THEN new ELSE << >>]
<1>1. req \in Half!AtMostOne /\ << >> \in Half!AtMostOne
  BY DEF Ddr!Requests, Half!AtMostOne, Ddr!Payload, Half!Payload
<1>2. CASE \E in \in Half!Channel : Ddr!iss_fire(in, req, ready)
  <2>1. PICK in \in Half!Channel : Ddr!iss_fire(in, req, ready)
    BY <1>2
  <2>2. \A c \in Half!Channel : Ddr!iss_fire(c, req, ready) <=> c = in
    BY <2>1 DEF Ddr!iss_fire
  <2>3. Ddr5Issued(req, ready) = [c \in Half!Channel |-> IF c = in THEN req ELSE << >>]
    BY <2>2 DEF Ddr5Issued
  <2> QED
    BY <1>1, <2>3
<1>3. CASE ~ \E in \in Half!Channel : Ddr!iss_fire(in, req, ready)
  <2>1. 0 \in Half!Channel
    BY FabricAssumption DEF Half!Channel
  <2>2. Ddr5Issued(req, ready) = [c \in Half!Channel |-> IF c = 0 THEN << >> ELSE << >>]
    BY <1>3 DEF Ddr5Issued
  <2> QED
    BY <1>1, <2>1, <2>2
<1> QED
  BY <1>2, <1>3

(* A clock edge preserves the invariant and is a step of ReadFabric.       *)
LEMMA Ddr5CycleStep ==
  ASSUME Ddr5Inv, NEW req \in Ddr!Requests, NEW ready \in BOOLEAN,
         NEW resp_ready \in BOOLEAN, NEW drive \in SUBSET Ddr!Returning,
         Ddr!Cycle(req, ready, drive, resp_ready)
  PROVE  Ddr5Inv' /\ Ddr!Fabric!Next
<1>1. Half!RespTypeOK /\ Half!RingsHoldWords
  BY SameInvariant DEF Ddr5Inv
<1>2. PICK in \in Half!Channel, new \in Half!AtMostOne :
        Ddr5Issued(req, ready) = [c \in Half!Channel |-> IF c = in THEN new ELSE << >>]
  BY Ddr5IssueFacts
<1> DEFINE sent == [c \in Half!Channel |-> IF c = in THEN new ELSE << >>]
<1>3. drive \in SUBSET Half!Holding /\ Half!RespEdge(drive, resp_ready)
  BY SameEdge DEF Ddr!Returning, Half!Holding, Ddr!Channel, Half!Channel, Ddr!Cycle
<1>4. sent \in [Half!Channel -> Half!AtMostOne]
  BY DEF Half!AtMostOne
<1>5. Half!DieEdge(drive, sent)
  <2>1. Half!DieEdge(drive, Ddr5Issued(req, ready))
    BY DEF Ddr!Cycle, Half!DieEdge, Ddr5Issued, Ddr!enq_fire, Half!enq_fire, Ddr!mem_resp_ready, Half!mem_resp_ready,
           Ddr!Channel, Half!Channel
  <2> QED
    BY <1>2, <2>1
<1>6. Half!Fabric!Next
  BY <1>1, <1>3, <1>5, FabricAssumption, Half!EdgeIsFabricStep
<1>7. Half!RespTypeOK' /\ Half!RingsHoldWords'
  BY <1>1, <1>3, <1>4, <1>5, FabricAssumption, Half!EdgeInv
<1>8. Ddr5Inv'
  BY <1>7, SharedInvNext DEF RingsInv
<1> QED
  BY <1>6, <1>8, SamePromise

LEMMA Ddr5Init == Ddr!Init => Ddr5Inv /\ Ddr!Fabric!Init
<1> SUFFICES ASSUME Ddr!Init PROVE Ddr5Inv /\ Ddr!Fabric!Init
  OBVIOUS
<1>1. Half!RespInit /\ ddr_die = [c \in Half!Channel |-> << >>]
  BY SameInvariant DEF Ddr!Init, Ddr!Channel, Half!Channel
<1> QED
  BY <1>1, FabricAssumption, Half!RespInitFacts, SameInvariant, SamePromise DEF Ddr5Inv

LEMMA Ddr5Step == Ddr5Inv /\ [Ddr!Next]_ddrVars => Ddr5Inv' /\ [Ddr!Fabric!Next]_(Ddr!Fabric!vars)
<1> SUFFICES ASSUME Ddr5Inv, [Ddr!Next]_ddrVars PROVE Ddr5Inv' /\ [Ddr!Fabric!Next]_(Ddr!Fabric!vars)
  OBVIOUS
<1>1. CASE Ddr!Edge
  BY <1>1, Ddr5CycleStep DEF Ddr!Edge
<1>2. CASE Ddr!Reset
  <2>1. Half!RespReset /\ ddr_die' = [c \in Half!Channel |-> << >>] /\ Half!RespTypeOK
    BY <1>2, SameReset, SameInvariant DEF Ddr!Reset, Ddr5Inv, Ddr!Channel, Half!Channel
  <2>2. Half!RespTypeOK' /\ Half!RingsHoldWords' /\ Half!Fabric!Next
    BY <2>1, FabricAssumption, Half!RespResetFacts
  <2> QED
    BY <2>2, SharedInvNext, SamePromise DEF RingsInv
<1>3. CASE UNCHANGED ddrVars
  <2>1. Ddr5Inv'
    BY <1>3 DEF Ddr5Inv, Ddr!RespTypeOK, Ddr!RingsHoldWords, ddrVars, Ddr!Channel, Ddr!Slot, Ddr!Payload, Ddr!SlotAt
  <2>2. UNCHANGED Ddr!Fabric!vars
    BY <1>3 DEF Ddr!Fabric!vars, Ddr!Owed, Ddr!Queued, ddrVars, Ddr!Channel, Ddr!SlotAt
  <2> QED
    BY <2>1, <2>2
<1> QED
  BY <1>1, <1>2, <1>3 DEF Ddr!Next

LEMMA Ddr5Runs == FabricsSpec => Ddr!Init /\ [][Ddr!Next]_ddrVars
<1>1. [FlashDoes(Next) \/ Ddr5Does(Ddr!Next)]_allVars => [Ddr!Next]_ddrVars
  BY DEF FlashDoes, Ddr5Does, allVars, ddrVars
<1> QED
  BY <1>1, PTL DEF FabricsSpec, FabricsInit

(* No response FIFO of ddr5_xbar.v over- or underruns and no waiting slot  *)
(* is one never written, although nothing counts the reads in flight.      *)
THEOREM Ddr5RingsHold == FabricsSpec => []Ddr5Inv
  BY Ddr5Runs, Ddr5Init, Ddr5Step, PTL

(* The DDR5 fabric implements ReadFabric for every N_CH, RESP_QD and PHY:  *)
(* every accepted read is answered once, with its own word and tag, in the *)
(* order of its channel, however long a full FIFO holds its channel back.  *)
THEOREM Ddr5IsReadFabric == FabricsSpec => Ddr5ImplementsReadFabric
<1>1. Ddr5Inv /\ [Ddr!Next]_ddrVars => [Ddr!Fabric!Next]_(Ddr!Fabric!vars)
  BY Ddr5Step
<1> QED
  BY <1>1, Ddr5Runs, Ddr5Init, Ddr5RingsHold, PTL
     DEF Ddr5ImplementsReadFabric, Ddr!ImplementsReadFabric, Ddr!Fabric!Spec
------------------------------------------------------------------------------
(* From a checkpoint file to the matmul.  Sequences laid end to end are    *)
(* found again at their offsets.                                           *)
Offsets(st, n, s) ==
  /\ st[1] = 0
  /\ \A i \in 1 .. n : st[i] \in Nat /\ st[i + 1] \in Nat /\ st[i + 1] = st[i] + Len(s[i])
Unrolls(h, n, s) == \A i \in 1 .. n : h[i] = IF i = 1 THEN s[i] ELSE h[i - 1] \o s[i]

LEMMA FlattenUnrolls ==
  ASSUME NEW B, NEW n \in Nat \ {0}, NEW s \in [1 .. n -> Seq(B)]
  PROVE  \E h : Unrolls(h, n, s) /\ FlattenSeq(s) = h[n]
<1> DEFINE D == Seq(B)
           Body(g) == [i \in 1 .. n |-> IF i = 1 THEN s[i] ELSE g[i - 1] \o s[i]]
           F == [i \in 1 .. n |-> [v \in D |-> v \o s[i]]]
           h == CHOOSE g : g = Body(g)
<1>1. Len(s) = n
  BY SeqDef, LenProperties
<1>2. FlattenSeq(s) = h[n]
  BY <1>1 DEF FlattenSeq
<1>3. F \in [1 .. n -> [D -> D]] /\ << >> \in D
  <2>1. \A i \in 1 .. n : \A v \in D : v \o s[i] \in D
    BY ConcatProperties
  <2> HIDE DEF D
  <2>2. F \in [1 .. n -> [D -> D]]
    BY <2>1
  <2> QED
    BY <2>2, EmptySeq DEF D
<1>4. \E g : g = Body(g)
  <2>1. PICK f \in [0 .. n -> D] : f[0] = << >> /\ \A i \in 1 .. n : f[i] = F[i][f[i - 1]]
    <3> HIDE DEF F, D
    <3>1. Iterates(n, D, << >>, F)
      BY <1>3, Iteration
    <3> QED
      BY <3>1 DEF Iterates
  <2>2. \A i \in 1 .. n : f[i - 1] \in D /\ f[i] = f[i - 1] \o s[i]
    <3> SUFFICES ASSUME NEW i \in 1 .. n PROVE f[i - 1] \in D /\ f[i] = f[i - 1] \o s[i]
      OBVIOUS
    <3>1. i - 1 \in 0 .. n
      OBVIOUS
    <3> HIDE DEF D
    <3> QED
      BY <2>1, <3>1
  <2> DEFINE g == [i \in 1 .. n |-> f[i]]
  <2>3. f[1] = s[1]
    <3>1. f[1] = f[0] \o s[1] /\ s[1] \in Seq(B)
      BY <2>2
    <3> QED
      BY <2>1, <3>1, ConcatEmptySeq
  <2>4. \A i \in 1 .. n : g[i] = IF i = 1 THEN s[i] ELSE g[i - 1] \o s[i]
    <3> SUFFICES ASSUME NEW i \in 1 .. n, i # 1 PROVE g[i] = g[i - 1] \o s[i]
      BY <2>3
    <3>1. i - 1 \in 1 .. n
      OBVIOUS
    <3> QED
      BY <2>2, <3>1
  <2>5. g = Body(g)
    <3> QED
      BY <2>4
  <2> HIDE DEF Body, g
  <2> QED
    BY <2>5
<1>5. h = Body(h)
  <2> HIDE DEF Body
  <2> QED
    BY <1>4
<1> HIDE DEF h
<1>6. Unrolls(h, n, s)
  BY <1>5 DEF Unrolls
<1> QED
  BY <1>2, <1>6

Found(v, B, st, n, s) ==
  v \in Seq(B) /\ \A i \in 1 .. n : SubSeq(v, st[i] + 1, st[i + 1]) = s[i]

LEMMA FlattenIs ==
  ASSUME NEW B, NEW n \in Nat \ {0}, NEW s \in [1 .. n -> Seq(B)], NEW st, Offsets(st, n, s)
  PROVE  Found(FlattenSeq(s), B, st, n, s)
<1>1. PICK h : Unrolls(h, n, s) /\ FlattenSeq(s) = h[n]
  BY FlattenUnrolls
<1> DEFINE Good(i) == /\ h[i] \in Seq(B) /\ Len(h[i]) = st[i + 1]
                      /\ \A l \in 1 .. i : /\ st[l + 1] <= st[i + 1]
                                           /\ \A x \in 1 .. Len(s[l]) : h[i][st[l] + x] = s[l][x]
           S == {i \in Nat : i \in 1 .. n => Good(i)}
<1>2. ASSUME NEW i \in Nat, \A l \in Nat : l < i => l \in S PROVE i \in S
  <2> SUFFICES ASSUME i \in 1 .. n PROVE Good(i)
    OBVIOUS
  <2>1. /\ s[i] \in Seq(B) /\ st[i] \in Nat /\ st[i + 1] = st[i] + Len(s[i]) /\ Len(s[i]) \in Nat
        /\ st[1] = 0
    BY LenProperties DEF Offsets
  <2>2. CASE i = 1
    <3>1. h[i] = s[i]
      BY <1>1, <2>2 DEF Unrolls
    <3>2. \A l \in 1 .. i : l = i
      BY <2>2
    <3>3. \A x \in 1 .. Len(s[i]) : st[i] + x = x
      BY <2>1, <2>2
    <3>4. Len(h[i]) = st[i + 1] /\ st[i + 1] <= st[i + 1]
      BY <2>1, <2>2, <3>1
    <3> QED
      BY <2>1, <3>1, <3>2, <3>3, <3>4
  <2>3. CASE i # 1
    <3>1. i - 1 \in Nat /\ i - 1 < i /\ i - 1 \in 1 .. n /\ (i - 1) + 1 = i
      BY <2>3
    <3>2. Good(i - 1)
      <4> HIDE DEF Good
      <4> QED
        BY <1>2, <3>1
    <3> DEFINE u == h[i - 1]
               v == s[i]
    <3>3. h[i] = u \o v
      BY <1>1, <2>3 DEF Unrolls
    <3>4. /\ u \in Seq(B) /\ Len(u) = st[i]
          /\ \A l \in 1 .. i - 1 : /\ st[l + 1] <= st[i]
                                   /\ \A x \in 1 .. Len(s[l]) : u[st[l] + x] = s[l][x]
      BY <3>1, <3>2
    <3>a. v \in Seq(B) /\ Len(v) \in Nat /\ st[i + 1] = st[i] + Len(v)
      BY <2>1
    <3> HIDE DEF u, v
    <3>5. /\ h[i] \in Seq(B) /\ Len(h[i]) = st[i] + Len(v)
          /\ \A y \in 1 .. st[i] + Len(v) : h[i][y] = IF y <= st[i] THEN u[y] ELSE v[y - st[i]]
      <4>1. /\ u \o v \in Seq(B) /\ Len(u \o v) = Len(u) + Len(v)
            /\ \A y \in 1 .. Len(u) + Len(v) : (u \o v)[y] = IF y <= Len(u) THEN u[y] ELSE v[y - Len(u)]
        BY <3>4, <3>a, ConcatProperties
      <4> QED
        BY <3>3, <3>4, <4>1
    <3>6. ASSUME NEW l \in 1 .. i, NEW x \in 1 .. Len(s[l])
          PROVE  h[i][st[l] + x] = s[l][x]
      <4>1. CASE l = i
        <5>1. st[i] + x \in 1 .. st[i] + Len(v) /\ ~(st[i] + x <= st[i]) /\ (st[i] + x) - st[i] = x
          BY <2>1, <3>a, <4>1 DEF v
        <5>2. h[i][st[i] + x] = v[x]
          BY <3>5, <5>1
        <5> QED
          BY <4>1, <5>2 DEF v
      <4>2. CASE l # i
        <5>1. l \in 1 .. i - 1 /\ l \in 1 .. n
          BY <4>2
        <5>2. st[l] \in Nat /\ st[l + 1] = st[l] + Len(s[l]) /\ st[l + 1] <= st[i] /\ Len(s[l]) \in Nat
          BY <3>4, <5>1, LenProperties DEF Offsets
        <5>3. st[l] + x \in 1 .. st[i] + Len(v) /\ st[l] + x <= st[i]
          <6> DEFINE p == st[l]
                     q == st[i]
                     c == Len(s[l])
                     d == Len(v)
          <6>1. p \in Nat /\ q \in Nat /\ c \in Nat /\ d \in Nat /\ p + c <= q /\ x \in 1 .. c
            BY <2>1, <3>a, <5>2
          <6> HIDE DEF p, q, c, d
          <6>2. p + x \in 1 .. q + d /\ p + x <= q
            BY <6>1
          <6> QED
            BY <6>2 DEF p, q, d
        <5>4. h[i][st[l] + x] = u[st[l] + x]
          BY <3>5, <5>3
        <5> QED
          BY <3>4, <5>1, <5>4
      <4> QED
        BY <4>1, <4>2
    <3>7. \A l \in 1 .. i : st[l + 1] <= st[i + 1]
      <4> SUFFICES ASSUME NEW l \in 1 .. i PROVE st[l + 1] <= st[i + 1]
        OBVIOUS
      <4>1. CASE l = i
        BY <2>1, <4>1
      <4>2. CASE l # i
        <5>1. l \in 1 .. i - 1 /\ l \in 1 .. n
          BY <4>2
        <5>2. st[l + 1] \in Nat /\ st[l + 1] <= st[i]
          BY <3>4, <5>1 DEF Offsets
        <5> QED
          BY <2>1, <5>2
      <4> QED
        BY <4>1, <4>2
    <3>8. Len(h[i]) = st[i + 1]
      BY <3>a, <3>5
    <3> QED
      BY <3>5, <3>6, <3>7, <3>8
  <2> QED
    BY <2>2, <2>3
<1>3. S = Nat
  <2>1. S \in SUBSET Nat
    OBVIOUS
  <2> HIDE DEF S
  <2> QED
    BY <1>2, <2>1, NatSets
<1>4. Good(n)
  <2> HIDE DEF Good
  <2> QED
    BY <1>3
<1> DEFINE w == FlattenSeq(s)
<1>5. /\ w \in Seq(B) /\ Len(w) = st[n + 1]
      /\ \A l \in 1 .. n : /\ st[l + 1] <= st[n + 1]
                           /\ \A x \in 1 .. Len(s[l]) : w[st[l] + x] = s[l][x]
  BY <1>1, <1>4
<1> HIDE DEF w
<1>6. ASSUME NEW i \in 1 .. n PROVE SubSeq(w, st[i] + 1, st[i + 1]) = s[i]
  <2> DEFINE p == st[i]
             q == st[i + 1]
             c == s[i]
  <2>1. p \in Nat /\ q \in Nat /\ q = p + Len(c) /\ Len(c) \in Nat /\ c \in Seq(B) /\ q <= Len(w)
    BY <1>5, LenProperties DEF Offsets
  <2>2. \A x \in 1 .. Len(c) : w[p + x] = c[x]
    BY <1>5
  <2> HIDE DEF p, q, c
  <2>3. \A y \in p + 1 .. q : w[y] \in B
    <3> SUFFICES ASSUME NEW y \in p + 1 .. q PROVE w[y] \in B
      OBVIOUS
    <3>1. y \in 1 .. Len(w)
      BY <2>1, <1>5, LenProperties
    <3> QED
      BY <3>1, <1>5, ElementOfSeq
  <2> DEFINE r == SubSeq(w, p + 1, q)
  <2>4. /\ r \in Seq(B) /\ Len(r) = IF p + 1 <= q THEN q - (p + 1) + 1 ELSE 0
        /\ \A x \in 1 .. q - (p + 1) + 1 : r[x] = w[(p + 1) + x - 1]
    BY <2>1, <2>3, SubSeqProperties
  <2> HIDE DEF r
  <2>5. Len(r) = Len(c)
    BY <2>1, <2>4
  <2>6. \A x \in 1 .. Len(r) : r[x] = c[x]
    <3> SUFFICES ASSUME NEW x \in 1 .. Len(r) PROVE r[x] = c[x]
      OBVIOUS
    <3>1. x \in 1 .. Len(c) /\ x \in 1 .. q - (p + 1) + 1 /\ (p + 1) + x - 1 = p + x
      BY <2>1, <2>5
    <3> QED
      BY <2>2, <2>4, <3>1
  <2>7. r = c
    BY <2>1, <2>4, <2>5, <2>6, SeqEqual
  <2> QED
    BY <2>7 DEF r, p, q, c
<1> QED
  BY <1>5, <1>6 DEF Found, w

(* The parts of an element are where its number says.                      *)
Parts(r, width, elts) ==
  /\ Len(r) = Len(elts) * width
  /\ \A i \in 1 .. Len(elts) : \A part \in 1 .. width : r[(i - 1) * width + part] = << elts[i], part >>

LEMMA WidthIs ==
  \A dtype : ELT(dtype) \in {1, 2, 4}
  BY DEF ELT

LEMMA RawIs ==
  ASSUME NEW dtype, NEW E, NEW elts \in Seq(E)
  PROVE  Raw(dtype, elts) \in Seq(E \X Nat) /\ Parts(Raw(dtype, elts), ELT(dtype), elts)
<1> DEFINE w == ELT(dtype)
           n == Len(elts)
           r == Raw(dtype, elts)
<1>1. w \in Nat \ {0} /\ n \in Nat /\ \A i \in 1 .. n : elts[i] \in E
  BY WidthIs, LenProperties, ElementOfSeq
<1>2. r = [y \in 1 .. w * n |-> << elts[(y - 1) \div w + 1], ((y - 1) % w) + 1 >>]
  BY DEF Raw
<1> HIDE DEF w, n, r
<1>3. ASSUME NEW y \in 1 .. w * n
      PROVE  (y - 1) \div w + 1 \in 1 .. n /\ ((y - 1) % w) + 1 \in Nat
  <2> DEFINE x == y - 1
             q == x \div w
             e == x % w
  <2>1. x \in Nat /\ x < w * n
    BY <1>1
  <2> HIDE DEF x
  <2>2. q \in Nat /\ e \in 0 .. w - 1
    BY <1>1, <2>1, Division
  <2>3. q < n
    BY <1>1, <2>1, Quotients
  <2> HIDE DEF q, e
  <2>4. q + 1 \in 1 .. n /\ e + 1 \in Nat
    BY <1>1, <2>2, <2>3
  <2> QED
    BY <2>4 DEF q, e, x
<1>4. r \in [1 .. w * n -> E \X Nat]
  <2>1. \A y \in 1 .. w * n : << elts[(y - 1) \div w + 1], ((y - 1) % w) + 1 >> \in E \X Nat
    BY <1>1, <1>3
  <2> QED
    BY <1>2, <2>1
<1>5. w * n \in Nat /\ w * n = n * w
  BY <1>1
<1>6. r \in Seq(E \X Nat) /\ Len(r) = n * w
  <2>1. r \in Seq(E \X Nat)
    BY <1>4, <1>5, SeqDef
  <2>2. DOMAIN r = 1 .. w * n /\ DOMAIN r = 1 .. Len(r) /\ Len(r) \in Nat
    BY <1>4, <2>1, LenProperties
  <2> QED
    BY <1>5, <2>1, <2>2
<1>7. ASSUME NEW i \in 1 .. n, NEW part \in 1 .. w
      PROVE  r[(i - 1) * w + part] = << elts[i], part >>
  <2> DEFINE p == w * (i - 1)
             x == p + (part - 1)
  <2>1. p \in Nat /\ p + w <= w * n /\ (i - 1) * w = p
    <3>1. i - 1 \in Nat /\ n - i \in Nat
      BY <1>1
    <3>2. w * (n - i) \in Nat /\ w * (n - i) = w * n - w * i /\ w * (i - 1) = w * i - w
      BY <1>1, <3>1
    <3>3. w * (i - 1) \in Nat /\ (i - 1) * w = w * (i - 1) /\ w * i \in Nat
      BY <1>1, <3>1
    <3> QED
      BY <1>1, <1>5, <3>2, <3>3
  <2>2. x \div w = i - 1 /\ x % w = part - 1
    <3>1. x \in Int /\ i - 1 \in Int /\ part - 1 \in 0 .. w - 1 /\ x = w * (i - 1) + (part - 1)
      BY <1>1, <2>1
    <3> HIDE DEF x
    <3> QED
      BY <1>1, <3>1, DivisionIsUnique
  <2>3. (i - 1) * w + part \in 1 .. w * n /\ ((i - 1) * w + part) - 1 = x
    <3> DEFINE t == w * n
               q == (i - 1) * w
    <3>1. p \in Nat /\ p + w <= t /\ q = p /\ t \in Nat /\ w \in Nat
      BY <1>1, <1>5, <2>1
    <3> HIDE DEF t, p, q
    <3>2. q + part \in 1 .. t /\ (q + part) - 1 = p + (part - 1)
      BY <3>1
    <3> QED
      BY <3>2 DEF t, q
  <2> HIDE DEF x
  <2> DEFINE y == (i - 1) * w + part
  <2>4. y \in 1 .. w * n /\ y - 1 = x
    BY <2>3
  <2> HIDE DEF y
  <2>5. r[y] = << elts[(y - 1) \div w + 1], ((y - 1) % w) + 1 >>
    BY <1>2, <2>4
  <2>6. (y - 1) \div w = i - 1 /\ (y - 1) % w = part - 1
    BY <2>2, <2>4
  <2>7. (i - 1) + 1 = i /\ (part - 1) + 1 = part
    BY <1>1
  <2>8. r[y] = << elts[i], part >>
    BY <2>5, <2>6, <2>7
  <2> QED
    BY <2>8 DEF y
<1> QED
  BY <1>6, <1>7 DEF Parts, w, n, r

(* What load_safetensors reads is what save_safetensors was given.         *)
Recovered(m) ==
  [i \in DOMAIN m |-> [layer |-> m[i].layer, part |-> m[i].part, dtype |-> m[i].dtype,
                       shape |-> m[i].shape, raw |-> Raw(m[i].dtype, m[i].elts)]]
Sizes(st, m, n) ==
  st[1] = 0 /\ \A i \in 1 .. n : st[i + 1] = st[i] + ELT(m[i].dtype) * Len(m[i].elts)

LEMMA StartsExist ==
  ASSUME NEW m, NEW n \in Nat, n = Len(m), \A i \in 1 .. n : Len(m[i].elts) \in Nat
  PROVE  \E st : /\ Sizes(st, m, n)
                 /\ save_safetensors(m) =
                      [header |-> [i \in DOMAIN m |->
                                     [layer |-> m[i].layer, part |-> m[i].part, dtype |-> m[i].dtype,
                                      shape |-> m[i].shape, from |-> st[i], to |-> st[i + 1]]],
                       blob |-> FlattenSeq([i \in DOMAIN m |-> Raw(m[i].dtype, m[i].elts)])]
<1> DEFINE sz(i) == ELT(m[i].dtype) * Len(m[i].elts)
           Body(g) == [i \in 1 .. Len(m) + 1 |-> IF i = 1 THEN 0 ELSE g[i - 1] + sz(i - 1)]
           F == [i \in 1 .. n |-> [v \in Nat |-> v + sz(i)]]
           h == CHOOSE g : g = Body(g)
<1>1. \A i \in 1 .. n : sz(i) \in Nat
  BY WidthIs
<1>2. save_safetensors(m) =
        [header |-> [i \in DOMAIN m |->
                       [layer |-> m[i].layer, part |-> m[i].part, dtype |-> m[i].dtype,
                        shape |-> m[i].shape, from |-> h[i], to |-> h[i + 1]]],
         blob |-> FlattenSeq([i \in DOMAIN m |-> Raw(m[i].dtype, m[i].elts)])]
  BY DEF save_safetensors
<1> HIDE DEF sz
<1>3. F \in [1 .. n -> [Nat -> Nat]]
  BY <1>1
<1>4. \E g : g = Body(g)
  <2>1. PICK f \in [0 .. n -> Nat] : f[0] = 0 /\ \A i \in 1 .. n : f[i] = F[i][f[i - 1]]
    <3> HIDE DEF F
    <3>1. Iterates(n, Nat, 0, F)
      BY <1>3, Iteration
    <3> QED
      BY <3>1 DEF Iterates
  <2>2. \A i \in 1 .. n : f[i] = f[i - 1] + sz(i)
    <3> SUFFICES ASSUME NEW i \in 1 .. n PROVE f[i] = f[i - 1] + sz(i)
      OBVIOUS
    <3>1. i - 1 \in 0 .. n /\ f[i - 1] \in Nat
      OBVIOUS
    <3> QED
      BY <2>1, <3>1
  <2> DEFINE g == [i \in 1 .. Len(m) + 1 |-> f[i - 1]]
  <2>3. \A i \in 1 .. Len(m) + 1 : g[i] = IF i = 1 THEN 0 ELSE g[i - 1] + sz(i - 1)
    <3>1. g[1] = 0
      BY <2>1
    <3> SUFFICES ASSUME NEW i \in 1 .. Len(m) + 1, i # 1 PROVE g[i] = g[i - 1] + sz(i - 1)
      BY <3>1
    <3>2. i - 1 \in 1 .. n /\ i - 1 \in 1 .. Len(m) + 1
      OBVIOUS
    <3> QED
      BY <2>2, <3>2
  <2>4. g = Body(g)
    BY <2>3
  <2> HIDE DEF Body, g
  <2> QED
    BY <2>4
<1>5. h = Body(h)
  <2> HIDE DEF Body
  <2> QED
    BY <1>4
<1> HIDE DEF h
<1>6. Sizes(h, m, n)
  <2>1. h[1] = 0
    BY <1>5
  <2>2. ASSUME NEW i \in 1 .. n PROVE h[i + 1] = h[i] + sz(i)
    <3>1. i + 1 \in 1 .. Len(m) + 1 /\ i + 1 # 1 /\ (i + 1) - 1 = i
      OBVIOUS
    <3> QED
      BY <1>5, <3>1
  <2> QED
    BY <2>1, <2>2 DEF Sizes, sz
<1> QED
  BY <1>2, <1>6

LEMMA FileIsRecovered ==
  ASSUME NEW m, WellFormed(m)
  PROVE  load_safetensors(save_safetensors(m)) = Recovered(m)
<1> DEFINE n == Len(m)
           E == UNION {Range(m[i].elts) : i \in DOMAIN m}
           s == [i \in DOMAIN m |-> Raw(m[i].dtype, m[i].elts)]
<1>1. n \in Nat /\ DOMAIN m = 1 .. n
  BY LenProperties DEF WellFormed
<1>2. \A i \in 1 .. n : m[i].elts \in Seq(E) /\ Len(m[i].elts) \in Nat
  <2> SUFFICES ASSUME NEW i \in 1 .. n PROVE m[i].elts \in Seq(E) /\ Len(m[i].elts) \in Nat
    OBVIOUS
  <2>1. m[i].elts \in Seq(Range(m[i].elts)) /\ Range(m[i].elts) \subseteq E
    BY <1>1 DEF WellFormed
  <2> HIDE DEF E
  <2> QED
    BY <2>1, SeqMonotonic, LenProperties
<1> HIDE DEF E, n
<1>3. PICK st : /\ Sizes(st, m, n)
                /\ save_safetensors(m) =
                      [header |-> [i \in DOMAIN m |->
                                     [layer |-> m[i].layer, part |-> m[i].part, dtype |-> m[i].dtype,
                                      shape |-> m[i].shape, from |-> st[i], to |-> st[i + 1]]],
                       blob |-> FlattenSeq(s)]
  BY <1>1, <1>2, StartsExist DEF n
<1> DEFINE B == E \X Nat
<1>4. \A i \in 1 .. n : s[i] \in Seq(B) /\ Len(s[i]) = ELT(m[i].dtype) * Len(m[i].elts)
  <2> SUFFICES ASSUME NEW i \in 1 .. n PROVE s[i] \in Seq(B) /\ Len(s[i]) = ELT(m[i].dtype) * Len(m[i].elts)
    OBVIOUS
  <2>1. s[i] = Raw(m[i].dtype, m[i].elts)
    BY <1>1
  <2> HIDE DEF s
  <2> DEFINE e == m[i].elts
             d == m[i].dtype
  <2>e. e \in Seq(E)
    BY <1>2
  <2> HIDE DEF e, d
  <2>r. Raw(d, e) \in Seq(B) /\ Parts(Raw(d, e), ELT(d), e)
    BY <2>e, RawIs
  <2>2. s[i] \in Seq(B) /\ Parts(s[i], ELT(m[i].dtype), m[i].elts)
    BY <2>1, <2>r DEF d, e
  <2>3. Len(m[i].elts) * ELT(m[i].dtype) = ELT(m[i].dtype) * Len(m[i].elts)
    BY <1>2, WidthIs
  <2> QED
    BY <2>2, <2>3 DEF Parts
<1>5. s \in [1 .. n -> Seq(B)]
  BY <1>1, <1>4
<1>6. ASSUME n # 0 PROVE Found(FlattenSeq(s), B, st, n, s)
  <2> DEFINE T == {i \in Nat : i <= n => st[i + 1] \in Nat}
  <2>1. ASSUME NEW i \in Nat, \A l \in Nat : l < i => l \in T PROVE i \in T
    <3>1. CASE i = 0
      BY <1>3, <3>1 DEF Sizes
    <3>2. CASE i # 0 /\ i <= n
      <4>1. i - 1 \in Nat /\ i - 1 < i /\ i \in 1 .. n /\ (i - 1) + 1 = i /\ i - 1 <= n
        BY <1>1, <3>2
      <4>2. st[i] \in Nat
        BY <2>1, <4>1
      <4>3. ELT(m[i].dtype) * Len(m[i].elts) \in Nat
        BY <1>2, <4>1, WidthIs
      <4>4. st[i + 1] = st[i] + ELT(m[i].dtype) * Len(m[i].elts)
        BY <1>3, <4>1 DEF Sizes
      <4> QED
        BY <4>2, <4>3, <4>4
    <3> QED
      BY <3>1, <3>2
  <2>2. T = Nat
    <3>1. T \in SUBSET Nat
      OBVIOUS
    <3> HIDE DEF T
    <3> QED
      BY <2>1, <3>1, NatSets
  <2>3. \A i \in 1 .. n : st[i] \in Nat /\ st[i + 1] \in Nat
    <3> SUFFICES ASSUME NEW i \in 1 .. n PROVE st[i] \in Nat /\ st[i + 1] \in Nat
      OBVIOUS
    <3>1. i - 1 \in Nat /\ i \in Nat /\ (i - 1) + 1 = i /\ i - 1 <= n /\ i <= n
      BY <1>1
    <3>2. i - 1 \in T /\ i \in T
      <4> HIDE DEF T
      <4> QED
        BY <2>2, <3>1
    <3> QED
      BY <3>1, <3>2
  <2> HIDE DEF s, B
  <2>4. Offsets(st, n, s)
    BY <1>3, <1>4, <2>3 DEF Offsets, Sizes
  <2> QED
    BY <1>1, <1>5, <1>6, <2>4, FlattenIs
<1> DEFINE file0 == save_safetensors(m)
<1>7. DOMAIN file0.header = DOMAIN m
  BY <1>3
<1>8. ASSUME NEW i \in DOMAIN m
      PROVE  SubSeq(file0.blob, file0.header[i].from + 1, file0.header[i].to) = Raw(m[i].dtype, m[i].elts)
  <2>1. n # 0 /\ i \in 1 .. n
    BY <1>1, <1>8
  <2>2. SubSeq(FlattenSeq(s), st[i] + 1, st[i + 1]) = s[i]
    <3> HIDE DEF s, B
    <3> QED
      BY <1>6, <2>1 DEF Found
  <2>3. file0.blob = FlattenSeq(s) /\ file0.header[i].from = st[i] /\ file0.header[i].to = st[i + 1]
    <3> HIDE DEF s
    <3> QED
      BY <1>3, <1>8
  <2>4. s[i] = Raw(m[i].dtype, m[i].elts)
    BY <1>8
  <2> HIDE DEF s, file0
  <2> QED
    BY <2>2, <2>3, <2>4
<1>9. ASSUME NEW i \in DOMAIN m
      PROVE  /\ file0.header[i].layer = m[i].layer /\ file0.header[i].part = m[i].part
             /\ file0.header[i].dtype = m[i].dtype /\ file0.header[i].shape = m[i].shape
  <2> HIDE DEF s
  <2> QED
    BY <1>3, <1>9
<1> HIDE DEF file0
<1> QED
  BY <1>7, <1>8, <1>9 DEF load_safetensors, Recovered, file0

(* Numbers regrouped from their parts, rows cut from a sequence.           *)
LEMMA RegroupedIs ==
  ASSUME NEW E, NEW elts \in Seq(E), NEW width \in Nat \ {0}, NEW raw \in Seq(E \X Nat),
         Parts(raw, width, elts)
  PROVE  Regrouped(raw, width) = elts
<1> DEFINE n == Len(elts)
<1>1. n \in Nat /\ DOMAIN elts = 1 .. n /\ Len(raw) = n * width /\ elts = [i \in 1 .. n |-> elts[i]]
  BY LenProperties DEF Parts
<1>2. Len(raw) \div width = n
  <2> DEFINE x == Len(raw)
             nil == 0
  <2>1. n * width \in Int /\ n * width = width * n + 0
    BY <1>1
  <2>2. x \in Int /\ nil \in 0 .. width - 1 /\ x = width * n + nil
    BY <1>1, <2>1
  <2> HIDE DEF x, nil, n
  <2>3. x \div width = n
    BY <1>1, <2>2, DivisionIsUnique
  <2> QED
    BY <2>3 DEF x
<1>3. ASSUME NEW i \in 1 .. n
      PROVE  LET group == SubSeq(raw, (i - 1) * width + 1, i * width)
             IN  \A part \in 1 .. width : group[part] = << elts[i], part >>
  <2> DEFINE lo == (i - 1) * width
             hi == i * width
             group == SubSeq(raw, lo + 1, hi)
  <2>1. lo \in Nat /\ hi \in Nat /\ hi = lo + width /\ hi <= Len(raw)
    <3>1. (i - 1) * width = i * width - width /\ (i - 1) * width \in Nat /\ i * width \in Nat
      <4>1. i - 1 \in Nat /\ i \in Nat
        BY <1>1
      <4> QED
        BY <4>1
    <3>2. (n - i) * width \in Nat /\ (n - i) * width = n * width - i * width
      <4>1. n - i \in Nat /\ i \in Nat
        BY <1>1
      <4> QED
        BY <4>1, <1>1
    <3> DEFINE nw == n * width
               iw == i * width
    <3>3. nw \in Int /\ iw \in Int /\ nw - iw >= 0
      BY <1>1, <3>1, <3>2
    <3> HIDE DEF nw, iw
    <3>4. iw <= nw
      BY <3>3
    <3> QED
      BY <1>1, <3>1, <3>4 DEF nw, iw
  <2>2. \A part \in 1 .. width : raw[lo + part] = << elts[i], part >>
    BY <1>1 DEF Parts
  <2> HIDE DEF lo, hi
  <2>3. \A y \in lo + 1 .. hi : raw[y] \in E \X Nat
    <3> SUFFICES ASSUME NEW y \in lo + 1 .. hi PROVE raw[y] \in E \X Nat
      OBVIOUS
    <3>1. y \in 1 .. Len(raw)
      BY <2>1, LenProperties
    <3> QED
      BY <3>1, ElementOfSeq
  <2>4. \A x \in 1 .. hi - (lo + 1) + 1 : group[x] = raw[(lo + 1) + x - 1]
    <3>1. lo + 1 \in Int /\ hi \in Int
      BY <2>1
    <3> QED
      BY <2>3, <3>1, SubSeqProperties
  <2> HIDE DEF group
  <2>5. ASSUME NEW part \in 1 .. width PROVE group[part] = << elts[i], part >>
    <3>1. part \in 1 .. hi - (lo + 1) + 1 /\ (lo + 1) + part - 1 = lo + part
      BY <2>1
    <3> QED
      BY <2>2, <2>4, <3>1
  <2> QED
    BY <2>5 DEF group, lo, hi
<1>4. ASSUME NEW i \in 1 .. n
      PROVE  LET group == SubSeq(raw, (i - 1) * width + 1, i * width)
             IN  (IF \A part \in 1 .. width : group[part] = << group[1][1], part >>
                  THEN group[1][1] ELSE Garbled) = elts[i]
  <2> DEFINE group == SubSeq(raw, (i - 1) * width + 1, i * width)
  <2>1. \A part \in 1 .. width : group[part] = << elts[i], part >>
    BY <1>3
  <2> HIDE DEF group
  <2>2. group[1][1] = elts[i]
    BY <2>1
  <2>3. (IF \A part \in 1 .. width : group[part] = << group[1][1], part >>
         THEN group[1][1] ELSE Garbled) = elts[i]
    BY <2>1, <2>2
  <2> QED
    BY <2>3 DEF group
<1>5. Regrouped(raw, width) = [i \in 1 .. n |-> elts[i]]
  BY <1>2, <1>4 DEF Regrouped
<1> QED
  BY <1>1, <1>5

LEMMA CodesAre ==
  ASSUME NEW E, NEW elts \in Seq(E), NEW raw \in Seq(E \X Nat), Parts(raw, 1, elts)
  PROVE  fp8_bytes_to_codes(raw) = elts
<1> DEFINE n == Len(elts)
<1>1. n \in Nat /\ elts = [i \in 1 .. n |-> elts[i]]
  BY LenProperties
<1>2. DOMAIN raw = 1 .. n
  <2>0. Len(raw) = n * 1
    BY DEF Parts
  <2> HIDE DEF n
  <2>1. Len(raw) = n * 1 /\ n * 1 = n
    BY <1>1, <2>0
  <2>2. DOMAIN raw = 1 .. Len(raw)
    BY LenProperties
  <2> QED
    BY <2>1, <2>2
<1>3. \A i \in 1 .. n : raw[i][1] = elts[i]
  <2> SUFFICES ASSUME NEW i \in 1 .. n PROVE raw[i][1] = elts[i]
    OBVIOUS
  <2>1. raw[(i - 1) * 1 + 1] = << elts[i], 1 >>
    BY DEF Parts
  <2>2. (i - 1) * 1 + 1 = i
    OBVIOUS
  <2> QED
    BY <2>1, <2>2
<1> QED
  BY <1>1, <1>2, <1>3 DEF fp8_bytes_to_codes

CutInRows(flat, width, n) ==
  \A r \in 0 .. n - 1, c \in 0 .. width - 1 :
    /\ r * width + c + 1 \in 1 .. Len(flat)
    /\ Rows(flat, width, n)[r + 1][c + 1] = flat[r * width + c + 1]

LEMMA RowsAre ==
  ASSUME NEW E, NEW width \in Nat \ {0}, NEW n \in Nat, NEW flat \in Seq(E), Len(flat) = n * width
  PROVE  CutInRows(flat, width, n)
<1> SUFFICES ASSUME NEW r \in 0 .. n - 1, NEW c \in 0 .. width - 1
             PROVE  /\ r * width + c + 1 \in 1 .. Len(flat)
                    /\ Rows(flat, width, n)[r + 1][c + 1] = flat[r * width + c + 1]
  BY DEF CutInRows
<1> DEFINE lo == r * width
           hi == (r + 1) * width
<1>1. lo \in Nat /\ hi \in Nat /\ hi = lo + width /\ hi <= Len(flat)
  <2>1. r \in Nat /\ n - (r + 1) \in Nat
    OBVIOUS
  <2>2. r * width \in Nat /\ (r + 1) * width = r * width + width
    BY <2>1
  <2>3. (n - (r + 1)) * width \in Nat /\ (n - (r + 1)) * width = n * width - (r + 1) * width
    BY <2>1
  <2>4. n * width \in Nat
    OBVIOUS
  <2> DEFINE nw == n * width
             iw == (r + 1) * width
  <2>5. nw \in Int /\ iw \in Int /\ nw - iw >= 0
    BY <2>2, <2>3, <2>4
  <2> HIDE DEF nw, iw
  <2>6. iw <= nw
    BY <2>5
  <2> QED
    BY <2>2, <2>6 DEF nw, iw
<1>2. Rows(flat, width, n)[r + 1] = SubSeq(flat, lo + 1, hi)
  <2>1. r + 1 \in 1 .. n /\ (r + 1) - 1 = r
    OBVIOUS
  <2> QED
    BY <2>1 DEF Rows
<1>3. Len(flat) \in Nat
  BY LenProperties
<1> HIDE DEF lo, hi
<1>4. \A y \in lo + 1 .. hi : flat[y] \in E
  <2> SUFFICES ASSUME NEW y \in lo + 1 .. hi PROVE flat[y] \in E
    OBVIOUS
  <2>1. y \in 1 .. Len(flat)
    BY <1>1, <1>3
  <2> QED
    BY <2>1, ElementOfSeq
<1>5. \A x \in 1 .. hi - (lo + 1) + 1 : SubSeq(flat, lo + 1, hi)[x] = flat[(lo + 1) + x - 1]
  <2>1. lo + 1 \in Int /\ hi \in Int
    BY <1>1
  <2> QED
    BY <1>4, <2>1, SubSeqProperties
<1>6. c + 1 \in 1 .. hi - (lo + 1) + 1 /\ (lo + 1) + (c + 1) - 1 = lo + c + 1
  BY <1>1
<1>7. lo + c + 1 \in 1 .. Len(flat)
  BY <1>1, <1>3
<1>8. SubSeq(flat, lo + 1, hi)[c + 1] = flat[lo + c + 1]
  <2> DEFINE y == c + 1
  <2>1. SubSeq(flat, lo + 1, hi)[y] = flat[(lo + 1) + y - 1]
    <3>1. y \in 1 .. hi - (lo + 1) + 1
      BY <1>6
    <3> HIDE DEF y
    <3> QED
      BY <1>5, <3>1
  <2> QED
    BY <1>6, <2>1
<1> QED
  BY <1>2, <1>7, <1>8 DEF lo

(* A quotient rounded up.                                                  *)
LEMMA CeilIs ==
  ASSUME NEW n \in Nat, NEW d \in Nat \ {0}
  PROVE  /\ Ceil(n, d) \in Nat
         /\ n # 0 => Ceil(n, d) # 0
         /\ \A c \in Nat : c < n => c \div d \in 0 .. Ceil(n, d) - 1
         /\ \A c \in Nat : c < Ceil(n, d) => c * d < n
         /\ \A c \in Nat : n <= c * d => Ceil(n, d) <= c
<1> DEFINE x == n + d - 1
           q == Ceil(n, d)
<1>1. x \in Nat /\ q = x \div d
  BY DEF Ceil
<1> HIDE DEF x, q
<1>2. q \in Nat
  BY <1>1, Division
<1>3. ASSUME NEW c \in Nat, c < n PROVE c \div d \in 0 .. q - 1
  <2> DEFINE p == c \div d
  <2>1. p \in Nat /\ d * p <= c
    <3>1. p \in Nat
      BY Division
    <3> HIDE DEF p
    <3>2. p <= c \div d => d * p <= c
      BY <3>1, Quotients
    <3> QED
      BY <3>1, <3>2 DEF p
  <2> HIDE DEF p
  <2>2. d * (p + 1) = d * p + d
    BY <2>1
  <2>3. d * (p + 1) <= x
    <3> DEFINE dp == d * p
    <3>1. dp \in Int /\ dp <= c
      BY <2>1
    <3> HIDE DEF dp
    <3>2. dp + d <= x
      BY <1>3, <3>1 DEF x
    <3> QED
      BY <2>2, <3>2 DEF dp
  <2>4. p + 1 <= q
    <3>1. p + 1 \in Nat
      BY <2>1
    <3> QED
      BY <1>1, <2>3, <3>1, Quotients
  <2>5. p \in 0 .. q - 1
    BY <1>2, <2>1, <2>4
  <2> QED
    BY <2>5 DEF p
<1>4. ASSUME NEW c \in Nat, c < q PROVE c * d < n
  <2>1. d * (c + 1) <= x
    <3>1. c + 1 \in Nat /\ c + 1 <= q
      BY <1>2, <1>4
    <3> QED
      BY <1>1, <3>1, Quotients
  <2>2. d * (c + 1) = c * d + d /\ c * d \in Nat
    OBVIOUS
  <2> DEFINE cd == c * d
  <2>3. cd + d <= x /\ cd \in Nat
    BY <2>1, <2>2
  <2> HIDE DEF cd
  <2>4. cd < n
    BY <2>3 DEF x
  <2> QED
    BY <2>4 DEF cd
<1>5. ASSUME NEW c \in Nat, n <= c * d PROVE q <= c
  <2>1. ~(c < q)
    <3>1. c * d \in Nat
      OBVIOUS
    <3> DEFINE cd == c * d
    <3>2. cd \in Nat /\ n <= cd
      BY <1>5, <3>1
    <3>3. c < q => cd < n
      BY <1>4
    <3> HIDE DEF cd
    <3> QED
      BY <3>2, <3>3
  <2> QED
    BY <1>2, <2>1
<1>6. ASSUME n # 0 PROVE q # 0
  <2>1. 0 < n /\ 0 \in Nat
    BY <1>6
  <2>2. 0 \div d \in 0 .. q - 1
    BY <1>3, <2>1
  <2> QED
    BY <1>2, <2>2
<1> QED
  BY <1>2, <1>3, <1>4, <1>5, <1>6 DEF q

(* A bf16 number fits a halfword.                                          *)
LEMMA NarrowIsBFloat ==
  ASSUME NEW x \in Float
  PROVE  fp32_to_bf16(x) \in BFloat
<1> DEFINE D == MB - BM
           v == 2^BM
           w == 2^D
           q == x.m \div w
           up == RoundUp(Bit(x.m, D - 1), Low(x.m, D - 1) # 0, q)
           sum == x.e * v + q + up
           top == sum \div v
           low == sum % v
           h == 2^(BM - 1)
<1>1. D \in Nat /\ BM \in Nat /\ BM - 1 \in Nat /\ D + BM = MB
  BY WidthAssumption
<1>2. v \in Nat \ {0} /\ w \in Nat \ {0} /\ h \in Nat /\ v = 2 * h /\ Hidden = w * v
  <2>1. (BM - 1) + 1 = BM
    BY <1>1
  <2>2. 2^(D + BM) = 2^D * 2^BM
    BY <1>1, PowerSum
  <2> HIDE DEF D
  <2>3. 2^BM = 2 * 2^(BM - 1)
    BY <1>1, <2>1, Powers
  <2> QED
    BY <1>1, <2>2, <2>3, Powers DEF Hidden
<1>3. x.e \in Nat /\ x.e <= EMAX /\ x.m \in Nat /\ x.m < Hidden /\ x.s \in {0, 1} /\ EMAX \in Nat
  BY Fields, Widths
<1>4. fp32_to_bf16(x) = IF x.e = EMAX THEN [s |-> x.s, e |-> EMAX, m |-> IF x.m = 0 THEN 0 ELSE h]
                        ELSE IF top = EMAX THEN [s |-> x.s, e |-> EMAX, m |-> 0]
                        ELSE [s |-> x.s, e |-> top, m |-> low]
  BY DEF fp32_to_bf16, Low
<1>5. up \in {0, 1}
  BY RoundUpIs
<1> HIDE DEF up, w, v, h
<1>6. q \in Nat /\ q < v
  <2> DEFINE y == x.m
  <2>1. y \in Nat /\ y < w * v
    BY <1>2, <1>3
  <2> HIDE DEF y
  <2>2. y \div w \in Nat /\ y \div w < v
    <3>1. y \div w \in Nat
      BY <1>2, <2>1, Division
    <3>2. v \in Nat
      BY <1>2
    <3>3. y < w * v => y \div w < v
      BY <1>2, <2>1, <3>2, Quotients
    <3> QED
      BY <2>1, <3>1, <3>3
  <2> QED
    BY <2>2 DEF y
<1> HIDE DEF q
<1>7. x.e # EMAX => sum \in Nat /\ sum < v * (EMAX + 1)
  <2> SUFFICES ASSUME x.e # EMAX PROVE sum \in Nat /\ sum < v * (EMAX + 1)
    OBVIOUS
  <2> DEFINE ev == x.e * v
             mv == EMAX * v
  <2>1. ev \in Nat /\ mv \in Nat /\ v * (EMAX + 1) = mv + v
    BY <1>2, <1>3
  <2>2. ev + v <= mv
    <3>1. EMAX - (x.e + 1) \in Nat
      BY <1>3
    <3>2. (EMAX - (x.e + 1)) * v \in Nat /\ (EMAX - (x.e + 1)) * v = EMAX * v - x.e * v - v
      <4>1. ASSUME NEW g \in Nat, NEW e \in Nat, g - (e + 1) \in Nat
            PROVE  (g - (e + 1)) * v \in Nat /\ (g - (e + 1)) * v = g * v - e * v - v
        BY <1>2, <4>1
      <4> QED
        BY <1>3, <3>1, <4>1
    <3>3. mv - ev - v >= 0
      BY <3>2
    <3> HIDE DEF ev, mv
    <3> QED
      BY <1>2, <2>1, <3>3
  <2> HIDE DEF ev, mv
  <2>3. ev + q + up \in Nat /\ ev + q + up < mv + v
    BY <1>2, <1>5, <1>6, <2>1, <2>2
  <2> QED
    BY <2>1, <2>3 DEF ev
<1> HIDE DEF sum
<1>8. x.e # EMAX => top \in Nat /\ top <= EMAX /\ low \in 0 .. v - 1
  <2> SUFFICES ASSUME x.e # EMAX PROVE top \in Nat /\ top <= EMAX /\ low \in 0 .. v - 1
    OBVIOUS
  <2>1. top \in Nat /\ low \in 0 .. v - 1
    BY <1>2, <1>7, Division
  <2>2. top < EMAX + 1
    <3>1. EMAX + 1 \in Nat
      BY <1>3
    <3> QED
      BY <1>2, <1>7, <3>1, Quotients
  <2> HIDE DEF top, low
  <2> QED
    BY <1>3, <2>1, <2>2
<1> HIDE DEF top, low
<1>9. h \in 0 .. v - 1 /\ 0 \in 0 .. v - 1
  <2>1. h # 0
    BY <1>2
  <2> QED
    BY <1>2, <2>1
<1>10. BFloat = [s : {0, 1}, e : 0 .. EMAX, m : 0 .. v - 1]
  BY DEF BFloat, v
<1>11. EMAX \in 0 .. EMAX /\ (x.e # EMAX => top \in 0 .. EMAX)
  BY <1>3, <1>8
<1> QED
  BY <1>3, <1>4, <1>8, <1>9, <1>10, <1>11

LEMMA HalfwordIs ==
  ASSUME NEW x \in BFloat
  PROVE  Word16(x) \in Nat /\ Word16(x) < 2^16
<1>1. 2^15 = 32768 /\ 2^7 = 128 /\ 2^16 = 65536
  BY LargePowers, NumberedPowers
<1>2. EMAX = 255 /\ 2^BM = 128
  <2>1. 2^8 = 256
    BY NumberedPowers
  <2> QED
    BY <1>1, <2>1, ScaleAssumption DEF EMAX
<1>3. /\ x.s \in Nat /\ x.s <= 1 /\ x.e \in Nat /\ x.e <= 255 /\ x.m \in Nat /\ x.m < 128
  <2>1. x.s \in {0, 1} /\ x.e \in 0 .. EMAX /\ x.m \in 0 .. 2^BM - 1
    BY BFields
  <2> QED
    BY <1>2, <2>1
<1>4. ASSUME NEW s \in Nat, s <= 1, NEW e \in Nat, e <= 255, NEW m \in Nat, m < 128
      PROVE  s * 32768 + e * 128 + m \in Nat /\ s * 32768 + e * 128 + m < 65536
  BY <1>4
<1>5. Word16(x) = x.s * 32768 + x.e * 128 + x.m
  BY <1>1 DEF Word16
<1> QED
  BY <1>1, <1>3, <1>4, <1>5

(* What the tensors numbered i and l, a weight and its scale, say.         *)
ScaleNumber(t, y) == Word16(IF t.dtype = "F32" THEN fp32_to_bf16(t.elts[y]) ELSE t.elts[y])
Pairs(m, i, l) ==
  /\ i \in DOMAIN m /\ l \in DOMAIN m
  /\ m[i].part = "weight" /\ m[l].part = "weight_scale_inv" /\ m[l].layer = m[i].layer
Says(m, i, l, w) ==
  /\ w.name = Name(m[i]) /\ w.N = m[i].shape[1] /\ w.K = m[i].shape[2]
  /\ w.N \in Nat \ {0} /\ w.K \in 1 .. KMAX
  /\ w.n_ob = Ceil(w.N, BLK) /\ w.n_kb = Ceil(w.K, BLK) /\ m[l].shape[2] = w.n_kb
  /\ \A n \in 0 .. w.N - 1, x \in 0 .. w.K - 1 :
       w.fp8[n + 1][x + 1] = m[i].elts[n * w.K + x + 1] /\ w.fp8[n + 1][x + 1] \in 0 .. 255
  /\ \A n \in 0 .. w.n_ob - 1, x \in 0 .. w.n_kb - 1 :
       /\ w.scale[n + 1][x + 1] = ScaleNumber(m[l], n * w.n_kb + x + 1)
       /\ w.scale[n + 1][x + 1] \in Nat /\ w.scale[n + 1][x + 1] < 2^16

LEMMA ScaleTensorIs ==
  ASSUME NEW dtype \in {"F32", "BF16"}, NEW E, NEW elts \in Seq(E)
  PROVE  scale_tensor_to_bf16(dtype, Raw(dtype, elts)) =
           [y \in 1 .. Len(elts) |-> Word16(IF dtype = "F32" THEN fp32_to_bf16(elts[y]) ELSE elts[y])]
<1> DEFINE r == Raw(dtype, elts)
<1>1. r \in Seq(E \X Nat) /\ Parts(r, ELT(dtype), elts)
  BY RawIs
<1>2. DOMAIN elts = 1 .. Len(elts)
  BY LenProperties
<1> HIDE DEF r
<1>3. CASE dtype = "F32"
  <2>1. ELT(dtype) = 4 /\ 4 \in Nat \ {0}
    BY <1>3 DEF ELT
  <2>2. Regrouped(r, 4) = elts
    BY <1>1, <2>1, RegroupedIs
  <2>3. f32_bytes_to_u32(r) = elts
    BY <2>2 DEF f32_bytes_to_u32
  <2> QED
    BY <1>2, <1>3, <2>3 DEF scale_tensor_to_bf16, r
<1>4. CASE dtype = "BF16"
  <2>1. ELT(dtype) = 2 /\ 2 \in Nat \ {0}
    BY <1>4 DEF ELT
  <2>2. Regrouped(r, 2) = elts
    BY <1>1, <2>1, RegroupedIs
  <2>3. bf16_bytes_to_codes(r) = elts
    BY <2>2 DEF bf16_bytes_to_codes
  <2> QED
    BY <1>2, <1>4, <2>3 DEF scale_tensor_to_bf16, r
<1> QED
  BY <1>3, <1>4

LEMMA RecoveredIs ==
  ASSUME NEW m, NEW i \in DOMAIN m
  PROVE  /\ DOMAIN Recovered(m) = DOMAIN m
         /\ Recovered(m)[i].layer = m[i].layer /\ Recovered(m)[i].part = m[i].part
         /\ Recovered(m)[i].dtype = m[i].dtype /\ Recovered(m)[i].shape = m[i].shape
         /\ Recovered(m)[i].raw = Raw(m[i].dtype, m[i].elts)
         /\ Name(Recovered(m)[i]) = Name(m[i])
  BY DEF Recovered, Name

LEMMA OneScale ==
  ASSUME NEW m, WellFormed(m), NEW i, NEW l, Pairs(m, i, l)
  PROVE  ScaleOf(Recovered(m), Recovered(m)[i]) = {Recovered(m)[l]}
<1> DEFINE ts == Recovered(m)
<1>1. DOMAIN ts = DOMAIN m /\ i \in DOMAIN m /\ l \in DOMAIN m
  BY RecoveredIs DEF Pairs
<1>2. \A x \in DOMAIN m : ts[x].layer = m[x].layer /\ ts[x].part = m[x].part
  BY RecoveredIs
<1> HIDE DEF ts
<1>3. ts[l] \in ScaleOf(ts, ts[i])
  BY <1>1, <1>2 DEF ScaleOf, Range, Pairs
<1>4. ASSUME NEW u \in ScaleOf(ts, ts[i]) PROVE u = ts[l]
  <2>1. PICK x \in DOMAIN m : u = ts[x] /\ ts[x].layer = ts[i].layer /\ ts[x].part = "weight_scale_inv"
    BY <1>1 DEF ScaleOf, Range
  <2>2. Name(m[x]) = Name(m[l])
    BY <1>1, <1>2, <2>1 DEF Name, Pairs
  <2>3. x = l
    BY <1>1, <2>2 DEF WellFormed
  <2> QED
    BY <2>1, <2>3
<1>5. ScaleOf(ts, ts[i]) = {ts[l]}
  BY <1>3, <1>4
<1> QED
  BY <1>5 DEF ts

LEMMA ShapesAre ==
  ASSUME NEW m, WellFormed(m), NEW i, NEW l, Pairs(m, i, l)
  PROVE  /\ m[i].shape[1] \in Nat \ {0} /\ m[i].shape[2] \in 1 .. KMAX
         /\ m[i].dtype = "F8_E4M3" /\ Len(m[i].elts) = m[i].shape[1] * m[i].shape[2]
         /\ m[i].elts \in Seq(0 .. 255)
         /\ m[l].shape[1] = Ceil(m[i].shape[1], BLK) /\ m[l].shape[2] = Ceil(m[i].shape[2], BLK)
         /\ m[l].elts \in Seq(Range(m[l].elts)) /\ Len(m[l].elts) = m[l].shape[1] * m[l].shape[2]
         /\ m[l].dtype \in {"F32", "BF16"}
         /\ \A y \in 1 .. Len(m[l].elts) : ScaleNumber(m[l], y) \in Nat /\ ScaleNumber(m[l], y) < 2^16
<1> DEFINE n == m[i].shape[1]
           w == m[i].shape[2]
<1>1. i \in DOMAIN m /\ l \in DOMAIN m
  BY DEF Pairs
<1>2. m[i].elts \in Seq(Range(m[i].elts)) /\ m[l].elts \in Seq(Range(m[l].elts))
  BY <1>1 DEF WellFormed
<1>3. /\ n \in Nat \ {0} /\ w \in 1 .. KMAX
      /\ m[i].dtype = "F8_E4M3" /\ Len(m[i].elts) = n * w /\ Range(m[i].elts) \subseteq 0 .. 255
      /\ m[l].shape = << Ceil(n, BLK), Ceil(w, BLK) >>
      /\ Len(m[l].elts) = Ceil(n, BLK) * Ceil(w, BLK)
      /\ \/ m[l].dtype = "F32" /\ Range(m[l].elts) \subseteq Float
         \/ m[l].dtype = "BF16" /\ Range(m[l].elts) \subseteq BFloat
  BY <1>1 DEF WellFormed, Pairs
<1>4. m[i].elts \in Seq(0 .. 255)
  BY <1>2, <1>3, SeqMonotonic
<1>5. ASSUME NEW y \in 1 .. Len(m[l].elts) PROVE ScaleNumber(m[l], y) \in Nat /\ ScaleNumber(m[l], y) < 2^16
  <2> DEFINE x == m[l].elts[y]
  <2>1. x \in Range(m[l].elts)
    BY <1>2, ElementOfSeq
  <2>2. CASE m[l].dtype = "F32" /\ Range(m[l].elts) \subseteq Float
    <3>1. x \in Float
      BY <2>1, <2>2
    <3>2. fp32_to_bf16(x) \in BFloat
      <4> HIDE DEF x
      <4> QED
        BY <3>1, NarrowIsBFloat
    <3>3. ScaleNumber(m[l], y) = Word16(fp32_to_bf16(x))
      BY <2>2 DEF ScaleNumber
    <3> HIDE DEF x
    <3> QED
      BY <3>2, <3>3, HalfwordIs
  <2>3. CASE m[l].dtype = "BF16" /\ Range(m[l].elts) \subseteq BFloat
    <3>1. x \in BFloat
      BY <2>1, <2>3
    <3>3. ScaleNumber(m[l], y) = Word16(x)
      BY <2>3 DEF ScaleNumber
    <3> HIDE DEF x
    <3> QED
      BY <3>1, <3>3, HalfwordIs
  <2> QED
    BY <1>3, <2>2, <2>3
<1>6. m[l].shape[1] = Ceil(n, BLK) /\ m[l].shape[2] = Ceil(w, BLK)
  BY <1>3
<1>7. m[l].dtype \in {"F32", "BF16"}
  BY <1>3
<1> QED
  BY <1>2, <1>3, <1>4, <1>5, <1>6, <1>7

LEMMA ClassifiedIs ==
  ASSUME NEW m, WellFormed(m), NEW i, NEW l, Pairs(m, i, l)
  PROVE  Says(m, i, l, Classified(Recovered(m), Recovered(m)[i]))
<1> DEFINE ts == Recovered(m)
           w == Classified(ts, ts[i])
           N == m[i].shape[1]
           K == m[i].shape[2]
           nb == Ceil(N, BLK)
           kb == Ceil(K, BLK)
           codes == m[i].elts
           flat == scale_tensor_to_bf16(m[l].dtype, Raw(m[l].dtype, m[l].elts))
<1>1. i \in DOMAIN m /\ l \in DOMAIN m
  BY DEF Pairs
<1>2. /\ ts[i].raw = Raw(m[i].dtype, codes) /\ ts[i].shape = m[i].shape /\ Name(ts[i]) = Name(m[i])
      /\ ts[l].raw = Raw(m[l].dtype, m[l].elts) /\ ts[l].shape = m[l].shape /\ ts[l].dtype = m[l].dtype
  BY <1>1, RecoveredIs
<1>3. ScaleOf(ts, ts[i]) = {ts[l]}
  BY OneScale
<1> HIDE DEF ts
<1>4. (CHOOSE u \in ScaleOf(ts, ts[i]) : TRUE) = ts[l]
  BY <1>3
<1>5. /\ N \in Nat \ {0} /\ K \in 1 .. KMAX /\ K \in Nat \ {0}
      /\ m[i].dtype = "F8_E4M3" /\ Len(codes) = N * K /\ codes \in Seq(0 .. 255)
      /\ m[l].shape[1] = nb /\ m[l].shape[2] = kb
      /\ m[l].elts \in Seq(Range(m[l].elts)) /\ Len(m[l].elts) = nb * kb /\ m[l].dtype \in {"F32", "BF16"}
      /\ \A y \in 1 .. Len(m[l].elts) : ScaleNumber(m[l], y) \in Nat /\ ScaleNumber(m[l], y) < 2^16
  BY ShapesAre, LayoutAssumption
<1>6. BLK \in Nat \ {0} /\ nb \in Nat \ {0} /\ kb \in Nat \ {0}
  BY <1>5, CeilIs, LayoutAssumption
<1>7. fp8_bytes_to_codes(Raw(m[i].dtype, codes)) = codes
  <2> DEFINE r == Raw(m[i].dtype, codes)
             d == m[i].dtype
             E == 0 .. 255
  <2>1. ELT(d) = 1
    BY <1>5 DEF ELT
  <2>2. codes \in Seq(E)
    BY <1>5
  <2> HIDE DEF codes, E
  <2>3. r \in Seq(E \X Nat) /\ Parts(r, ELT(d), codes)
    <3> HIDE DEF d
    <3>1. Raw(d, codes) \in Seq(E \X Nat) /\ Parts(Raw(d, codes), ELT(d), codes)
      BY <2>2, RawIs
    <3> QED
      BY <3>1 DEF d
  <2> HIDE DEF d
  <2> HIDE DEF r
  <2>4. Parts(r, 1, codes)
    BY <2>1, <2>3
  <2>5. fp8_bytes_to_codes(r) = codes
    BY <2>2, <2>3, <2>4, CodesAre DEF E
  <2> QED
    BY <2>5 DEF r
<1>8. flat = [y \in 1 .. nb * kb |-> ScaleNumber(m[l], y)]
  <2> DEFINE e == m[l].elts
             d == m[l].dtype
  <2>1. d \in {"F32", "BF16"} /\ e \in Seq(Range(e)) /\ Len(e) = nb * kb
    BY <1>5
  <2>2. \A y : ScaleNumber(m[l], y) = Word16(IF d = "F32" THEN fp32_to_bf16(e[y]) ELSE e[y])
    BY DEF ScaleNumber
  <2> HIDE DEF e, d
  <2>3. scale_tensor_to_bf16(d, Raw(d, e)) =
          [y \in 1 .. Len(e) |-> Word16(IF d = "F32" THEN fp32_to_bf16(e[y]) ELSE e[y])]
    BY <2>1, ScaleTensorIs
  <2>4. scale_tensor_to_bf16(d, Raw(d, e)) = [y \in 1 .. nb * kb |-> ScaleNumber(m[l], y)]
    BY <2>1, <2>2, <2>3
  <2> QED
    BY <2>4 DEF d, e
<1>9. w = [name |-> Name(m[i]), N |-> N, K |-> K, n_ob |-> nb, n_kb |-> kb,
           fp8 |-> Rows(codes, K, N), scale |-> Rows(flat, kb, nb)]
  <2> HIDE DEF codes, flat, nb, kb
  <2> QED
    BY <1>2, <1>4, <1>5, <1>7 DEF Classified, flat
<1> HIDE DEF codes, flat, nb, kb, N, K, w
<1>10. ASSUME NEW n \in 0 .. N - 1, NEW x \in 0 .. K - 1
       PROVE  /\ Rows(codes, K, N)[n + 1][x + 1] = codes[n * K + x + 1]
              /\ codes[n * K + x + 1] \in 0 .. 255
  <2>0. N \in Nat /\ K \in Nat \ {0} /\ codes \in Seq(0 .. 255) /\ Len(codes) = N * K
    BY <1>5
  <2>a. \A r \in 0 .. N - 1, c \in 0 .. K - 1 :
          /\ r * K + c + 1 \in 1 .. Len(codes)
          /\ Rows(codes, K, N)[r + 1][c + 1] = codes[r * K + c + 1]
    <3>1. CutInRows(codes, K, N)
      BY <2>0, RowsAre
    <3> QED
      BY <3>1 DEF CutInRows
  <2>1. /\ n * K + x + 1 \in 1 .. Len(codes)
        /\ Rows(codes, K, N)[n + 1][x + 1] = codes[n * K + x + 1]
    BY <2>a
  <2>2. codes[n * K + x + 1] \in 0 .. 255
    BY <1>5, <2>1, ElementOfSeq
  <2> QED
    BY <2>1, <2>2
<1>11. flat \in Seq(Nat) /\ Len(flat) = nb * kb
  <2>1. nb * kb \in Nat
    BY <1>6
  <2> DEFINE z == nb * kb
  <2>2. z \in Nat /\ flat = [y \in 1 .. z |-> ScaleNumber(m[l], y)]
    BY <1>8, <2>1
  <2>3. \A y \in 1 .. z : ScaleNumber(m[l], y) \in Nat
    BY <1>5
  <2> HIDE DEF z
  <2>4. flat \in [1 .. z -> Nat]
    BY <2>2, <2>3
  <2>5. flat \in Seq(Nat)
    BY <2>2, <2>4, SeqDef
  <2>6. DOMAIN flat = 1 .. z /\ DOMAIN flat = 1 .. Len(flat) /\ Len(flat) \in Nat
    BY <2>4, <2>5, LenProperties
  <2>7. Len(flat) = z
    BY <2>2, <2>6
  <2> QED
    BY <2>5, <2>7 DEF z
<1>12. ASSUME NEW n \in 0 .. nb - 1, NEW x \in 0 .. kb - 1
       PROVE  /\ Rows(flat, kb, nb)[n + 1][x + 1] = ScaleNumber(m[l], n * kb + x + 1)
              /\ ScaleNumber(m[l], n * kb + x + 1) \in Nat /\ ScaleNumber(m[l], n * kb + x + 1) < 2^16
  <2> DEFINE y == n * kb + x + 1
  <2>1. /\ y \in 1 .. Len(flat)
        /\ Rows(flat, kb, nb)[n + 1][x + 1] = flat[y]
    <3>1. nb \in Nat /\ kb \in Nat \ {0}
      BY <1>6
    <3>2. \A r \in 0 .. nb - 1, c \in 0 .. kb - 1 :
          /\ r * kb + c + 1 \in 1 .. Len(flat)
          /\ Rows(flat, kb, nb)[r + 1][c + 1] = flat[r * kb + c + 1]
      <4>1. CutInRows(flat, kb, nb)
        BY <1>11, <3>1, RowsAre
      <4> QED
        BY <4>1 DEF CutInRows
    <3> QED
      BY <3>2
  <2> HIDE DEF y
  <2>2. y \in 1 .. nb * kb /\ y \in 1 .. Len(m[l].elts)
    BY <1>5, <1>11, <2>1
  <2>3. flat[y] = ScaleNumber(m[l], y)
    BY <1>8, <2>2
  <2>4. ScaleNumber(m[l], y) \in Nat /\ ScaleNumber(m[l], y) < 2^16
    BY <1>5, <2>2
  <2> QED
    BY <2>1, <2>3, <2>4 DEF y
<1>13. /\ w.name = Name(m[i]) /\ w.N = N /\ w.K = K /\ w.n_ob = nb /\ w.n_kb = kb
       /\ w.fp8 = Rows(codes, K, N) /\ w.scale = Rows(flat, kb, nb)
  BY <1>9
<1>14. Says(m, i, l, w)
  <2>1. w.name = Name(m[i]) /\ w.N = m[i].shape[1] /\ w.K = m[i].shape[2]
    BY <1>13 DEF N, K
  <2>2. w.N \in Nat \ {0} /\ w.K \in 1 .. KMAX
    BY <1>5, <1>13
  <2>3. w.n_ob = Ceil(w.N, BLK) /\ w.n_kb = Ceil(w.K, BLK) /\ m[l].shape[2] = w.n_kb
    BY <1>5, <1>13 DEF nb, kb
  <2>4. \A n \in 0 .. w.N - 1, x \in 0 .. w.K - 1 :
          w.fp8[n + 1][x + 1] = codes[n * w.K + x + 1] /\ w.fp8[n + 1][x + 1] \in 0 .. 255
    BY <1>10, <1>13
  <2>5. \A n \in 0 .. w.n_ob - 1, x \in 0 .. w.n_kb - 1 :
          /\ w.scale[n + 1][x + 1] = ScaleNumber(m[l], n * w.n_kb + x + 1)
          /\ w.scale[n + 1][x + 1] \in Nat /\ w.scale[n + 1][x + 1] < 2^16
    BY <1>12, <1>13
  <2> QED
    BY <2>1, <2>2, <2>3, <2>4, <2>5 DEF Says, codes
<1> QED
  BY <1>14 DEF w, ts

(* The weights are read in file order, each once.                          *)
IsWeightAt(m, i) ==
  /\ m[i].part = "weight"
  /\ \E l \in DOMAIN m : m[l].layer = m[i].layer /\ m[l].part = "weight_scale_inv"
WeightNamed(m, i) == Classified(Recovered(m), Recovered(m)[i])

ReadUpTo(m, n, ws) ==
  /\ ws \in Seq(Range(ws))
  /\ \A c \in 1 .. Len(ws) : \E i \in 1 .. n : IsWeightAt(m, i) /\ ws[c] = WeightNamed(m, i)
  /\ \A i \in 1 .. n : IsWeightAt(m, i) => \E c \in 1 .. Len(ws) : ws[c] = WeightNamed(m, i)
  /\ \A c, e \in 1 .. Len(ws) : ws[c].name = ws[e].name => c = e

LEMMA WeightAt ==
  ASSUME NEW m, WellFormed(m), NEW i \in DOMAIN m
  PROVE  /\ IsWeight(Recovered(m), Recovered(m)[i]) <=> IsWeightAt(m, i)
         /\ WeightNamed(m, i).name = Name(m[i])
<1> DEFINE ts == Recovered(m)
<1>1. DOMAIN ts = DOMAIN m
  BY RecoveredIs
<1>2. \A x \in DOMAIN m : ts[x].layer = m[x].layer /\ ts[x].part = m[x].part /\ Name(ts[x]) = Name(m[x])
  BY RecoveredIs
<1> HIDE DEF ts
<1>3. ScaleOf(ts, ts[i]) # {} <=> \E l \in DOMAIN m : m[l].layer = m[i].layer /\ m[l].part = "weight_scale_inv"
  BY <1>1, <1>2 DEF ScaleOf, Range
<1>4. IsWeight(ts, ts[i]) <=> IsWeightAt(m, i)
  BY <1>2, <1>3 DEF IsWeight, IsWeightAt
<1>5. Classified(ts, ts[i]).name = Name(m[i])
  BY <1>2 DEF Classified
<1> QED
  BY <1>4, <1>5 DEF ts, WeightNamed

LEMMA ReadOneMore ==
  ASSUME NEW m, WellFormed(m), NEW n \in Nat, n + 1 \in DOMAIN m, NEW ws, ReadUpTo(m, n, ws)
  PROVE  /\ ~IsWeightAt(m, n + 1) => ReadUpTo(m, n + 1, ws)
         /\ IsWeightAt(m, n + 1) => ReadUpTo(m, n + 1, Append(ws, WeightNamed(m, n + 1)))
<1> DEFINE z == n + 1
           w == WeightNamed(m, z)
           L == Len(ws)
<1>1. /\ \A i \in 1 .. z : i \in 1 .. n \/ i = z
      /\ \A i \in 1 .. n : i \in 1 .. z /\ i # z
      /\ z \in 1 .. z
  OBVIOUS
<1>2. /\ ws \in Seq(Range(ws)) /\ L \in Nat
      /\ \A c \in 1 .. L : \E i \in 1 .. n : IsWeightAt(m, i) /\ ws[c] = WeightNamed(m, i)
      /\ \A i \in 1 .. n : IsWeightAt(m, i) => \E c \in 1 .. L : ws[c] = WeightNamed(m, i)
      /\ \A c, e \in 1 .. L : ws[c].name = ws[e].name => c = e
  <2>1. ws \in Seq(Range(ws))
    BY DEF ReadUpTo
  <2> QED
    BY <2>1, LenProperties DEF ReadUpTo
<1>3. DOMAIN m = 1 .. Len(m) /\ Len(m) \in Nat
  BY LenProperties DEF WellFormed
<1>4. \A i \in 1 .. z : i \in DOMAIN m
  BY <1>3
<1>5. \A i \in 1 .. z : WeightNamed(m, i).name = Name(m[i])
  BY <1>4, WeightAt
<1>6. \A i \in 1 .. n : WeightNamed(m, i).name # w.name
  <2> SUFFICES ASSUME NEW i \in 1 .. n, WeightNamed(m, i).name = w.name PROVE FALSE
    OBVIOUS
  <2>1. Name(m[i]) = Name(m[z])
    BY <1>1, <1>5
  <2>2. i = z
    BY <1>1, <1>4, <2>1 DEF WellFormed
  <2> QED
    BY <1>1, <2>2
<1> HIDE DEF z, w
<1>7. ASSUME ~IsWeightAt(m, z) PROVE ReadUpTo(m, z, ws)
  BY <1>1, <1>2, <1>7 DEF ReadUpTo
<1>8. ASSUME IsWeightAt(m, z) PROVE ReadUpTo(m, z, Append(ws, w))
  <2> DEFINE vs == Append(ws, w)
             B == Range(ws) \cup {w}
  <2>1. ws \in Seq(B) /\ w \in B
    BY <1>2, SeqMonotonic
  <2> HIDE DEF B
  <2>2. /\ vs \in Seq(B) /\ Len(vs) = L + 1
        /\ \A c \in 1 .. L : vs[c] = ws[c]
        /\ vs[L + 1] = w
    BY <2>1, AppendProperties
  <2> HIDE DEF vs, L
  <2>3. vs \in Seq(Range(vs))
    BY <2>2, SeqOfRange
  <2>4. \A c \in 1 .. Len(vs) : c \in 1 .. L \/ c = L + 1
    BY <1>2, <2>2
  <2>5. \A c \in 1 .. L : c \in 1 .. Len(vs)
    BY <1>2, <2>2
  <2>6. L + 1 \in 1 .. Len(vs)
    BY <1>2, <2>2
  <2>7. ASSUME NEW c \in 1 .. Len(vs) PROVE \E i \in 1 .. z : IsWeightAt(m, i) /\ vs[c] = WeightNamed(m, i)
    <3>1. CASE c = L + 1
      BY <1>1, <1>8, <2>2, <3>1 DEF w
    <3>2. CASE c \in 1 .. L
      BY <1>1, <1>2, <2>2, <3>2
    <3> QED
      BY <2>4, <3>1, <3>2
  <2>8. ASSUME NEW i \in 1 .. z, IsWeightAt(m, i) PROVE \E c \in 1 .. Len(vs) : vs[c] = WeightNamed(m, i)
    <3>1. CASE i = z
      BY <2>2, <2>6, <3>1 DEF w
    <3>2. CASE i \in 1 .. n
      BY <1>2, <2>2, <2>5, <2>8, <3>2
    <3> QED
      BY <1>1, <3>1, <3>2
  <2>9. \A c \in 1 .. L : vs[c].name # w.name
    <3> SUFFICES ASSUME NEW c \in 1 .. L PROVE vs[c].name # w.name
      OBVIOUS
    <3>1. PICK i \in 1 .. n : ws[c] = WeightNamed(m, i)
      BY <1>2
    <3>2. vs[c].name = WeightNamed(m, i).name
      BY <2>2, <3>1
    <3> QED
      BY <1>6, <3>2
  <2>10. ASSUME NEW c \in 1 .. Len(vs), NEW e \in 1 .. Len(vs), vs[c].name = vs[e].name PROVE c = e
    <3>1. CASE c \in 1 .. L /\ e \in 1 .. L
      BY <1>2, <2>2, <2>10, <3>1
    <3>2. CASE c = L + 1 /\ e \in 1 .. L
      BY <2>2, <2>9, <2>10, <3>2
    <3>3. CASE c \in 1 .. L /\ e = L + 1
      BY <2>2, <2>9, <2>10, <3>3
    <3> QED
      BY <2>4, <3>1, <3>2, <3>3
  <2>11. ReadUpTo(m, z, vs)
    BY <2>3, <2>7, <2>8, <2>10 DEF ReadUpTo
  <2> QED
    BY <2>11 DEF vs
<1> QED
  BY <1>7, <1>8 DEF z, w

(* What load_checkpoint returns of what save_safetensors wrote.            *)
LoadedFrom(m, ws) == ReadUpTo(m, Len(m), ws)

LEMMA LoadIs ==
  ASSUME NEW m, WellFormed(m)
  PROVE  LoadedFrom(m, load_checkpoint(Recovered(m)).weights)
<1> DEFINE ts == Recovered(m)
           n == Len(m)
           nil == [weights |-> << >>, tail |-> << >>]
           W == {Classified(ts, ts[i]) : i \in 1 .. n}
           T == {ts[i] : i \in 1 .. n}
           D == [weights : Seq(W), tail : Seq(T)]
           next(prev, i) == IF ts[i].part = "weight_scale_inv" THEN prev
                            ELSE IF IsWeight(ts, ts[i])
                            THEN [prev EXCEPT !.weights = Append(@, Classified(ts, ts[i]))]
                            ELSE [prev EXCEPT !.tail = Append(@, ts[i])]
           Body(g) == [i \in 0 .. Len(ts) |-> IF i = 0 THEN nil ELSE next(g[i - 1], i)]
           F == [i \in 1 .. n |-> [v \in D |-> next(v, i)]]
           h == CHOOSE g : g = Body(g)
<1>1. n \in Nat /\ DOMAIN m = 1 .. n
  BY LenProperties DEF WellFormed
<1>2. DOMAIN ts = 1 .. n
  BY <1>1, RecoveredIs DEF Recovered
<1>3. Len(ts) = n
  BY <1>1, <1>2
<1>4. load_checkpoint(ts) = h[Len(ts)]
  BY DEF load_checkpoint
<1>5. \A i \in 1 .. n : \A v \in D : next(v, i) \in D
  <2> SUFFICES ASSUME NEW i \in 1 .. n, NEW v \in D PROVE next(v, i) \in D
    OBVIOUS
  <2>1. Classified(ts, ts[i]) \in W /\ ts[i] \in T
    OBVIOUS
  <2>2. v.weights \in Seq(W) /\ v.tail \in Seq(T)
    OBVIOUS
  <2> HIDE DEF W, T, ts
  <2>3. Append(v.weights, Classified(ts, ts[i])) \in Seq(W) /\ Append(v.tail, ts[i]) \in Seq(T)
    BY <2>1, <2>2, AppendProperties
  <2>4. CASE ts[i].part = "weight_scale_inv"
    BY <2>4
  <2>5. CASE ts[i].part # "weight_scale_inv" /\ IsWeight(ts, ts[i])
    <3>1. next(v, i) = [v EXCEPT !.weights = Append(@, Classified(ts, ts[i]))]
      BY <2>5
    <3> HIDE DEF next
    <3> QED
      BY <2>3, <3>1
  <2>6. CASE ts[i].part # "weight_scale_inv" /\ ~IsWeight(ts, ts[i])
    <3>1. next(v, i) = [v EXCEPT !.tail = Append(@, ts[i])]
      BY <2>6
    <3> HIDE DEF next
    <3> QED
      BY <2>3, <3>1
  <2> QED
    BY <2>4, <2>5, <2>6
<1>6. nil \in D
  BY EmptySeq
<1> HIDE DEF ts, n, next, D, nil
<1>7. F \in [1 .. n -> [D -> D]]
  BY <1>5
<1>8. \E g : g = Body(g)
  <2>1. PICK f \in [0 .. n -> D] : f[0] = nil /\ \A i \in 1 .. n : f[i] = F[i][f[i - 1]]
    <3> HIDE DEF F
    <3>1. Iterates(n, D, nil, F)
      BY <1>1, <1>6, <1>7, Iteration
    <3> QED
      BY <3>1 DEF Iterates
  <2>2. \A i \in 1 .. n : f[i] = next(f[i - 1], i)
    <3> SUFFICES ASSUME NEW i \in 1 .. n PROVE f[i] = next(f[i - 1], i)
      OBVIOUS
    <3>1. i - 1 \in 0 .. n /\ f[i - 1] \in D
      BY <1>1
    <3> QED
      BY <2>1, <3>1
  <2> HIDE DEF F
  <2>3. \A i \in 0 .. n : f[i] = IF i = 0 THEN nil ELSE next(f[i - 1], i)
    BY <1>1, <2>1, <2>2
  <2>4. f = Body(f)
    BY <1>3, <2>3
  <2> HIDE DEF Body
  <2> QED
    BY <2>4
<1>9. h = Body(h)
  <2> HIDE DEF Body
  <2> QED
    BY <1>8
<1> HIDE DEF h, F
<1>10. h[0] = nil /\ \A i \in 1 .. n : h[i] = next(h[i - 1], i)
  BY <1>1, <1>3, <1>9
<1> DEFINE Good(i) == h[i] \in D /\ ReadUpTo(m, i, h[i].weights)
           S == {i \in Nat : i <= n => Good(i)}
<1>11. ASSUME NEW i \in Nat, \A l \in Nat : l < i => l \in S PROVE i \in S
  <2> SUFFICES ASSUME i <= n PROVE Good(i)
    OBVIOUS
  <2>1. CASE i = 0
    <3>1. h[0] \in D /\ h[0].weights = << >>
      BY <1>6, <1>10 DEF nil
    <3>2. 1 .. 0 = {} /\ 1 .. Len(<< >>) = {} /\ << >> \in Seq(Range(<< >>))
      BY EmptySeq
    <3>3. ReadUpTo(m, 0, << >>)
      BY <3>2 DEF ReadUpTo
    <3> QED
      BY <2>1, <3>1, <3>3
  <2>2. CASE i # 0
    <3>1. i - 1 \in Nat /\ i - 1 < i /\ i - 1 <= n /\ i \in 1 .. n /\ (i - 1) + 1 = i
      BY <1>1, <2>2
    <3>2. Good(i - 1)
      <4> HIDE DEF Good
      <4> QED
        BY <1>11, <3>1
    <3> DEFINE v == h[i - 1]
    <3>3. v \in D /\ ReadUpTo(m, i - 1, v.weights) /\ h[i] = next(v, i)
      BY <1>10, <3>1, <3>2
    <3> HIDE DEF v
    <3>4. h[i] \in D
      BY <1>5, <3>1, <3>3
    <3>5. IsWeight(ts, ts[i]) <=> IsWeightAt(m, i)
      BY <1>1, <3>1, WeightAt DEF ts
    <3>6. ts[i].part = m[i].part
      BY <1>1, <3>1, RecoveredIs DEF ts
    <3>7. /\ ~IsWeightAt(m, i) => ReadUpTo(m, i, v.weights)
          /\ IsWeightAt(m, i) => ReadUpTo(m, i, Append(v.weights, WeightNamed(m, i)))
      <4> DEFINE y == i - 1
      <4>1. y \in Nat /\ y + 1 = i /\ y + 1 \in DOMAIN m /\ ReadUpTo(m, y, v.weights)
        BY <1>1, <3>1, <3>3
      <4> HIDE DEF y
      <4>2. /\ ~IsWeightAt(m, y + 1) => ReadUpTo(m, y + 1, v.weights)
            /\ IsWeightAt(m, y + 1) => ReadUpTo(m, y + 1, Append(v.weights, WeightNamed(m, y + 1)))
        BY <4>1, ReadOneMore
      <4> QED
        BY <4>1, <4>2
    <3>8. CASE m[i].part = "weight_scale_inv"
      <4>1. h[i] = v /\ ~IsWeightAt(m, i)
        BY <3>3, <3>6, <3>8 DEF next, IsWeightAt
      <4> QED
        BY <3>4, <3>7, <4>1
    <3>9. CASE m[i].part # "weight_scale_inv" /\ IsWeightAt(m, i)
      <4>1. h[i] = [v EXCEPT !.weights = Append(@, Classified(ts, ts[i]))]
        BY <3>3, <3>5, <3>6, <3>9 DEF next
      <4>2. h[i].weights = Append(v.weights, WeightNamed(m, i))
        BY <3>3, <4>1 DEF WeightNamed, ts, D
      <4> QED
        BY <3>4, <3>7, <3>9, <4>2
    <3>10. CASE m[i].part # "weight_scale_inv" /\ ~IsWeightAt(m, i)
      <4>1. h[i] = [v EXCEPT !.tail = Append(@, ts[i])]
        BY <3>3, <3>5, <3>6, <3>10 DEF next
      <4>2. h[i].weights = v.weights
        BY <3>3, <4>1 DEF D
      <4> QED
        BY <3>4, <3>7, <3>10, <4>2
    <3> QED
      BY <3>8, <3>9, <3>10
  <2> QED
    BY <2>1, <2>2
<1>12. S = Nat
  <2>1. S \in SUBSET Nat
    OBVIOUS
  <2> HIDE DEF S
  <2> QED
    BY <1>11, <2>1, NatSets
<1>13. Good(n)
  <2> HIDE DEF Good
  <2> QED
    BY <1>1, <1>12
<1>14. ReadUpTo(m, n, load_checkpoint(ts).weights)
  BY <1>3, <1>4, <1>13
<1> QED
  BY <1>14 DEF LoadedFrom, ts, n

LEMMA LoadedSays ==
  ASSUME NEW m, WellFormed(m), NEW ws, LoadedFrom(m, ws)
  PROVE  /\ ws \in Seq(Range(ws)) /\ Len(ws) \in Nat
         /\ \A c \in 1 .. Len(ws) : \E i, l : Pairs(m, i, l) /\ Says(m, i, l, ws[c])
<1>1. DOMAIN m = 1 .. Len(m)
  BY LenProperties DEF WellFormed
<1>2. ws \in Seq(Range(ws)) /\ Len(ws) \in Nat
  <2>1. ws \in Seq(Range(ws))
    BY DEF LoadedFrom, ReadUpTo
  <2> QED
    BY <2>1, LenProperties
<1>3. ASSUME NEW c \in 1 .. Len(ws) PROVE \E i, l : Pairs(m, i, l) /\ Says(m, i, l, ws[c])
  <2>1. PICK i \in 1 .. Len(m) : IsWeightAt(m, i) /\ ws[c] = WeightNamed(m, i)
    BY DEF LoadedFrom, ReadUpTo
  <2>2. PICK l \in DOMAIN m : m[l].layer = m[i].layer /\ m[l].part = "weight_scale_inv"
    BY <2>1 DEF IsWeightAt
  <2>3. Pairs(m, i, l)
    BY <1>1, <2>1, <2>2 DEF Pairs, IsWeightAt
  <2>4. Says(m, i, l, WeightNamed(m, i))
    BY <2>3, ClassifiedIs DEF WeightNamed
  <2> QED
    BY <2>1, <2>3, <2>4
<1> QED
  BY <1>2, <1>3

(* The codes of a row, each in its lane.                                   *)
Topped(v, y, s, d) ==
  /\ v \in Nat /\ v < 2^(8 * (y + 1))
  /\ Lane(v, y) = d
  /\ \A x \in 0 .. y - 1 : Lane(v, x) = Lane(s, x)
LEMMA LaneOnTop ==
  ASSUME NEW y \in Nat, NEW s \in Nat, s < 2^(8 * y), NEW d \in 0 .. 255
  PROVE  Topped(d * 2^(8 * y) + s, y, s, d)
<1> DEFINE P == 2^(8 * y)
           v == d * P + s
<1>1. P \in Nat \ {0} /\ 2^(8 * (y + 1)) = P * 256
  <2>1. 8 * y \in Nat /\ 8 * (y + 1) = 8 * y + 8 /\ 8 \in Nat
    OBVIOUS
  <2>2. 2^(8 * y + 8) = 2^(8 * y) * 2^8
    BY <2>1, PowerSum
  <2> QED
    BY <2>1, <2>2, Powers, NumberedPowers
<1>2. s < P
  OBVIOUS
<1> HIDE DEF P
<1>3. v \in Nat /\ v = P * d + s /\ v < P * 256
  <2>1. d * P \in Nat /\ d * P = P * d
    BY <1>1
  <2>2. d * P + P <= 256 * P
    <3>1. (255 - d) * P \in Nat /\ (255 - d) * P = 255 * P - d * P
      BY <1>1
    <3> DEFINE dp == d * P
    <3>2. dp \in Int /\ 255 * P - dp >= 0
      BY <2>1, <3>1
    <3> HIDE DEF dp
    <3>3. dp + P <= 256 * P
      BY <1>1, <3>2
    <3> QED
      BY <3>3 DEF dp
  <2> DEFINE dp == d * P
  <2>3. dp \in Nat /\ dp = P * d /\ dp + P <= 256 * P
    BY <2>1, <2>2
  <2> HIDE DEF dp
  <2>4. dp + s \in Nat /\ dp + s < 256 * P /\ 256 * P = P * 256
    BY <1>1, <1>2, <2>3
  <2> QED
    BY <2>3, <2>4 DEF dp
<1> HIDE DEF v
<1>4. Lane(v, y) = d
  <2>1. v \div P = d
    <3>1. v \in Int /\ d \in Int /\ s \in 0 .. P - 1
      BY <1>1, <1>2, <1>3
    <3> QED
      BY <1>1, <1>3, <3>1, DivisionIsUnique
  <2>2. d % 256 = d
    OBVIOUS
  <2> QED
    BY <2>1, <2>2 DEF Lane, P
<1>5. ASSUME NEW x \in 0 .. y - 1 PROVE Lane(v, x) = Lane(s, x)
  <2> DEFINE Q == 2^(8 * x)
             R == 2^(8 * (y - x - 1))
             t == s \div Q
             e == s % Q
             u == R * d
             f == t \div 256
             g == t % 256
  <2>1. Q \in Nat \ {0} /\ R \in Nat \ {0} /\ P = Q * (256 * R)
    <3>1. 8 * x \in Nat /\ 8 * (y - x - 1) \in Nat /\ 8 \in Nat
          /\ 8 * y = 8 * x + (8 + 8 * (y - x - 1)) /\ 8 + 8 * (y - x - 1) \in Nat
      OBVIOUS
    <3>2. 2^(8 * x + (8 + 8 * (y - x - 1))) = 2^(8 * x) * 2^(8 + 8 * (y - x - 1))
      BY <3>1, PowerSum
    <3>3. 2^(8 + 8 * (y - x - 1)) = 2^8 * 2^(8 * (y - x - 1))
      BY <3>1, PowerSum
    <3>4. Q \in Nat \ {0} /\ R \in Nat \ {0}
      BY <3>1, Powers
    <3> QED
      BY <3>1, <3>2, <3>3, <3>4, NumberedPowers DEF P
  <2> HIDE DEF Q, R
  <2>2. t \in Nat /\ e \in 0 .. Q - 1 /\ s = Q * t + e
    BY <2>1, Division
  <2> HIDE DEF t, e
  <2>3. f \in Nat /\ g \in 0 .. 256 - 1 /\ t = 256 * f + g
    BY <2>2, Division
  <2> HIDE DEF f, g
  <2>4. u \in Nat /\ P * d = Q * (256 * u)
    <3>1. P * d = (Q * (256 * R)) * d
      BY <2>1
    <3>2. (Q * (256 * R)) * d = Q * (256 * (R * d)) /\ R * d \in Nat
      BY <2>1
    <3> QED
      BY <3>1, <3>2
  <2> HIDE DEF u
  <2>5. v = Q * (256 * u + t) + e
    <3>1. Q * (256 * u + t) = Q * (256 * u) + Q * t
      BY <2>1, <2>2, <2>4
    <3> DEFINE qu == Q * (256 * u)
               qt == Q * t
    <3>2. qu \in Nat /\ qt \in Nat
      BY <2>1, <2>2, <2>4
    <3>3. v = qu + (qt + e) /\ Q * (256 * u + t) = qu + qt
      BY <1>3, <2>2, <2>4, <3>1
    <3> HIDE DEF qu, qt
    <3> QED
      BY <2>2, <3>2, <3>3
  <2>6. v \div Q = 256 * u + t
    <3> DEFINE z == 256 * u + t
    <3>0. 256 * u \in Int
      BY <2>4
    <3>1. z \in Int /\ v = Q * z + e /\ v \in Int
      <4>1. z \in Int
        BY <2>2, <3>0
      <4>2. v = Q * z + e
        BY <2>5
      <4>3. v \in Int
        <5> HIDE DEF z
        <5>1. Q \in Int /\ e \in Int
          BY <2>1, <2>2
        <5> QED
          BY <4>1, <4>2, <5>1
      <4> QED
        BY <4>1, <4>2, <4>3
    <3> HIDE DEF z
    <3>2. v \div Q = z
      BY <2>1, <2>2, <3>1, DivisionIsUnique
    <3> QED
      BY <3>2 DEF z
  <2>7. (256 * u + t) % 256 = g
    <3> DEFINE z == 256 * u + t
               h == u + f
               c == 256
    <3>1. z = c * h + g /\ z \in Int /\ h \in Int /\ c \in Nat \ {0} /\ g \in 0 .. c - 1
      <4>1. t \in Int /\ f \in Int /\ u \in Int /\ g \in 0 .. 256 - 1 /\ t = 256 * f + g
        BY <2>2, <2>3, <2>4
      <4> QED
        BY <4>1
    <3> HIDE DEF z, h, c
    <3>2. z % c = g
      BY <3>1, DivisionIsUnique
    <3> QED
      BY <3>2 DEF z, c
  <2>8. Lane(v, x) = (v \div Q) % 256 /\ Lane(s, x) = (s \div Q) % 256
    BY DEF Lane, Q
  <2> QED
    BY <2>6, <2>7, <2>8 DEF g, t
<1> QED
  BY <1>1, <1>3, <1>4, <1>5 DEF v, P, Topped

LanesOf(v, F, n) ==
  /\ v \in Nat /\ v < 2^(8 * n)
  /\ \A i \in 0 .. n - 1 : Lane(v, i) = F[i]

LEMMA LanesAre ==
  ASSUME NEW n \in Nat, NEW F, \A i \in 0 .. n - 1 : F[i] \in 0 .. 255,
         NEW G, \A i \in 0 .. n - 1 : G[i] = F[i] * 2^(8 * i), NEW v, IsSum(v, G, 0 .. n - 1)
  PROVE  LanesOf(v, F, n)
<1>1. PICK g : Sums(0 .. n - 1, G, g) /\ v = g[0 .. n - 1]
  BY DEF IsSum
<1> DEFINE up(i) == 0 .. i - 1
           Good(i) == LanesOf(g[up(i)], F, i)
           S == {i \in Nat : i <= n => Good(i)}
<1>2. ASSUME NEW i \in Nat, \A l \in Nat : l < i => l \in S PROVE i \in S
  <2> SUFFICES ASSUME i <= n PROVE Good(i)
    OBVIOUS
  <2>1. CASE i = 0
    <3>1. up(i) = {} /\ 8 * i = 0
      BY <2>1
    <3>2. g[up(i)] = 0
      BY <1>1, <3>1 DEF Sums
    <3>3. 2^(8 * i) = 1
      BY <3>1, Powers
    <3> QED
      BY <3>1, <3>2, <3>3 DEF LanesOf
  <2>2. CASE i # 0
    <3> DEFINE y == i - 1
               s == g[up(y)]
    <3>1. y \in Nat /\ y < i /\ y <= n /\ y + 1 = i /\ y \in 0 .. n - 1
      BY <2>2
    <3>2. Good(y)
      <4> HIDE DEF Good, y
      <4> QED
        BY <1>2, <3>1
    <3>3. up(i) \in SUBSET (0 .. n - 1) /\ y \in up(i) /\ up(i) \ {y} = up(y)
      BY <3>1
    <3>4. g[up(i)] = G[y] + s
      <4>1. g[up(i)] = G[y] + g[up(i) \ {y}]
        <5> HIDE DEF up, y
        <5> QED
          BY <1>1, <3>3 DEF Sums
      <4> HIDE DEF up, y
      <4> QED
        BY <3>3, <4>1
    <3>5. s \in Nat /\ s < 2^(8 * y) /\ \A x \in 0 .. y - 1 : Lane(s, x) = F[x]
      BY <3>2 DEF LanesOf
    <3>6. F[y] \in 0 .. 255 /\ G[y] = F[y] * 2^(8 * y)
      BY <3>1
    <3> DEFINE d == F[y]
               z == d * 2^(8 * y) + s
    <3>7. g[up(i)] = z
      BY <3>4, <3>6
    <3> HIDE DEF s, y, up
    <3>8. /\ z \in Nat /\ z < 2^(8 * (y + 1)) /\ Lane(z, y) = d
          /\ \A x \in 0 .. y - 1 : Lane(z, x) = Lane(s, x)
      <4> HIDE DEF d
      <4>1. d \in 0 .. 255
        BY <3>6 DEF d
      <4>2. Topped(d * 2^(8 * y) + s, y, s, d)
        BY <3>1, <3>5, <4>1, LaneOnTop
      <4> QED
        BY <4>2 DEF Topped
    <3> HIDE DEF z, d
    <3>9. \A x \in 0 .. i - 1 : Lane(z, x) = F[x]
      <4> SUFFICES ASSUME NEW x \in 0 .. i - 1 PROVE Lane(z, x) = F[x]
        OBVIOUS
      <4>1. x = y \/ x \in 0 .. y - 1
        BY <3>1
      <4> QED
        BY <3>5, <3>8, <4>1 DEF d
    <3>10. z < 2^(8 * i)
      BY <3>1, <3>8
    <3> QED
      BY <3>7, <3>8, <3>9, <3>10 DEF LanesOf
  <2> QED
    BY <2>1, <2>2
<1>3. S = Nat
  <2>1. S \in SUBSET Nat
    OBVIOUS
  <2> HIDE DEF S
  <2> QED
    BY <1>2, <2>1, NatSets
<1>4. Good(n)
  <2> HIDE DEF Good
  <2> QED
    BY <1>3
<1> QED
  BY <1>1, <1>4

(* A word of codes: a column's in its lane, zero past the last column.     *)
CodesOf(w, col0, x) ==
  [y \in 0 .. PE_N - 1 |-> IF col0 + y < w.N THEN w.fp8[col0 + y + 1][x + 1] ELSE 0]
LEMMA CodeWordIs ==
  ASSUME NEW w, NEW col0, NEW x, \A y \in 0 .. PE_N - 1 : CodesOf(w, col0, x)[y] \in 0 .. 255
  PROVE  LanesOf(CodeWord(w, col0, x), CodesOf(w, col0, x), PE_N)
<1> DEFINE S == 0 .. PE_N - 1
           C0 == CodesOf(w, col0, x)
           F == [y \in S |-> C0[y] * 2^(8 * y)]
           term(y) == (IF col0 + y < w.N THEN w.fp8[col0 + y + 1][x + 1] ELSE 0) * 2^(8 * y)
           Body(g) == [T \in SUBSET S |-> IF T = {} THEN 0
                         ELSE term(CHOOSE i \in T : TRUE) + g[T \ {CHOOSE i \in T : TRUE}]]
           h == CHOOSE g : g = Body(g)
<1>1. CodeWord(w, col0, x) = h[S]
  BY DEF CodeWord, MapThenSumSet, MapThenFoldSet
<1>2. PE_N \in Nat /\ IsFiniteSet(S)
  BY LayoutAssumption, FS_Interval
<1>3. \A i \in S : F[i] = term(i)
  BY DEF CodesOf
<1>4. \A y \in S : C0[y] \in 0 .. 255
  OBVIOUS
<1> HIDE DEF C0
<1>5. F \in [S -> Int]
  <2> SUFFICES ASSUME NEW y \in S PROVE C0[y] * 2^(8 * y) \in Int
    OBVIOUS
  <2>1. 8 * y \in Nat
    BY <1>2
  <2>2. 2^(8 * y) \in Nat
    BY <2>1, Powers
  <2> QED
    BY <1>4, <2>2
<1>6. \A i \in 0 .. PE_N - 1 : F[i] = C0[i] * 2^(8 * i)
  OBVIOUS
<1> HIDE DEF F, term
<1>7. \A g : Body(g) = Unrolled(S, F, g)
  <2> SUFFICES ASSUME NEW g PROVE Body(g) = Unrolled(S, F, g)
    OBVIOUS
  <2>1. \A T \in SUBSET S : T # {} => AnyOf(T) \in S
    BY DEF AnyOf
  <2> HIDE DEF S
  <2>2. Body(g) = [T \in SUBSET S |-> IF T = {} THEN 0 ELSE term(AnyOf(T)) + g[T \ {AnyOf(T)}]]
    BY DEF AnyOf
  <2> QED
    BY <1>3, <2>1, <2>2 DEF Unrolled
<1>8. h = Unrolled(S, F, h)
  <2> HIDE DEF S
  <2>1. PICK g : g = Unrolled(S, F, g)
    BY <1>2, <1>5, SumsExist DEF HasSums
  <2>2. g = Body(g)
    BY <1>7, <2>1
  <2> HIDE DEF Body
  <2>3. h = Body(h)
    BY <2>2
  <2> QED
    BY <1>7, <2>3
<1> HIDE DEF h
<1>9. IsSum(h[S], F, S)
  <2> HIDE DEF S
  <2>1. Sums(S, F, h)
    BY <1>2, <1>5, <1>8, UnrolledIsSum
  <2> QED
    BY <2>1 DEF IsSum
<1>10. LanesOf(h[S], C0, PE_N)
  <2> DEFINE v == h[S]
  <2>1. IsSum(v, F, 0 .. PE_N - 1)
    BY <1>9
  <2> HIDE DEF v, S
  <2>2. LanesOf(v, C0, PE_N)
    BY <1>2, <1>4, <1>6, <2>1, LanesAre DEF S
  <2> QED
    BY <2>2 DEF v
<1> QED
  BY <1>1, <1>10 DEF C0

(* A weight's tiles, one behind another.                                   *)
TileSize(w) == Ceil(w.K, BLK) * PE_N + w.K
InMemory(vs, d, w) ==
  /\ d.name = w.name /\ d.k_len = w.K /\ d.nblk = Ceil(w.K, BLK) /\ d.base \in Nat
  /\ \E ct \in 0 .. Ceil(w.N, PE_N) - 1 : d.col0 = ct * PE_N
  /\ d.base + TileSize(w) <= Len(vs)
  /\ \A at \in 0 .. TileSize(w) - 1 : vs[d.base + at + 1] = TileWord(w, d.col0, at)
Packs(p, w) ==
  /\ p.words \in Seq(Range(p.words)) /\ Len(p.words) = Ceil(w.N, PE_N) * TileSize(w)
  /\ p.descs \in Seq(Range(p.descs)) /\ Len(p.descs) = Ceil(w.N, PE_N)
  /\ \A ct \in 0 .. Ceil(w.N, PE_N) - 1 :
       /\ p.descs[ct + 1] = [name |-> w.name, base |-> ct * TileSize(w), k_len |-> w.K,
                             nblk |-> Ceil(w.K, BLK), col0 |-> ct * PE_N]
       /\ ct * TileSize(w) \in Nat /\ ct * TileSize(w) + TileSize(w) <= Len(p.words)
       /\ \A at \in 0 .. TileSize(w) - 1 : p.words[ct * TileSize(w) + at + 1] = TileWord(w, ct * PE_N, at)

LEMMA TileSizeIs ==
  ASSUME NEW w, w.N \in Nat \ {0}, w.K \in Nat \ {0}
  PROVE  /\ TileSize(w) \in Nat \ {0} /\ Ceil(w.K, BLK) \in Nat \ {0} /\ Ceil(w.N, PE_N) \in Nat \ {0}
         /\ Ceil(w.K, BLK) * PE_N \in Nat
<1> DEFINE N == w.N
           K == w.K
           kb == Ceil(K, BLK)
           nt == Ceil(N, PE_N)
<1>1. N \in Nat \ {0} /\ K \in Nat \ {0} /\ PE_N \in Nat \ {0} /\ BLK \in Nat \ {0}
  BY LayoutAssumption
<1> HIDE DEF N, K
<1>2. kb \in Nat \ {0} /\ nt \in Nat \ {0}
  BY <1>1, CeilIs
<1> HIDE DEF kb, nt
<1>3. kb * PE_N \in Nat
  BY <1>1, <1>2
<1>4. kb * PE_N + K \in Nat \ {0}
  BY <1>1, <1>3
<1> QED
  BY <1>2, <1>3, <1>4 DEF TileSize, kb, nt, N, K

LEMMA SeqOfFunction ==
  ASSUME NEW n \in Nat, NEW f, f = [i \in 1 .. n |-> f[i]]
  PROVE  f \in Seq(Range(f)) /\ Len(f) = n
<1>1. \A i \in 1 .. n : f[i] \in Range(f)
  BY DEF Range
<1>2. f \in [1 .. n -> Range(f)]
  BY <1>1
<1>3. f \in Seq(Range(f))
  BY <1>2, SeqDef
<1>4. DOMAIN f = 1 .. n /\ DOMAIN f = 1 .. Len(f) /\ Len(f) \in Nat
  BY <1>3, LenProperties
<1> QED
  BY <1>3, <1>4

LEMMA PackIsIt ==
  ASSUME NEW w, w.N \in Nat \ {0}, w.K \in Nat \ {0}
  PROVE  Packs(pack_weight(w), w)
<1> DEFINE size == TileSize(w)
           nt == Ceil(w.N, PE_N)
           p == pack_weight(w)
           desc(y) == [name |-> w.name, base |-> (y - 1) * size, k_len |-> w.K,
                       nblk |-> Ceil(w.K, BLK), col0 |-> (y - 1) * PE_N]
           z == nt * size
<1>1. size \in Nat \ {0} /\ nt \in Nat \ {0}
  BY TileSizeIs
<1>2. /\ p.words = [i \in 1 .. nt * size |-> TileWord(w, ((i - 1) \div size) * PE_N, (i - 1) % size)]
      /\ p.descs = [y \in 1 .. nt |-> desc(y)]
  BY DEF pack_weight, ColumnTiles, TileSize
<1> HIDE DEF size, nt, p, desc
<1>3. z \in Nat
  BY <1>1
<1>4. p.words \in Seq(Range(p.words)) /\ Len(p.words) = z
  <2> DEFINE f == p.words
  <2>1. f = [i \in 1 .. z |-> f[i]]
    BY <1>2
  <2> HIDE DEF f, z
  <2> QED
    BY <1>3, <2>1, SeqOfFunction DEF f
<1>5. p.descs \in Seq(Range(p.descs)) /\ Len(p.descs) = nt
  <2> DEFINE f == p.descs
  <2>1. f = [i \in 1 .. nt |-> f[i]]
    BY <1>2
  <2> HIDE DEF f
  <2> QED
    BY <1>1, <2>1, SeqOfFunction DEF f
<1>6. ASSUME NEW ct \in 0 .. nt - 1
      PROVE  /\ p.descs[ct + 1] = [name |-> w.name, base |-> ct * size, k_len |-> w.K,
                                   nblk |-> Ceil(w.K, BLK), col0 |-> ct * PE_N]
             /\ ct * size \in Nat /\ ct * size + size <= z
             /\ \A at \in 0 .. size - 1 : p.words[ct * size + at + 1] = TileWord(w, ct * PE_N, at)
  <2>1. ct + 1 \in 1 .. nt /\ (ct + 1) - 1 = ct /\ ct \in Nat
    BY <1>1
  <2>2. p.descs[ct + 1] = desc(ct + 1)
    BY <1>2, <2>1
  <2>3. p.descs[ct + 1] = [name |-> w.name, base |-> ct * size, k_len |-> w.K,
                           nblk |-> Ceil(w.K, BLK), col0 |-> ct * PE_N]
    BY <2>1, <2>2 DEF desc
  <2>4. ct * size \in Nat /\ ct * size + size <= z
    <3>1. nt - (ct + 1) \in Nat
      BY <1>1
    <3>2. ct * size \in Nat /\ (nt - (ct + 1)) * size \in Nat
          /\ (nt - (ct + 1)) * size = nt * size - ct * size - size
      BY <1>1, <2>1, <3>1
    <3> DEFINE cs == ct * size
    <3>3. cs \in Nat /\ z - cs - size >= 0
      BY <3>2
    <3> HIDE DEF cs, z
    <3>4. cs \in Nat /\ cs + size <= z
      BY <1>1, <1>3, <3>3
    <3> QED
      BY <3>4 DEF cs
  <2>5. ASSUME NEW at \in 0 .. size - 1 PROVE p.words[ct * size + at + 1] = TileWord(w, ct * PE_N, at)
    <3> DEFINE cs == ct * size
               x == cs + at
               i == x + 1
    <3>1. cs = size * ct
      BY <1>1, <2>1
    <3>2. i \in 1 .. z /\ i - 1 = x /\ x \in Int
      <4>1. cs \in Nat /\ cs + size <= z
        BY <2>4
      <4> HIDE DEF cs, z
      <4> QED
        BY <1>1, <1>3, <4>1
    <3>3. x \div size = ct /\ x % size = at
      <4>1. ct \in Int /\ x = size * ct + at
        BY <2>1, <3>1
      <4> HIDE DEF x
      <4> QED
        BY <1>1, <3>2, <4>1, DivisionIsUnique
    <3> HIDE DEF x
    <3>4. p.words[i] = TileWord(w, ((i - 1) \div size) * PE_N, (i - 1) % size)
      <4> HIDE DEF i
      <4> QED
        BY <1>2, <3>2
    <3>5. p.words[i] = TileWord(w, ct * PE_N, at)
      <4> HIDE DEF i
      <4> QED
        BY <3>2, <3>3, <3>4
    <3> QED
      BY <3>5 DEF x
  <2> QED
    BY <2>3, <2>4, <2>5
<1>7. Packs(p, w)
  <2>1. \A ct \in 0 .. nt - 1 :
          /\ p.descs[ct + 1] = [name |-> w.name, base |-> ct * size, k_len |-> w.K,
                                nblk |-> Ceil(w.K, BLK), col0 |-> ct * PE_N]
          /\ ct * size \in Nat /\ ct * size + size <= Len(p.words)
          /\ \A at \in 0 .. size - 1 : p.words[ct * size + at + 1] = TileWord(w, ct * PE_N, at)
    BY <1>4, <1>6
  <2> QED
    BY <1>4, <1>5, <2>1 DEF Packs, nt, size
<1> QED
  BY <1>7 DEF p

(* The image of the weights packed so far.                                 *)
Loadable(ws) ==
  /\ ws \in Seq(Range(ws))
  /\ \A c \in 1 .. Len(ws) : ws[c].N \in Nat \ {0} /\ ws[c].K \in Nat \ {0}
  /\ \A c, e \in 1 .. Len(ws) : ws[c].name = ws[e].name => c = e
PackedUpTo(ws, n, im) ==
  /\ im.words \in Seq(Range(im.words)) /\ im.descs \in Seq(Range(im.descs))
  /\ \A y \in 1 .. Len(im.descs) : \E c \in 1 .. n : InMemory(im.words, im.descs[y], ws[c])
  /\ \A c \in 1 .. n : \A ct \in 0 .. Ceil(ws[c].N, PE_N) - 1 :
       \E y \in 1 .. Len(im.descs) : im.descs[y].name = ws[c].name /\ im.descs[y].col0 = ct * PE_N
  /\ \A y, z \in 1 .. Len(im.descs) :
       im.descs[y].name = im.descs[z].name /\ im.descs[y].col0 = im.descs[z].col0 => y = z

LEMMA NothingPacked ==
  ASSUME NEW ws
  PROVE  PackedUpTo(ws, 0, EmptyImage)
<1>1. EmptyImage.words = << >> /\ EmptyImage.descs = << >>
  BY DEF EmptyImage
<1>2. << >> \in Seq(Range(<< >>)) /\ Len(<< >>) = 0 /\ 1 .. 0 = {}
  BY EmptySeq
<1> QED
  BY <1>1, <1>2 DEF PackedUpTo

LEMMA Lifted ==
  ASSUME NEW v1, v1 \in Seq(Range(v1)), NEW v2, v2 \in Seq(Range(v2))
  PROVE  /\ v1 \o v2 \in Seq(Range(v1 \o v2)) /\ Len(v1 \o v2) = Len(v1) + Len(v2)
         /\ Len(v1) \in Nat /\ Len(v2) \in Nat
         /\ \A y \in 1 .. Len(v1) : (v1 \o v2)[y] = v1[y]
         /\ \A y \in 1 .. Len(v2) : (v1 \o v2)[Len(v1) + y] = v2[y]
<1> DEFINE B == Range(v1) \cup Range(v2)
           v == v1 \o v2
<1>1. v1 \in Seq(B) /\ v2 \in Seq(B)
  BY SeqMonotonic
<1> HIDE DEF B
<1>2. /\ v \in Seq(B) /\ Len(v) = Len(v1) + Len(v2)
      /\ \A i \in 1 .. Len(v1) + Len(v2) : v[i] = IF i <= Len(v1) THEN v1[i] ELSE v2[i - Len(v1)]
  BY <1>1, ConcatProperties
<1>3. Len(v1) \in Nat /\ Len(v2) \in Nat
  BY LenProperties
<1> HIDE DEF v
<1>4. v \in Seq(Range(v))
  BY <1>2, SeqOfRange
<1>5. \A y \in 1 .. Len(v1) : v[y] = v1[y]
  BY <1>2, <1>3
<1>6. ASSUME NEW y \in 1 .. Len(v2) PROVE v[Len(v1) + y] = v2[y]
  <2>1. Len(v1) + y \in 1 .. Len(v1) + Len(v2) /\ ~(Len(v1) + y <= Len(v1)) /\ (Len(v1) + y) - Len(v1) = y
    BY <1>3
  <2> QED
    BY <1>2, <2>1
<1> QED
  BY <1>2, <1>3, <1>4, <1>5, <1>6 DEF v

(* One sequence behind another.                                            *)
Behind(v1, v2, v) ==
  /\ v \in Seq(Range(v)) /\ Len(v) = Len(v1) + Len(v2)
  /\ Len(v1) \in Nat /\ Len(v2) \in Nat
  /\ \A y \in 1 .. Len(v1) : v[y] = v1[y]
  /\ \A y \in 1 .. Len(v2) : v[Len(v1) + y] = v2[y]
LEMMA BehindIs ==
  ASSUME NEW v1, v1 \in Seq(Range(v1)), NEW v2, v2 \in Seq(Range(v2))
  PROVE  Behind(v1, v2, v1 \o v2)
<1> QED
  BY Lifted DEF Behind

LEMMA StillInMemory ==
  ASSUME NEW v1, v1 \in Seq(Range(v1)), NEW v2, v2 \in Seq(Range(v2)), NEW d, NEW w, TileSize(w) \in Nat,
         InMemory(v1, d, w)
  PROVE  InMemory(v1 \o v2, d, w)
<1> DEFINE vs == v1 \o v2
           size == TileSize(w)
           L == Len(v1)
<1>1. /\ Len(vs) = L + Len(v2) /\ L \in Nat /\ Len(v2) \in Nat
      /\ \A y \in 1 .. L : vs[y] = v1[y]
  BY Lifted
<1>2. /\ d.base \in Nat /\ d.base + size <= L
      /\ \A at \in 0 .. size - 1 : v1[d.base + at + 1] = TileWord(w, d.col0, at)
  BY DEF InMemory
<1> HIDE DEF vs, L, size
<1>3. size \in Nat
  BY DEF size
<1>4. \A at \in 0 .. size - 1 : d.base + at + 1 \in 1 .. L
  BY <1>1, <1>2, <1>3
<1>5. \A at \in 0 .. size - 1 : vs[d.base + at + 1] = TileWord(w, d.col0, at)
  BY <1>1, <1>2, <1>4
<1>6. d.base + size <= Len(vs)
  BY <1>1, <1>2, <1>3
<1> QED
  BY <1>5, <1>6 DEF InMemory, vs, size

(* What relocating a weight's descriptors makes of them.                   *)
Moved(w, ct, off) ==
  [name |-> w.name, base |-> ct * TileSize(w) + off, k_len |-> w.K, nblk |-> Ceil(w.K, BLK),
   col0 |-> ct * PE_N]
LEMMA RelocatedIs ==
  ASSUME NEW w, w.N \in Nat \ {0}, w.K \in Nat \ {0}, NEW p, Packs(p, w), NEW off
  PROVE  /\ Relocated(p.descs, off) \in Seq(Range(Relocated(p.descs, off)))
         /\ Len(Relocated(p.descs, off)) = Ceil(w.N, PE_N)
         /\ \A ct \in 0 .. Ceil(w.N, PE_N) - 1 : Relocated(p.descs, off)[ct + 1] = Moved(w, ct, off)
<1> DEFINE nt == Ceil(w.N, PE_N)
           r == Relocated(p.descs, off)
<1>1. nt \in Nat \ {0}
  BY TileSizeIs
<1>2. p.descs \in Seq(Range(p.descs)) /\ Len(p.descs) = nt
  BY DEF Packs
<1>3. DOMAIN p.descs = 1 .. nt
  BY <1>2, LenProperties
<1>4. r = [i \in 1 .. nt |-> [p.descs[i] EXCEPT !.base = @ + off]]
  BY <1>3 DEF Relocated
<1>5. \A ct \in 0 .. nt - 1 :
        p.descs[ct + 1] = [name |-> w.name, base |-> ct * TileSize(w), k_len |-> w.K,
                           nblk |-> Ceil(w.K, BLK), col0 |-> ct * PE_N]
  BY DEF Packs
<1> HIDE DEF nt, r
<1>6. r \in Seq(Range(r)) /\ Len(r) = nt
  <2>1. r = [i \in 1 .. nt |-> r[i]]
    BY <1>4
  <2> QED
    BY <1>1, <2>1, SeqOfFunction
<1>7. ASSUME NEW ct \in 0 .. nt - 1 PROVE r[ct + 1] = Moved(w, ct, off)
  <2>1. ct + 1 \in 1 .. nt
    BY <1>1
  <2>2. r[ct + 1] = [p.descs[ct + 1] EXCEPT !.base = @ + off]
    BY <1>4, <2>1
  <2> DEFINE cs == ct * TileSize(w)
             d == [name |-> w.name, base |-> cs, k_len |-> w.K, nblk |-> Ceil(w.K, BLK), col0 |-> ct * PE_N]
  <2>3. p.descs[ct + 1] = d
    BY <1>5
  <2>4. [d EXCEPT !.base = @ + off] = [name |-> w.name, base |-> cs + off, k_len |-> w.K,
                                       nblk |-> Ceil(w.K, BLK), col0 |-> ct * PE_N]
    <3> HIDE DEF cs
    <3> QED
      OBVIOUS
  <2> HIDE DEF d
  <2>5. r[ct + 1] = [d EXCEPT !.base = @ + off]
    BY <2>2, <2>3
  <2> QED
    BY <2>4, <2>5 DEF Moved
<1> QED
  BY <1>6, <1>7 DEF nt, r

LEMMA PackedNext ==
  ASSUME NEW ws, Loadable(ws), NEW n \in Nat, n + 1 <= Len(ws), NEW im, PackedUpTo(ws, n, im)
  PROVE  PackedUpTo(ws, n + 1, Appended(im, ws[n + 1]))
<1> DEFINE w == ws[n + 1]
           p == pack_weight(w)
           nt == Ceil(w.N, PE_N)
           size == TileSize(w)
           off == Len(im.words)
           vs == im.words \o p.words
           r == Relocated(p.descs, off)
           ds == im.descs \o r
           L == Len(im.descs)
<1>1. n + 1 \in 1 .. Len(ws) /\ \A c \in 1 .. n : c \in 1 .. Len(ws) /\ c # n + 1
  <2>1. Len(ws) \in Nat
    BY LenProperties DEF Loadable
  <2> QED
    BY <2>1
<1>2. w.N \in Nat \ {0} /\ w.K \in Nat \ {0}
  BY <1>1 DEF Loadable
<1>3. \A c \in 1 .. n : ws[c].N \in Nat \ {0} /\ ws[c].K \in Nat \ {0} /\ ws[c].name # w.name
  BY <1>1 DEF Loadable
<1>4. size \in Nat \ {0} /\ nt \in Nat \ {0} /\ PE_N \in Nat \ {0}
  BY <1>2, TileSizeIs, LayoutAssumption
<1>5. Packs(p, w)
  BY <1>2, PackIsIt
<1>6. Appended(im, w) = [words |-> vs, descs |-> ds]
  BY DEF Appended
<1>7. im.words \in Seq(Range(im.words)) /\ im.descs \in Seq(Range(im.descs))
  BY DEF PackedUpTo
<1>8. p.words \in Seq(Range(p.words)) /\ Len(p.words) = nt * size
  BY <1>5 DEF Packs
<1> HIDE DEF p, w
<1>9. r \in Seq(Range(r)) /\ Len(r) = nt /\ \A ct \in 0 .. nt - 1 : r[ct + 1] = Moved(w, ct, off)
  BY <1>2, <1>5, RelocatedIs
<1> HIDE DEF r
<1>10. /\ vs \in Seq(Range(vs)) /\ off \in Nat /\ Len(vs) = off + nt * size
       /\ \A y \in 1 .. Len(p.words) : vs[off + y] = p.words[y]
  <2> DEFINE v1 == im.words
             v2 == p.words
  <2>1. v1 \in Seq(Range(v1)) /\ v2 \in Seq(Range(v2)) /\ Len(v2) = nt * size
    BY <1>7, <1>8
  <2> HIDE DEF v1, v2
  <2>2. /\ v1 \o v2 \in Seq(Range(v1 \o v2)) /\ Len(v1 \o v2) = Len(v1) + Len(v2) /\ Len(v1) \in Nat
        /\ \A y \in 1 .. Len(v2) : (v1 \o v2)[Len(v1) + y] = v2[y]
    <3>1. Behind(v1, v2, v1 \o v2)
      BY <2>1, BehindIs
    <3> QED
      BY <3>1 DEF Behind
  <2> QED
    BY <2>1, <2>2 DEF v1, v2
<1>11. /\ ds \in Seq(Range(ds)) /\ L \in Nat /\ Len(ds) = L + nt
       /\ \A y \in 1 .. L : ds[y] = im.descs[y]
       /\ \A y \in 1 .. nt : ds[L + y] = r[y]
  <2> DEFINE v1 == im.descs
  <2>1. v1 \in Seq(Range(v1)) /\ r \in Seq(Range(r)) /\ Len(r) = nt
    BY <1>7, <1>9
  <2> HIDE DEF v1
  <2>2. /\ v1 \o r \in Seq(Range(v1 \o r)) /\ Len(v1 \o r) = Len(v1) + Len(r) /\ Len(v1) \in Nat
        /\ \A y \in 1 .. Len(v1) : (v1 \o r)[y] = v1[y]
        /\ \A y \in 1 .. Len(r) : (v1 \o r)[Len(v1) + y] = r[y]
    <3>1. Behind(v1, r, v1 \o r)
      BY <2>1, BehindIs
    <3> QED
      BY <3>1 DEF Behind
  <2> QED
    BY <2>1, <2>2 DEF v1
<1>12. ASSUME NEW c \in 1 .. n, NEW d, InMemory(im.words, d, ws[c]) PROVE InMemory(vs, d, ws[c])
  <2>1. TileSize(ws[c]) \in Nat
    <3>1. ws[c].N \in Nat \ {0} /\ ws[c].K \in Nat \ {0}
      BY <1>3
    <3> QED
      BY <3>1, TileSizeIs
  <2> QED
    BY <1>7, <1>8, <1>12, <2>1, StillInMemory
<1> HIDE DEF vs, ds, off, L
<1>13. ASSUME NEW ct \in 0 .. nt - 1 PROVE InMemory(vs, Moved(w, ct, off), w)
  <2> DEFINE d == Moved(w, ct, off)
             cs == ct * size
             z == nt * size
  <2>1. /\ cs \in Nat /\ cs + size <= z
        /\ \A at \in 0 .. size - 1 : p.words[cs + at + 1] = TileWord(w, ct * PE_N, at)
    BY <1>5, <1>8 DEF Packs, nt, size
  <2>2. /\ d.name = w.name /\ d.k_len = w.K /\ d.nblk = Ceil(w.K, BLK) /\ d.base = cs + off
        /\ d.col0 = ct * PE_N
    BY DEF Moved, size
  <2>3. Len(vs) = off + z /\ Len(p.words) = z /\ z \in Nat
    BY <1>4, <1>8, <1>10
  <2> HIDE DEF d, cs, z, nt, size
  <2>4. d.base \in Nat /\ d.base + size <= Len(vs)
    BY <1>4, <1>10, <2>1, <2>2, <2>3
  <2>5. ASSUME NEW at \in 0 .. size - 1 PROVE vs[d.base + at + 1] = TileWord(w, d.col0, at)
    <3>1. cs + at + 1 \in 1 .. Len(p.words) /\ d.base + at + 1 = off + (cs + at + 1)
      BY <1>4, <1>10, <2>1, <2>2, <2>3
    <3>2. vs[off + (cs + at + 1)] = p.words[cs + at + 1]
      BY <1>10, <3>1
    <3> QED
      BY <2>1, <2>2, <3>1, <3>2
  <2>6. \E q \in 0 .. nt - 1 : d.col0 = q * PE_N
    BY <2>2
  <2>7. InMemory(vs, d, w)
    BY <2>2, <2>4, <2>5, <2>6 DEF InMemory, nt, size
  <2> QED
    BY <2>7 DEF d
<1>14. \A y \in 1 .. Len(ds) : y \in 1 .. L \/ \E ct \in 0 .. nt - 1 : y = L + (ct + 1)
  <2> SUFFICES ASSUME NEW y \in 1 .. Len(ds), y \notin 1 .. L PROVE \E ct \in 0 .. nt - 1 : y = L + (ct + 1)
    OBVIOUS
  <2>1. y - L - 1 \in 0 .. nt - 1 /\ y = L + ((y - L - 1) + 1)
    BY <1>4, <1>11
  <2> QED
    BY <2>1
<1>15. \A ct \in 0 .. nt - 1 : L + (ct + 1) \in 1 .. Len(ds) /\ ds[L + (ct + 1)] = Moved(w, ct, off)
  <2> SUFFICES ASSUME NEW ct \in 0 .. nt - 1
               PROVE  L + (ct + 1) \in 1 .. Len(ds) /\ ds[L + (ct + 1)] = Moved(w, ct, off)
    OBVIOUS
  <2> HIDE DEF nt
  <2>1. ct + 1 \in 1 .. nt /\ L + (ct + 1) \in 1 .. Len(ds)
    BY <1>4, <1>11
  <2>2. ds[L + (ct + 1)] = r[ct + 1]
    BY <1>11, <2>1
  <2> QED
    BY <1>9, <2>1, <2>2
<1>16. \A y \in 1 .. L : y \in 1 .. Len(ds) /\ ds[y] = im.descs[y]
  BY <1>4, <1>11
<1>17. \A ct : Moved(w, ct, off).name = w.name /\ Moved(w, ct, off).col0 = ct * PE_N
  BY DEF Moved
<1>18. \A y \in 1 .. L : \E c \in 1 .. n : InMemory(im.words, im.descs[y], ws[c])
  BY DEF PackedUpTo, L
<1>19. ASSUME NEW y \in 1 .. Len(ds) PROVE \E c \in 1 .. n + 1 : InMemory(vs, ds[y], ws[c])
  <2>1. CASE y \in 1 .. L
    <3>1. PICK c \in 1 .. n : InMemory(im.words, im.descs[y], ws[c])
      BY <1>18, <2>1
    <3>2. InMemory(vs, im.descs[y], ws[c])
      BY <1>12, <3>1
    <3>3. ds[y] = im.descs[y]
      BY <1>16, <2>1
    <3>4. c \in 1 .. n + 1
      OBVIOUS
    <3> QED
      BY <3>2, <3>3, <3>4
  <2>2. CASE \E ct \in 0 .. nt - 1 : y = L + (ct + 1)
    <3>1. PICK ct \in 0 .. nt - 1 : y = L + (ct + 1)
      BY <2>2
    <3>2. InMemory(vs, ds[y], w) /\ n + 1 \in 1 .. n + 1
      BY <1>13, <1>15, <3>1
    <3> QED
      BY <3>2 DEF w
  <2> QED
    BY <1>14, <2>1, <2>2
<1>20. ASSUME NEW c \in 1 .. n + 1, NEW ct \in 0 .. Ceil(ws[c].N, PE_N) - 1
       PROVE  \E y \in 1 .. Len(ds) : ds[y].name = ws[c].name /\ ds[y].col0 = ct * PE_N
  <2>1. CASE c \in 1 .. n
    <3>1. PICK y \in 1 .. L : im.descs[y].name = ws[c].name /\ im.descs[y].col0 = ct * PE_N
      BY <2>1 DEF PackedUpTo, L
    <3> QED
      BY <1>16, <3>1
  <2>2. CASE c = n + 1
    <3>1. ct \in 0 .. nt - 1 /\ ws[c] = w
      BY <2>2 DEF w, nt
    <3> QED
      BY <1>15, <1>17, <3>1
  <2> QED
    BY <2>1, <2>2
<1>21. ASSUME NEW y \in 1 .. Len(ds), NEW z \in 1 .. Len(ds), ds[y].name = ds[z].name, ds[y].col0 = ds[z].col0
       PROVE  y = z
  <2>1. \A x \in 1 .. L : ds[x].name # w.name
    <3> SUFFICES ASSUME NEW x \in 1 .. L PROVE ds[x].name # w.name
      OBVIOUS
    <3>1. PICK c \in 1 .. n : InMemory(im.words, im.descs[x], ws[c])
      BY <1>18
    <3>2. ds[x].name = ws[c].name
      BY <1>16, <3>1 DEF InMemory
    <3> QED
      BY <1>3, <3>2
  <2>2. CASE y \in 1 .. L /\ z \in 1 .. L
    <3>1. im.descs[y].name = im.descs[z].name /\ im.descs[y].col0 = im.descs[z].col0
      BY <1>16, <1>21, <2>2
    <3> QED
      BY <2>2, <3>1 DEF PackedUpTo, L
  <2>3. CASE y \notin 1 .. L /\ z \notin 1 .. L
    <3>1. PICK ct \in 0 .. nt - 1 : y = L + (ct + 1)
      BY <1>14, <2>3
    <3>2. PICK c2 \in 0 .. nt - 1 : z = L + (c2 + 1)
      BY <1>14, <2>3
    <3>3. ct * PE_N = c2 * PE_N
      BY <1>15, <1>17, <1>21, <3>1, <3>2
    <3>4. ct = c2
      <4>1. ct \in Nat /\ c2 \in Nat
        BY <1>4
      <4> QED
        BY <1>4, <3>3, <4>1
    <3> QED
      BY <3>1, <3>2, <3>4
  <2>4. CASE y \in 1 .. L /\ z \notin 1 .. L
    <3>1. ds[z].name = w.name
      BY <1>14, <1>15, <1>17, <2>4
    <3> QED
      BY <1>21, <2>1, <2>4, <3>1
  <2>5. CASE y \notin 1 .. L /\ z \in 1 .. L
    <3>1. ds[y].name = w.name
      BY <1>14, <1>15, <1>17, <2>5
    <3> QED
      BY <1>21, <2>1, <2>5, <3>1
  <2> QED
    BY <2>2, <2>3, <2>4, <2>5
<1>22. PackedUpTo(ws, n + 1, [words |-> vs, descs |-> ds])
  BY <1>10, <1>11, <1>19, <1>20, <1>21 DEF PackedUpTo
<1> QED
  BY <1>6, <1>22 DEF w

LEMMA LoadedIsLoadable ==
  ASSUME NEW m, WellFormed(m), NEW ws, LoadedFrom(m, ws)
  PROVE  Loadable(ws)
<1>1. m \in Seq(Range(m))
  BY DEF WellFormed
<1>2. DOMAIN m = 1 .. Len(m)
  BY <1>1, LenProperties
<1>3. ASSUME NEW c \in 1 .. Len(ws) PROVE ws[c].N \in Nat \ {0} /\ ws[c].K \in Nat \ {0}
  <2>1. PICK i \in 1 .. Len(m) : IsWeightAt(m, i) /\ ws[c] = WeightNamed(m, i)
    BY DEF LoadedFrom, ReadUpTo
  <2>2. PICK l \in DOMAIN m : m[l].layer = m[i].layer /\ m[l].part = "weight_scale_inv"
    BY <2>1 DEF IsWeightAt
  <2>3. Pairs(m, i, l)
    BY <1>2, <2>1, <2>2 DEF Pairs, IsWeightAt
  <2>4. Says(m, i, l, ws[c])
    BY <2>1, <2>3, ClassifiedIs DEF WeightNamed
  <2> QED
    BY <2>4, LayoutAssumption DEF Says
<1> QED
  BY <1>3 DEF Loadable, LoadedFrom, ReadUpTo

LEMMA CeilCovers ==
  ASSUME NEW c \in Nat, NEW d \in Nat \ {0}
  PROVE  Ceil(c, d) \in Nat /\ Ceil(c, d) * d \in Nat /\ c <= Ceil(c, d) * d
<1> DEFINE x == c + d - 1
           q == Ceil(c, d)
           e == x % d
<1>1. x \in Nat /\ q = x \div d
  BY DEF Ceil
<1> HIDE DEF x
<1>2. q \in Nat /\ e \in 0 .. d - 1 /\ x = d * q + e
  BY <1>1, Division
<1> HIDE DEF q, e
<1> DEFINE z == q * d
<1>3. z = d * q /\ z \in Nat
  BY <1>2
<1> HIDE DEF z
<1>4. c <= z
  BY <1>2, <1>3 DEF x
<1> QED
  BY <1>2, <1>3, <1>4 DEF z, q

LEMMA CeilGrows ==
  ASSUME NEW n \in Nat, NEW c \in Nat, n <= c, NEW d \in Nat \ {0}
  PROVE  Ceil(n, d) <= Ceil(c, d)
<1> DEFINE q == Ceil(c, d)
           z == q * d
<1>1. q \in Nat /\ z \in Nat /\ c <= z
  BY CeilCovers
<1> HIDE DEF z
<1>2. n <= z
  BY <1>1
<1> HIDE DEF q
<1>3. n <= q * d
  BY <1>2 DEF z
<1> QED
  BY <1>1, <1>3, CeilIs DEF q

(* What a tile's descriptor and its words say of the checkpoint: the scale *)
(* of every block and column, and every column's code in its lane.         *)
ScaleAt(m, i, l, n, x) ==
  IF n < m[i].shape[1] THEN ScaleNumber(m[l], (n \div BLK) * m[l].shape[2] + x + 1) ELSE 0
CodeAt(m, i, n, x) == IF n < m[i].shape[1] THEN m[i].elts[n * m[i].shape[2] + x + 1] ELSE 0
Describes(m, i, l, d, vs) ==
  /\ d.name = Name(m[i]) /\ d.base \in Nat /\ d.k_len \in Nat \ {0} /\ d.nblk \in 1 .. NB
  /\ d.col0 \in Nat
  /\ d.nblk * PE_N \in Nat /\ d.base + d.nblk * PE_N + d.k_len <= Len(vs)
  /\ \A x \in 0 .. d.nblk - 1, y \in 0 .. PE_N - 1 :
       /\ x * PE_N + y \in 0 .. d.nblk * PE_N - 1
       /\ vs[d.base + (x * PE_N + y) + 1] % 2^16 = ScaleAt(m, i, l, d.col0 + y, x)
  /\ \A x \in 0 .. d.k_len - 1, y \in 0 .. PE_N - 1 :
       Lane(vs[d.base + d.nblk * PE_N + x + 1], y) = CodeAt(m, i, d.col0 + y, x)

LEMMA ScaleWordSays ==
  ASSUME NEW m, NEW i, NEW l, NEW w, Says(m, i, l, w), NEW n \in Nat, NEW x \in 0 .. w.n_kb - 1
  PROVE  ScaleWord(w, n, x) % 2^16 = ScaleAt(m, i, l, n, x)
<1>1. w.N = m[i].shape[1] /\ w.N \in Nat \ {0} /\ w.n_ob = Ceil(w.N, BLK) /\ m[l].shape[2] = w.n_kb
  BY DEF Says
<1>2. CASE ~(n < w.N)
  <2>1. ScaleWord(w, n, x) = 0 /\ ScaleAt(m, i, l, n, x) = 0
    BY <1>1, <1>2 DEF ScaleWord, ScaleAt
  <2> DEFINE P == 2^16
  <2>2. P \in Nat \ {0}
    BY Powers
  <2> HIDE DEF P
  <2>3. 0 % P = 0
    BY <2>2
  <2> QED
    BY <2>1, <2>3 DEF P
<1>3. CASE n < w.N
  <2> DEFINE q == n \div BLK
             s == ScaleNumber(m[l], q * w.n_kb + x + 1)
             P == 2^16
  <2>1. q \in 0 .. w.n_ob - 1
    <3>1. w.N \in Nat /\ BLK \in Nat \ {0}
      BY <1>1, LayoutAssumption
    <3> QED
      BY <1>1, <1>3, <3>1, CeilIs
  <2>2. w.scale[q + 1][x + 1] = s /\ s \in Nat /\ s < P
    <3> HIDE DEF q
    <3>1. /\ w.scale[q + 1][x + 1] = s
          /\ w.scale[q + 1][x + 1] \in Nat /\ w.scale[q + 1][x + 1] < 2^16
      BY <2>1 DEF Says
    <3> QED
      BY <3>1
  <2>3. P \in Nat \ {0}
    BY Powers
  <2>4. ScaleWord(w, n, x) = s /\ ScaleAt(m, i, l, n, x) = s
    BY <1>1, <1>3, <2>2 DEF ScaleWord, ScaleAt
  <2> HIDE DEF s, P
  <2>5. s % P = s
    BY <2>2, <2>3, Division
  <2> QED
    BY <2>4, <2>5 DEF P
<1> QED
  BY <1>2, <1>3

LEMMA CodeWordSays ==
  ASSUME NEW m, NEW i, NEW l, NEW w, Says(m, i, l, w), NEW c \in Nat, NEW x \in 0 .. w.K - 1,
         NEW y \in 0 .. PE_N - 1
  PROVE  Lane(CodeWord(w, c, x), y) = CodeAt(m, i, c + y, x)
<1>1. w.N = m[i].shape[1] /\ w.N \in Nat \ {0} /\ w.K = m[i].shape[2] /\ PE_N \in Nat
  BY LayoutAssumption DEF Says
<1>2. \A n \in 0 .. w.N - 1 :
        w.fp8[n + 1][x + 1] = m[i].elts[n * w.K + x + 1] /\ w.fp8[n + 1][x + 1] \in 0 .. 255
  BY DEF Says
<1>3. \A r \in 0 .. PE_N - 1 :
        CodesOf(w, c, x)[r] = CodeAt(m, i, c + r, x) /\ CodesOf(w, c, x)[r] \in 0 .. 255
  <2> SUFFICES ASSUME NEW r \in 0 .. PE_N - 1
               PROVE  CodesOf(w, c, x)[r] = CodeAt(m, i, c + r, x) /\ CodesOf(w, c, x)[r] \in 0 .. 255
    OBVIOUS
  <2>1. CodesOf(w, c, x)[r] = IF c + r < w.N THEN w.fp8[c + r + 1][x + 1] ELSE 0
    BY DEF CodesOf
  <2>2. CASE c + r < w.N
    <3> DEFINE n == c + r
    <3>1. n \in 0 .. w.N - 1
      BY <1>1, <2>2
    <3> HIDE DEF n
    <3>2. w.fp8[n + 1][x + 1] = m[i].elts[n * w.K + x + 1] /\ w.fp8[n + 1][x + 1] \in 0 .. 255
      BY <1>2, <3>1
    <3>3. CodeAt(m, i, n, x) = m[i].elts[n * w.K + x + 1]
      BY <1>1, <2>2 DEF CodeAt, n
    <3> QED
      BY <2>1, <2>2, <3>2, <3>3 DEF n
  <2>3. CASE ~(c + r < w.N)
    BY <1>1, <2>1, <2>3 DEF CodeAt
  <2> QED
    BY <2>2, <2>3
<1>4. LanesOf(CodeWord(w, c, x), CodesOf(w, c, x), PE_N)
  BY <1>3, CodeWordIs
<1> QED
  BY <1>3, <1>4 DEF LanesOf

LEMMA TileDescribes ==
  ASSUME NEW m, NEW i, NEW l, NEW w, Says(m, i, l, w), NEW vs, NEW d, InMemory(vs, d, w)
  PROVE  Describes(m, i, l, d, vs)
<1> DEFINE ns_ == d.nblk * PE_N
           size == TileSize(w)
<1>1. /\ w.name = Name(m[i]) /\ w.N \in Nat \ {0} /\ w.K \in Nat \ {0} /\ w.K <= KMAX
      /\ w.n_kb = Ceil(w.K, BLK)
  BY LayoutAssumption DEF Says
<1>2. /\ d.name = w.name /\ d.k_len = w.K /\ d.nblk = Ceil(w.K, BLK) /\ d.base \in Nat
      /\ d.base + size <= Len(vs)
      /\ \A at \in 0 .. size - 1 : vs[d.base + at + 1] = TileWord(w, d.col0, at)
  BY DEF InMemory
<1>3. /\ size = ns_ + w.K /\ ns_ \in Nat /\ d.nblk \in Nat \ {0} /\ PE_N \in Nat \ {0} /\ BLK \in Nat \ {0}
      /\ size \in Nat \ {0}
  BY <1>1, <1>2, TileSizeIs, LayoutAssumption DEF TileSize
<1>4. d.nblk \in 1 .. NB
  <2>1. w.K \in Nat /\ KMAX \in Nat
    BY <1>1, LayoutAssumption
  <2>2. Ceil(w.K, BLK) <= NB
    BY <1>1, <1>3, <2>1, CeilGrows DEF NB
  <2>3. NB \in Nat
    BY <1>3, <2>1, CeilIs DEF NB
  <2> QED
    BY <1>2, <1>3, <2>2, <2>3
<1>5. d.col0 \in Nat
  <2>1. PICK ct \in 0 .. Ceil(w.N, PE_N) - 1 : d.col0 = ct * PE_N
    BY DEF InMemory
  <2>2. ct \in Nat
    BY <1>1, TileSizeIs
  <2> QED
    BY <1>3, <2>1, <2>2
<1> HIDE DEF ns_, size
<1>6. ASSUME NEW x \in 0 .. d.nblk - 1, NEW y \in 0 .. PE_N - 1
      PROVE  /\ x * PE_N + y \in 0 .. ns_ - 1
             /\ vs[d.base + (x * PE_N + y) + 1] % 2^16 = ScaleAt(m, i, l, d.col0 + y, x)
  <2> DEFINE xp == x * PE_N
             at == xp + y
  <2>1. xp \in Nat /\ xp = PE_N * x /\ xp + PE_N <= ns_
    <3>1. (d.nblk - (x + 1)) \in Nat /\ x \in Nat
      BY <1>3
    <3>2. x * PE_N \in Nat /\ x * PE_N = PE_N * x /\ (d.nblk - (x + 1)) * PE_N \in Nat
          /\ (d.nblk - (x + 1)) * PE_N = d.nblk * PE_N - x * PE_N - PE_N
      BY <1>3, <3>1
    <3>3. xp \in Nat /\ xp = PE_N * x /\ ns_ - xp - PE_N >= 0
      BY <3>2 DEF ns_
    <3> HIDE DEF xp
    <3> QED
      BY <1>3, <3>3
  <2> HIDE DEF xp
  <2>2. at \in 0 .. ns_ - 1 /\ at \in 0 .. size - 1
    <3>1. /\ xp \in Int /\ xp >= 0 /\ y \in Int /\ y >= 0 /\ y < PE_N /\ PE_N \in Int
          /\ xp + PE_N <= ns_ /\ ns_ \in Int
      BY <1>3, <2>1
    <3>2. ns_ <= size /\ size \in Int
      BY <1>1, <1>3
    <3> QED
      BY <3>1, <3>2
  <2>3. at % PE_N = y /\ at \div PE_N = x
    <3>1. at \in Int /\ x \in Int /\ at = PE_N * x + y
      BY <1>3, <2>1
    <3> HIDE DEF at
    <3> QED
      BY <1>3, <3>1, DivisionIsUnique
  <2> HIDE DEF at
  <2>4. vs[d.base + at + 1] = ScaleWord(w, d.col0 + y, x)
    <3>1. Ceil(w.K, BLK) * PE_N = ns_ /\ at < ns_
      BY <1>2, <1>3, <2>2 DEF ns_
    <3>2. TileWord(w, d.col0, at) = ScaleWord(w, d.col0 + y, x)
      BY <2>3, <3>1 DEF TileWord
    <3> QED
      BY <1>2, <2>2, <3>2
  <2>5. d.col0 + y \in Nat /\ x \in 0 .. w.n_kb - 1
    BY <1>1, <1>2, <1>5
  <2>6. ScaleWord(w, d.col0 + y, x) % 2^16 = ScaleAt(m, i, l, d.col0 + y, x)
    BY <2>5, ScaleWordSays
  <2> QED
    BY <2>2, <2>4, <2>6 DEF at, xp
<1>7. ASSUME NEW x \in 0 .. d.k_len - 1, NEW y \in 0 .. PE_N - 1
      PROVE  Lane(vs[d.base + ns_ + x + 1], y) = CodeAt(m, i, d.col0 + y, x)
  <2> DEFINE at == ns_ + x
  <2>1. at \in 0 .. size - 1 /\ ~(at < ns_) /\ at - ns_ = x /\ d.base + ns_ + x + 1 = d.base + at + 1
    <3>1. x \in Int /\ x >= 0 /\ x < w.K
      BY <1>1, <1>2
    <3>2. ns_ \in Nat /\ w.K \in Nat /\ size = ns_ + w.K /\ d.base \in Nat
      BY <1>1, <1>2, <1>3
    <3> DEFINE bs == d.base
               kk == w.K
    <3>3. bs + ns_ + x + 1 = bs + at + 1
      <4>1. bs \in Int /\ ns_ \in Int /\ x \in Int
        BY <3>1, <3>2
      <4> HIDE DEF bs
      <4> QED
        BY <4>1
    <3>4. kk \in Nat /\ x < kk /\ size = ns_ + kk
      BY <3>1, <3>2
    <3> HIDE DEF bs, kk
    <3>5. at \in 0 .. size - 1 /\ ~(at < ns_) /\ at - ns_ = x
      BY <3>1, <3>2, <3>4
    <3> QED
      BY <3>3, <3>5 DEF bs
  <2> HIDE DEF at
  <2>2. TileWord(w, d.col0, at) = CodeWord(w, d.col0, x)
    <3>1. Ceil(w.K, BLK) * PE_N = ns_
      BY <1>2 DEF ns_
    <3> QED
      BY <2>1, <3>1 DEF TileWord
  <2>3. vs[d.base + at + 1] = CodeWord(w, d.col0, x)
    BY <1>2, <2>1, <2>2
  <2>4. x \in 0 .. w.K - 1
    BY <1>2
  <2>5. Lane(CodeWord(w, d.col0, x), y) = CodeAt(m, i, d.col0 + y, x)
    BY <1>5, <2>4, CodeWordSays
  <2> QED
    BY <2>1, <2>3, <2>5
<1>8. d.base + ns_ + d.k_len <= Len(vs)
  <2> DEFINE bs == d.base
             kk == d.k_len
  <2>1. bs + ns_ + kk = bs + size
    <3>1. bs \in Int /\ ns_ \in Int /\ kk \in Int /\ size = ns_ + kk
      BY <1>1, <1>2, <1>3
    <3> HIDE DEF bs, kk
    <3> QED
      BY <3>1
  <2> QED
    BY <1>2, <2>1
<1> QED
  BY <1>1, <1>2, <1>3, <1>4, <1>5, <1>6, <1>7, <1>8 DEF Describes, ns_

LEMMA TensorsAre ==
  ASSUME WellFormed(model), NEW i, NEW l, Pairs(model, i, l)
  PROVE  /\ TensorOf(Name(model[i]), "weight") = model[i]
         /\ TensorOf(Name(model[i]), "weight_scale_inv") = model[l]
<1> DEFINE name == Name(model[i])
<1>1. /\ i \in DOMAIN model /\ l \in DOMAIN model /\ name[1] = model[i].layer
      /\ model[i].part = "weight" /\ model[l].part = "weight_scale_inv" /\ model[l].layer = model[i].layer
  BY DEF Pairs, Name
<1>2. \A x, y \in DOMAIN model :
        model[x].layer = model[y].layer /\ model[x].part = model[y].part => x = y
  BY DEF WellFormed, Name
<1> HIDE DEF name
<1>3. TensorOf(name, "weight") = model[i]
  <2> DEFINE c == CHOOSE x \in DOMAIN model : model[x].layer = name[1] /\ model[x].part = "weight"
  <2>1. c \in DOMAIN model /\ model[c].layer = name[1] /\ model[c].part = "weight"
    BY <1>1
  <2> HIDE DEF c
  <2>2. c = i
    BY <1>1, <1>2, <2>1
  <2> QED
    BY <2>2 DEF TensorOf, c
<1>4. TensorOf(name, "weight_scale_inv") = model[l]
  <2> DEFINE c == CHOOSE x \in DOMAIN model : model[x].layer = name[1] /\ model[x].part = "weight_scale_inv"
  <2>1. c \in DOMAIN model /\ model[c].layer = name[1] /\ model[c].part = "weight_scale_inv"
    BY <1>1
  <2> HIDE DEF c
  <2>2. c = l
    BY <1>1, <1>2, <2>1
  <2> QED
    BY <2>2 DEF TensorOf, c
<1> QED
  BY <1>3, <1>4 DEF name

(* What a tile gives the matmul, read from the words its descriptor names. *)
Gives(d, t, vs) ==
  /\ t = [scales |-> t.scales, k_len |-> t.k_len, rows |-> t.rows] /\ t.k_len = d.k_len
  /\ t.rows \in Seq(Range(t.rows)) /\ Len(t.rows) <= d.k_len
  /\ \A x \in 1 .. Len(t.rows) : t.rows[x] = vs[d.base + d.nblk * PE_N + x]
  /\ \A x \in 0 .. NB * PE_N - 1 :
       t.scales[x] = IF x < d.nblk * PE_N THEN vs[d.base + x + 1] % 2^16 ELSE 0

LEMMA SlotsAre ==
  ASSUME NEW x \in 0 .. NB - 1, NEW y \in 0 .. PE_N - 1, NEW c \in 0 .. NB
  PROVE  /\ x * PE_N + y \in 0 .. NB * PE_N - 1
         /\ c * PE_N \in Nat /\ c * PE_N <= NB * PE_N
         /\ x < c <=> x * PE_N + y < c * PE_N
<1>1. NB \in Nat /\ PE_N \in Nat \ {0}
  <2>1. KMAX \in Nat /\ BLK \in Nat \ {0}
    BY LayoutAssumption
  <2> QED
    BY <2>1, CeilIs, LayoutAssumption DEF NB
<1> DEFINE xp == x * PE_N
           cp == c * PE_N
           np == NB * PE_N
           e == c - x
           g == (NB - x - 1) * PE_N
           h == (NB - c) * PE_N
<1>2. xp \in Nat /\ cp \in Nat /\ np \in Nat
  BY <1>1
<1>3. PE_N * e \in Int /\ cp = xp + PE_N * e /\ e \in Int
  BY <1>1
<1>4. g \in Nat /\ g = np - xp - PE_N
  <2>1. NB - x - 1 \in Nat
    BY <1>1
  <2> QED
    BY <1>1, <2>1
<1>5. h \in Nat /\ h = np - cp
  <2>1. NB - c \in Nat
    BY <1>1
  <2> QED
    BY <1>1, <2>1
<1>6. (e >= 1 => PE_N * e >= PE_N) /\ (e <= 0 => PE_N * e <= 0)
  <2>1. e = 0 => PE_N * e = 0
    BY <1>1
  <2>2. (e >= 1 => PE_N * e >= PE_N) /\ (e <= -1 => PE_N * e <= -PE_N)
    <3> HIDE DEF e
    <3> QED
      BY <1>1, <1>3, Times
  <2> QED
    BY <1>1, <1>3, <2>1, <2>2
<1> DEFINE pe == PE_N * e
<1>7. pe \in Int /\ cp = xp + pe /\ (e >= 1 => pe >= PE_N) /\ (e <= 0 => pe <= 0)
  BY <1>3, <1>6
<1>8. x < c <=> e >= 1
  BY <1>1
<1>9. e >= 1 \/ e <= 0
  BY <1>3
<1> HIDE DEF xp, cp, np, g, h, pe, e
<1>10. xp + y \in 0 .. np - 1
  BY <1>1, <1>2, <1>4
<1>11. cp <= np
  BY <1>2, <1>5
<1>12. e >= 1 <=> xp + y < cp
  BY <1>1, <1>2, <1>7, <1>9
<1>13. x < c <=> xp + y < cp
  BY <1>8, <1>12
<1> QED
  BY <1>2, <1>10, <1>11, <1>13 DEF xp, cp, np

LEMMA FedIsRight ==
  ASSUME WellFormed(model), NEW i, NEW l, Pairs(model, i, l), NEW d, NEW vs,
         Describes(model, i, l, d, vs), NEW t, Gives(d, t, vs)
  PROVE  FedTile(d, t)
<1>1. /\ TensorOf(d.name, "weight") = model[i]
      /\ TensorOf(d.name, "weight_scale_inv") = model[l]
  BY TensorsAre DEF Describes
<1>2. \A n, x : CodeAt(model, i, n, x) = IF n < Outputs(d.name) THEN HfWeight(d.name, n, x) ELSE 0
  BY <1>1 DEF CodeAt, Outputs, HfWeight
<1>3. \A n, x : ScaleAt(model, i, l, n, x) = IF n < Outputs(d.name) THEN HfScale(d.name, n, x) ELSE 0
  BY <1>1 DEF ScaleAt, ScaleNumber, Outputs, HfScale
<1>4. /\ d.nblk \in 0 .. NB /\ NB \in Nat /\ d.nblk \in Nat /\ d.base \in Nat /\ d.k_len \in Nat
      /\ d.nblk * PE_N \in Nat
  <2>1. KMAX \in Nat /\ BLK \in Nat \ {0}
    BY LayoutAssumption
  <2>2. NB \in Nat
    BY <2>1, CeilIs DEF NB
  <2> QED
    BY <2>2 DEF Describes
<1>5. t.k_len = d.k_len /\ t.rows \in Seq(Range(t.rows)) /\ Len(t.rows) <= d.k_len
  BY DEF Gives
<1>6. DOMAIN t.rows = 1 .. Len(t.rows) /\ Len(t.rows) \in Nat
  BY <1>5, LenProperties
<1>7. ASSUME NEW y \in 0 .. PE_N - 1, NEW x \in DOMAIN t.rows
      PROVE  Lane(t.rows[x], y) =
               IF d.col0 + y < Outputs(d.name) THEN HfWeight(d.name, d.col0 + y, x - 1) ELSE 0
  <2>1. x \in 1 .. Len(t.rows) /\ x - 1 \in 0 .. d.k_len - 1
    BY <1>4, <1>5, <1>6
  <2>2. t.rows[x] = vs[d.base + d.nblk * PE_N + x]
    BY <2>1 DEF Gives
  <2>3. Lane(vs[d.base + d.nblk * PE_N + (x - 1) + 1], y) = CodeAt(model, i, d.col0 + y, x - 1)
    BY <2>1 DEF Describes
  <2>4. d.base + d.nblk * PE_N + (x - 1) + 1 = d.base + d.nblk * PE_N + x
    BY <1>4, <2>1
  <2> QED
    BY <1>2, <2>2, <2>3, <2>4
<1>8. ASSUME NEW y \in 0 .. PE_N - 1, NEW x \in 0 .. NB - 1
      PROVE  t.scales[x * PE_N + y] =
               IF d.col0 + y < Outputs(d.name) /\ x < d.nblk THEN HfScale(d.name, d.col0 + y, x) ELSE 0
  <2> DEFINE slot == x * PE_N + y
  <2>1. slot \in 0 .. NB * PE_N - 1 /\ (x < d.nblk <=> slot < d.nblk * PE_N)
    BY <1>4, SlotsAre
  <2>2. t.scales[slot] = IF slot < d.nblk * PE_N THEN vs[d.base + slot + 1] % 2^16 ELSE 0
    <3> HIDE DEF slot
    <3> QED
      BY <2>1 DEF Gives
  <2>3. CASE x < d.nblk
    <3>1. x \in 0 .. d.nblk - 1
      BY <1>4, <2>3
    <3>2. vs[d.base + slot + 1] % 2^16 = ScaleAt(model, i, l, d.col0 + y, x)
      BY <3>1 DEF Describes
    <3> QED
      BY <1>3, <2>1, <2>2, <2>3, <3>2
  <2>4. CASE ~(x < d.nblk)
    BY <2>1, <2>2, <2>4
  <2> QED
    BY <2>3, <2>4
<1> QED
  BY <1>5, <1>7, <1>8 DEF FedTile

(* The packer: what each step has left behind.                             *)
Steps == {"save", "read", "load", "pack", "check", "ok", "mismatch"}
PackerInv ==
  /\ WellFormed(model) /\ step \in Steps
  /\ step = "read" => file = save_safetensors(model)
  /\ step = "load" => tensors = Recovered(model)
  /\ step \in {"save", "read", "load"} => image = EmptyImage /\ packed = 0
  /\ step \in {"pack", "check", "ok", "mismatch"} =>
       /\ LoadedFrom(model, loaded)
       /\ packed \in Nat /\ packed <= Len(loaded) /\ PackedUpTo(loaded, packed, image)
  /\ step \in {"check", "ok"} => words = image.words /\ packed = Len(loaded)
  /\ step # "ok" => state = "idle" /\ busy = FALSE /\ fed = << >> /\ issued = 0

(* The scales read so far, and the row on its way.                         *)
ScalesIn(q, vs, at, c) ==
  /\ DOMAIN q = 0 .. NB * PE_N - 1
  /\ \A x \in 0 .. NB * PE_N - 1 : q[x] = IF x < c THEN vs[at + x + 1] % 2^16 ELSE 0
ScaleState ==
  /\ sc_iss \in Nat /\ sc_cap \in Nat /\ sc_iss <= ns /\ sc_iss = sc_cap + Flag(rd_v)
  /\ rd_v \in BOOLEAN
  /\ rd_v => rd_slot = sc_cap /\ mem_data = words[base_q + sc_cap + 1]
  /\ ScalesIn(w_scale_q, words, base_q, sc_cap) /\ beat_cnt = 0
StreamState ==
  /\ code_pending /\ beat_cnt \in Nat /\ beat_cnt < klen_q /\ cd_iss = beat_cnt + 1
  /\ mem_data = words[code_base + beat_cnt + 1]
  /\ Len(fed[issued].rows) = beat_cnt

(* The loader: the tiles given out are the matmul's, in order.             *)
FeedInv ==
  /\ issued \in Nat /\ issued <= Len(image.descs)
  /\ fed \in Seq(Range(fed))
  /\ state \in {"idle", "scale", "start", "stream", "done"}
  /\ busy \in BOOLEAN /\ (busy <=> state # "idle")
  /\ Len(fed) = IF state \in {"scale", "start"} THEN issued - 1 ELSE issued
  /\ state # "idle" =>
       /\ issued # 0 /\ base_q = image.descs[issued].base /\ klen_q = image.descs[issued].k_len
       /\ nblk_q = image.descs[issued].nblk
  /\ \A c \in 1 .. Len(fed) : Gives(image.descs[c], fed[c], words)
  /\ \A c \in 1 .. Len(fed) : (c < Len(fed) \/ state # "stream") => Len(fed[c].rows) = fed[c].k_len
  /\ state = "scale" => ScaleState
  /\ state = "start" => ScalesIn(w_scale_q, words, base_q, ns) /\ beat_cnt = 0
  /\ state = "stream" => StreamState
PathInv == PackerInv /\ FeedInv

LEMMA ImageCounts == PackerInv => image.descs \in Seq(Range(image.descs)) /\ Len(image.descs) \in Nat
<1> SUFFICES ASSUME PackerInv PROVE image.descs \in Seq(Range(image.descs)) /\ Len(image.descs) \in Nat
  OBVIOUS
<1>1. PackedUpTo(loaded, 0, EmptyImage)
  BY NothingPacked
<1>2. image.descs \in Seq(Range(image.descs))
  <2>1. CASE step \in {"save", "read", "load"}
    BY <1>1, <2>1 DEF PackerInv, PackedUpTo
  <2>2. CASE step \in {"pack", "check", "ok", "mismatch"}
    BY <2>2 DEF PackerInv, PackedUpTo
  <2> QED
    BY <2>1, <2>2 DEF PackerInv, Steps
<1> QED
  BY <1>2, LenProperties

LEMMA QuietFeed ==
  (state = "idle" /\ busy = FALSE /\ fed = << >> /\ issued = 0 /\ Len(image.descs) \in Nat) => FeedInv
<1> SUFFICES ASSUME state = "idle", busy = FALSE, fed = << >>, issued = 0, Len(image.descs) \in Nat
             PROVE  FeedInv
  OBVIOUS
<1>1. << >> \in Seq(Range(<< >>)) /\ Len(<< >>) = 0 /\ 1 .. 0 = {}
  BY EmptySeq
<1>2. fed \in Seq(Range(fed)) /\ Len(fed) = 0 /\ 1 .. Len(fed) = {}
  BY <1>1
<1>3. issued \in Nat /\ issued <= Len(image.descs)
  OBVIOUS
<1>4. Len(fed) = IF state \in {"scale", "start"} THEN issued - 1 ELSE issued
  BY <1>2
<1>5. /\ \A c \in 1 .. Len(fed) : Gives(image.descs[c], fed[c], words)
      /\ \A c \in 1 .. Len(fed) : (c < Len(fed) \/ state # "stream") => Len(fed[c].rows) = fed[c].k_len
  BY <1>2
<1> QED
  BY <1>2, <1>3, <1>4, <1>5 DEF FeedInv

LEMMA PackerStep ==
  ASSUME PackerInv, SaveFile \/ ReadFile \/ Classify \/ PackNext \/ WriteImage \/ CheckImage
  PROVE  PackerInv'
<1>0. /\ WellFormed(model) /\ step \in Steps
      /\ step # "ok" => state = "idle" /\ busy = FALSE /\ fed = << >> /\ issued = 0
  BY DEF PackerInv
<1>1. CASE SaveFile
  BY <1>0, <1>1 DEF SaveFile, PackerInv, Steps, loaderVars, loader
<1>2. CASE ReadFile
  <2>1. step = "read" /\ file = save_safetensors(model) /\ tensors' = load_safetensors(file)
    BY <1>2 DEF ReadFile, PackerInv
  <2>2. tensors' = Recovered(model)
    BY <1>0, <2>1, FileIsRecovered
  <2> QED
    BY <1>0, <1>2, <2>2 DEF ReadFile, PackerInv, Steps, loaderVars, loader
<1>3. CASE Classify
  <2>1. /\ step = "load" /\ tensors = Recovered(model) /\ loaded' = load_checkpoint(tensors).weights
        /\ image = EmptyImage /\ packed = 0
    BY <1>3 DEF Classify, PackerInv
  <2>2. LoadedFrom(model, loaded')
    BY <1>0, <2>1, LoadIs
  <2>3. PackedUpTo(loaded', packed, image)
    BY <2>1, NothingPacked
  <2>4. packed \in Nat /\ packed <= Len(loaded')
    <3> DEFINE ws == loaded'
    <3>1. LoadedFrom(model, ws)
      BY <2>2
    <3> HIDE DEF ws
    <3>2. Len(ws) \in Nat
      BY <1>0, <3>1, LoadedSays
    <3> QED
      BY <2>1, <3>2 DEF ws
  <2>5. /\ step' = "pack"
        /\ UNCHANGED << model, file, tensors, image, packed, issued, restarts, loaderVars >>
    BY <1>3 DEF Classify
  <2> QED
    BY <1>0, <2>1, <2>2, <2>3, <2>4, <2>5 DEF PackerInv, Steps, loaderVars, loader
<1>4. CASE PackNext
  <2>1. /\ step = "pack" /\ packed < Len(loaded) /\ packed \in Nat
        /\ LoadedFrom(model, loaded) /\ PackedUpTo(loaded, packed, image)
        /\ image' = Appended(image, loaded[packed + 1]) /\ packed' = packed + 1
    BY <1>4 DEF PackNext, PackerInv
  <2>2. Len(loaded) \in Nat /\ Loadable(loaded)
    BY <1>0, <2>1, LoadedSays, LoadedIsLoadable
  <2>3. packed' \in Nat /\ packed + 1 <= Len(loaded)
    BY <2>1, <2>2
  <2>4. PackedUpTo(loaded, packed', image')
    BY <2>1, <2>2, <2>3, PackedNext
  <2>5. UNCHANGED << model, step, file, tensors, loaded, issued, restarts, loaderVars >>
    BY <1>4 DEF PackNext
  <2> QED
    BY <1>0, <2>1, <2>3, <2>4, <2>5 DEF PackerInv, Steps, loaderVars, loader
<1>5. CASE WriteImage
  <2>1. /\ step = "pack" /\ packed = Len(loaded) /\ words' = image.words /\ step' = "check"
        /\ UNCHANGED << model, file, tensors, loaded, image, packed, issued, restarts, loader >>
    BY <1>5 DEF WriteImage
  <2> QED
    BY <1>0, <2>1 DEF PackerInv, Steps, loader
<1>6. CASE CheckImage
  <2>1. /\ step = "check" /\ step' \in {"ok", "mismatch"}
        /\ UNCHANGED << model, file, tensors, loaded, image, packed, issued, restarts, loaderVars >>
    <3> HIDE DEF unpack_image, roundtrip_check
    <3> QED
      BY <1>6 DEF CheckImage
  <2> QED
    BY <1>0, <2>1 DEF PackerInv, Steps, loaderVars, loader
<1> QED
  BY <1>1, <1>2, <1>3, <1>4, <1>5, <1>6

(* Every descriptor of a packed image says what the checkpoint says.       *)
LEMMA ImageDescribes ==
  ASSUME PackerInv, step \in {"check", "ok"}, NEW y \in 1 .. Len(image.descs)
  PROVE  \E i, l : Pairs(model, i, l) /\ Describes(model, i, l, image.descs[y], words)
<1>1. /\ WellFormed(model) /\ LoadedFrom(model, loaded) /\ PackedUpTo(loaded, packed, image)
      /\ words = image.words /\ packed = Len(loaded)
  BY DEF PackerInv
<1>2. PICK c \in 1 .. Len(loaded) : InMemory(words, image.descs[y], loaded[c])
  BY <1>1 DEF PackedUpTo
<1>3. PICK i, l : Pairs(model, i, l) /\ Says(model, i, l, loaded[c])
  BY <1>1, LoadedSays
<1>4. Describes(model, i, l, image.descs[y], words)
  BY <1>2, <1>3, TileDescribes
<1> QED
  BY <1>3, <1>4

(* The tile under way.                                                     *)
Loading(d) ==
  /\ base_q = d.base /\ klen_q = d.k_len /\ nblk_q = d.nblk
  /\ base_q \in Nat /\ klen_q \in Nat \ {0} /\ nblk_q \in 1 .. NB
  /\ ns \in Nat /\ ns <= NB * PE_N /\ NB * PE_N \in Nat
LEMMA UnderWay ==
  ASSUME PackerInv, FeedInv, state # "idle"
  PROVE  /\ step = "ok" /\ issued \in 1 .. Len(image.descs) /\ Len(image.descs) \in Nat
         /\ Loading(image.descs[issued])
<1>1. step = "ok"
  BY DEF PackerInv
<1>2. Len(image.descs) \in Nat
  BY ImageCounts
<1>3. issued \in 1 .. Len(image.descs)
  BY <1>2 DEF FeedInv
<1> DEFINE d == image.descs[issued]
<1>4. PICK i, l : Pairs(model, i, l) /\ Describes(model, i, l, d, words)
  BY <1>1, <1>3, ImageDescribes
<1>5. base_q = d.base /\ klen_q = d.k_len /\ nblk_q = d.nblk
  BY DEF FeedInv
<1> HIDE DEF d
<1>6. base_q \in Nat /\ klen_q \in Nat \ {0} /\ nblk_q \in 1 .. NB
  BY <1>4, <1>5 DEF Describes
<1>7. NB \in Nat \ {0} /\ PE_N \in Nat \ {0}
  <2>1. KMAX \in Nat \ {0} /\ BLK \in Nat \ {0} /\ KMAX \in Nat
    BY LayoutAssumption
  <2>2. NB \in Nat /\ NB # 0
    BY <2>1, CeilIs DEF NB
  <2> QED
    BY <2>2, LayoutAssumption
<1>8. ns \in Nat /\ ns <= NB * PE_N /\ NB * PE_N \in Nat
  <2>1. 0 \in 0 .. NB - 1 /\ 0 \in 0 .. PE_N - 1 /\ nblk_q \in 0 .. NB
    BY <1>6, <1>7
  <2>2. nblk_q * PE_N \in Nat /\ nblk_q * PE_N <= NB * PE_N
    BY <2>1, SlotsAre
  <2>3. NB * PE_N \in Nat
    BY <1>7
  <2> QED
    BY <2>2, <2>3 DEF ns
<1>9. Loading(d)
  BY <1>5, <1>6, <1>8 DEF Loading
<1> QED
  BY <1>1, <1>2, <1>3, <1>9 DEF d

LEMMA GivesMore ==
  ASSUME NEW d, d.k_len \in Nat, NEW vs, NEW t, Gives(d, t, vs), Len(t.rows) < d.k_len,
         NEW v, v = vs[d.base + d.nblk * PE_N + (Len(t.rows) + 1)],
         NEW u, u = [t EXCEPT !.rows = Append(@, v)]
  PROVE  Gives(d, u, vs) /\ Len(u.rows) = Len(t.rows) + 1 /\ u.k_len = t.k_len
<1> DEFINE r == t.rows
           L == Len(r)
           q == Append(r, v)
           B == Range(r) \cup {v}
<1>1. t = [scales |-> t.scales, k_len |-> t.k_len, rows |-> t.rows] /\ r \in Seq(Range(r)) /\ t.k_len = d.k_len
  BY DEF Gives
<1>2. u = [scales |-> t.scales, k_len |-> t.k_len, rows |-> q]
  BY <1>1
<1>3. L \in Nat
  BY <1>1, LenProperties
<1>4. r \in Seq(B) /\ v \in B
  BY <1>1, SeqMonotonic
<1> HIDE DEF r, B
<1>5. q \in Seq(B) /\ Len(q) = L + 1 /\ (\A x \in 1 .. L : q[x] = r[x]) /\ q[L + 1] = v
  BY <1>4, AppendProperties
<1> HIDE DEF q
<1>6. q \in Seq(Range(q))
  BY <1>5, SeqOfRange
<1>7. u.scales = t.scales /\ u.k_len = t.k_len /\ u.rows = q
  BY <1>2
<1>8. ASSUME NEW x \in 1 .. Len(q) PROVE q[x] = vs[d.base + d.nblk * PE_N + x]
  <2>1. CASE x = L + 1
    BY <1>5, <2>1 DEF r
  <2>2. CASE x # L + 1
    <3>1. x \in 1 .. L
      BY <1>3, <1>5, <2>2
    <3>2. r[x] = vs[d.base + d.nblk * PE_N + x]
      BY <3>1 DEF Gives, r
    <3> QED
      BY <1>5, <3>1, <3>2
  <2> QED
    BY <2>1, <2>2
<1>9. Len(q) <= d.k_len
  BY <1>3, <1>5 DEF r
<1>10. \A x \in 0 .. NB * PE_N - 1 :
        u.scales[x] = IF x < d.nblk * PE_N THEN vs[d.base + x + 1] % 2^16 ELSE 0
  BY <1>7 DEF Gives
<1>11. Gives(d, u, vs)
  <2>1. u = [scales |-> u.scales, k_len |-> u.k_len, rows |-> u.rows]
    BY <1>2, <1>7
  <2>2. u.k_len = d.k_len
    BY <1>1, <1>7
  <2> QED
    BY <1>6, <1>7, <1>8, <1>9, <1>10, <2>1, <2>2 DEF Gives
<1> QED
  BY <1>5, <1>7, <1>11 DEF r

LEMMA IssueStep ==
  ASSUME PackerInv, FeedInv, IssueTile
  PROVE  FeedInv'
<1> DEFINE d == image.descs[issued + 1]
<1>1. /\ step = "ok" /\ ~busy /\ issued < Len(image.descs) /\ Load(d)
      /\ issued' = issued + 1 /\ UNCHANGED << packer, restarts >>
  BY DEF IssueTile
<1>2. /\ base_q' = d.base /\ klen_q' = d.k_len /\ nblk_q' = d.nblk
      /\ w_scale_q' = NoScales
      /\ sc_iss' = 0 /\ sc_cap' = 0 /\ beat_cnt' = 0
      /\ rd_v' = FALSE /\ busy' = TRUE /\ state' = "scale" /\ state = "idle"
      /\ words' = words /\ fed' = fed /\ image' = image
  BY <1>1 DEF Load, packer
<1>3. Len(image.descs) \in Nat /\ issued \in Nat /\ Len(fed) = issued
  BY <1>2, ImageCounts DEF FeedInv
<1>4. issued + 1 \in 1 .. Len(image.descs)
  BY <1>1, <1>3
<1>5. PICK i, l : Pairs(model, i, l) /\ Describes(model, i, l, d, words)
  BY <1>1, <1>4, ImageDescribes
<1> HIDE DEF d
<1>6. ns' \in Nat
  BY <1>2, <1>5 DEF ns, Describes
<1>7. ScaleState'
  <2>2. ScalesIn(w_scale_q', words', base_q', 0)
    BY <1>2 DEF ScalesIn, NoScales
  <2>3. sc_iss' = sc_cap' + Flag(rd_v') /\ sc_iss' \in Nat /\ sc_cap' \in Nat /\ sc_iss' <= ns'
    <3>1. ~rd_v' /\ sc_iss' = 0 /\ sc_cap' = 0 /\ ns' \in Nat
      BY <1>2, <1>6
    <3>2. Flag(rd_v') = 0
      BY <3>1 DEF Flag
    <3> QED
      BY <3>1, <3>2
  <2>4. ScalesIn(w_scale_q', words', base_q', sc_cap')
    BY <1>2, <2>2
  <2>5. rd_v' \in BOOLEAN /\ ~rd_v' /\ beat_cnt' = 0
    BY <1>2
  <2> QED
    BY <2>3, <2>4, <2>5 DEF ScaleState
<1>8. issued' \in Nat /\ issued' <= Len(image'.descs) /\ issued' # 0
  BY <1>1, <1>2, <1>3
<1>9. Len(fed') = issued' - 1
  BY <1>1, <1>2, <1>3
<1>10. base_q' = image'.descs[issued'].base /\ klen_q' = image'.descs[issued'].k_len /\ nblk_q' = image'.descs[issued'].nblk
  BY <1>1, <1>2 DEF d
<1>11. /\ fed' \in Seq(Range(fed'))
       /\ \A c \in 1 .. Len(fed') : Gives(image'.descs[c], fed'[c], words')
       /\ \A c \in 1 .. Len(fed') : Len(fed'[c].rows) = fed'[c].k_len
  BY <1>2 DEF FeedInv
<1> QED
  BY <1>2, <1>7, <1>8, <1>9, <1>10, <1>11 DEF FeedInv

LEMMA ScaleStep ==
  ASSUME PackerInv, FeedInv, ReadScales, UNCHANGED << packer, issued, restarts >>
  PROVE  FeedInv'
<1> DEFINE d == image.descs[issued]
           np == NB * PE_N
<1>1. /\ state = "scale" /\ Capture
      /\ \/ /\ sc_iss < ns /\ mem_data' = words[base_q + sc_iss + 1]
            /\ rd_v' = TRUE /\ rd_slot' = sc_iss /\ sc_iss' = sc_iss + 1
         \/ /\ ~(sc_iss < ns) /\ rd_v' = FALSE /\ sc_iss' = sc_iss
      /\ state' = IF sc_cap = ns THEN "start" ELSE "scale"
      /\ words' = words /\ base_q' = base_q /\ klen_q' = klen_q /\ nblk_q' = nblk_q
      /\ beat_cnt' = beat_cnt /\ busy' = busy /\ fed' = fed /\ image' = image /\ issued' = issued
  BY DEF ReadScales, Request, NoRequest, descriptor, packer
<1>2. /\ issued \in 1 .. Len(image.descs) /\ base_q \in Nat /\ ns \in Nat /\ ns <= np /\ np \in Nat
  BY <1>1, UnderWay DEF Loading
<1>3. /\ sc_iss \in Nat /\ sc_cap \in Nat /\ sc_iss <= ns /\ sc_iss = sc_cap + Flag(rd_v)
      /\ rd_v \in BOOLEAN /\ (rd_v => rd_slot = sc_cap /\ mem_data = words[base_q + sc_cap + 1])
      /\ ScalesIn(w_scale_q, words, base_q, sc_cap) /\ beat_cnt = 0
  BY <1>1 DEF FeedInv, ScaleState
<1>4. ns' = ns
  BY <1>1 DEF ns
<1>5. sc_cap' = sc_iss /\ ScalesIn(w_scale_q', words', base_q', sc_iss) /\ (sc_cap = ns => sc_iss = ns)
  <2>1. CASE rd_v
    <3>1. /\ w_scale_q' = [w_scale_q EXCEPT ![rd_slot] = mem_data % 2^16] /\ sc_cap' = sc_cap + 1
      BY <1>1, <2>1 DEF Capture
    <3>2. sc_iss = sc_cap + 1 /\ rd_slot = sc_cap /\ mem_data = words[base_q + sc_cap + 1]
      BY <1>3, <2>1 DEF Flag
    <3>3. sc_cap \in 0 .. np - 1 /\ sc_cap # ns
      BY <1>2, <1>3, <3>2
    <3>4. DOMAIN w_scale_q = 0 .. np - 1
          /\ \A x \in 0 .. np - 1 : w_scale_q[x] = IF x < sc_cap THEN words[base_q + x + 1] % 2^16 ELSE 0
      BY <1>3 DEF ScalesIn
    <3> HIDE DEF np
    <3>5. DOMAIN w_scale_q' = 0 .. np - 1
      BY <3>1, <3>4
    <3>6. ASSUME NEW x \in 0 .. np - 1
          PROVE  w_scale_q'[x] = IF x < sc_iss THEN words[base_q + x + 1] % 2^16 ELSE 0
      <4>1. CASE x = sc_cap
        <5>1. w_scale_q'[x] = mem_data % 2^16
          BY <3>1, <3>2, <3>4, <4>1
        <5>2. x < sc_iss
          BY <1>3, <3>2, <4>1
        <5> QED
          BY <3>2, <4>1, <5>1, <5>2
      <4>2. CASE x # sc_cap
        <5>1. w_scale_q'[x] = w_scale_q[x]
          BY <3>1, <3>2, <3>4, <4>2
        <5>2. x < sc_iss <=> x < sc_cap
          BY <1>2, <1>3, <3>2, <4>2
        <5> QED
          BY <3>4, <5>1, <5>2
      <4> QED
        BY <4>1, <4>2
    <3> QED
      BY <1>1, <3>1, <3>2, <3>3, <3>5, <3>6 DEF ScalesIn, np
  <2>2. CASE ~rd_v
    <3>1. sc_iss = sc_cap
      BY <1>3, <2>2 DEF Flag
    <3>2. w_scale_q' = w_scale_q /\ sc_cap' = sc_cap
      BY <1>1, <2>2 DEF Capture
    <3> QED
      BY <1>1, <1>3, <3>1, <3>2
  <2> QED
    BY <1>3, <2>1, <2>2
<1>6. state' = "scale" => ScaleState'
  <2>1. CASE sc_iss < ns
    <3>1. /\ mem_data' = words[base_q + sc_iss + 1] /\ rd_v' = TRUE /\ rd_slot' = sc_iss /\ sc_iss' = sc_iss + 1
      BY <1>1, <2>1
    <3>2. sc_iss + 1 <= ns /\ sc_iss + 1 \in Nat /\ Flag(TRUE) = 1
      BY <1>2, <1>3, <2>1 DEF Flag
    <3> QED
      BY <1>1, <1>3, <1>4, <1>5, <3>1, <3>2 DEF ScaleState
  <2>2. CASE ~(sc_iss < ns)
    <3>1. rd_v' = FALSE /\ sc_iss' = sc_iss /\ sc_iss = sc_iss + Flag(FALSE)
      BY <1>1, <1>3, <2>2 DEF Flag
    <3> QED
      BY <1>1, <1>3, <1>4, <1>5, <3>1 DEF ScaleState
  <2> QED
    BY <2>1, <2>2
<1>7. state' = "start" => ScalesIn(w_scale_q', words', base_q', ns') /\ beat_cnt' = 0
  <2> SUFFICES ASSUME state' = "start" PROVE ScalesIn(w_scale_q', words', base_q', ns') /\ beat_cnt' = 0
    OBVIOUS
  <2>1. sc_cap = ns
    BY <1>1
  <2>2. sc_iss = ns
    BY <1>5, <2>1
  <2> QED
    BY <1>1, <1>3, <1>4, <1>5, <2>2
<1>8. state' \in {"scale", "start"}
  BY <1>1
<1>9. /\ issued \in Nat /\ issued <= Len(image.descs) /\ fed \in Seq(Range(fed))
      /\ busy \in BOOLEAN /\ busy /\ Len(fed) = issued - 1 /\ issued # 0
      /\ base_q = d.base /\ klen_q = d.k_len /\ nblk_q = d.nblk
      /\ \A c \in 1 .. Len(fed) : Gives(image.descs[c], fed[c], words)
      /\ \A c \in 1 .. Len(fed) : Len(fed[c].rows) = fed[c].k_len
  BY <1>1 DEF FeedInv
<1> QED
  BY <1>1, <1>6, <1>7, <1>8, <1>9 DEF FeedInv

LEMMA StartStep ==
  ASSUME PackerInv, FeedInv, StartMatmul, UNCHANGED << packer, issued, restarts >>
  PROVE  FeedInv'
<1> DEFINE d == image.descs[issued]
           t == [scales |-> w_scale_q, k_len |-> klen_q, rows |-> << >>]
           L == Len(fed)
           B == Range(fed) \cup {t}
<1>1. /\ state = "start" /\ mem_data' = words[code_base + 1] /\ code_pending' = TRUE /\ cd_iss' = 1
      /\ fed' = Append(fed, t) /\ state' = "stream"
      /\ words' = words /\ base_q' = base_q /\ klen_q' = klen_q /\ nblk_q' = nblk_q
      /\ beat_cnt' = beat_cnt /\ busy' = busy /\ image' = image /\ issued' = issued
  BY DEF StartMatmul, Request, descriptor, packer
<1>2. /\ issued \in 1 .. Len(image.descs) /\ base_q \in Nat /\ ns \in Nat /\ klen_q \in Nat \ {0}
      /\ base_q = d.base /\ klen_q = d.k_len /\ nblk_q = d.nblk /\ Len(image.descs) \in Nat
  BY <1>1, UnderWay DEF Loading
<1>3. /\ ScalesIn(w_scale_q, words, base_q, ns) /\ beat_cnt = 0
      /\ fed \in Seq(Range(fed)) /\ busy \in BOOLEAN /\ busy /\ L = issued - 1
      /\ \A c \in 1 .. L : Gives(image.descs[c], fed[c], words)
      /\ \A c \in 1 .. L : Len(fed[c].rows) = fed[c].k_len
  BY <1>1 DEF FeedInv
<1>4. ns = d.nblk * PE_N
  BY <1>2 DEF ns
<1> HIDE DEF d
<1>5. t.rows = << >> /\ Len(t.rows) = 0 /\ t.rows \in Seq(Range(t.rows)) /\ 1 .. Len(t.rows) = {}
      /\ t.scales = w_scale_q /\ t.k_len = klen_q
      /\ t = [scales |-> t.scales, k_len |-> t.k_len, rows |-> t.rows]
  <2>1. << >> \in Seq(Range(<< >>)) /\ Len(<< >>) = 0 /\ 1 .. 0 = {}
    BY EmptySeq
  <2> QED
    BY <2>1
<1> HIDE DEF t
<1>6. Gives(d, t, words)
  <2>1. \A x \in 0 .. NB * PE_N - 1 :
          t.scales[x] = IF x < d.nblk * PE_N THEN words[d.base + x + 1] % 2^16 ELSE 0
    BY <1>2, <1>3, <1>4, <1>5 DEF ScalesIn
  <2>2. t.k_len = d.k_len /\ Len(t.rows) <= d.k_len
    BY <1>2, <1>5
  <2> QED
    BY <1>5, <2>1, <2>2 DEF Gives
<1>7. fed \in Seq(B) /\ t \in B
  BY <1>3, SeqMonotonic
<1> HIDE DEF B
<1>8. /\ fed' \in Seq(B) /\ Len(fed') = L + 1 /\ (\A c \in 1 .. L : fed'[c] = fed[c]) /\ fed'[L + 1] = t
  BY <1>1, <1>7, AppendProperties
<1>9. fed' \in Seq(Range(fed'))
  <2> DEFINE f == fed'
  <2>1. f \in Seq(B)
    BY <1>8
  <2> HIDE DEF f
  <2>2. f \in Seq(Range(f))
    BY <2>1, SeqOfRange
  <2> QED
    BY <2>2 DEF f
<1>10. L + 1 = issued /\ L \in Nat
  BY <1>2, <1>3
<1> HIDE DEF L
<1>11. ASSUME NEW c \in 1 .. Len(fed') PROVE Gives(image'.descs[c], fed'[c], words')
  <2>1. CASE c = L + 1
    BY <1>1, <1>6, <1>8, <1>10, <2>1 DEF d
  <2>2. CASE c # L + 1
    <3>1. c \in 1 .. L
      BY <1>8, <1>10, <2>2
    <3> QED
      BY <1>1, <1>3, <1>8, <3>1
  <2> QED
    BY <2>1, <2>2
<1>12. ASSUME NEW c \in 1 .. Len(fed'), c < Len(fed') PROVE Len(fed'[c].rows) = fed'[c].k_len
  <2>1. c \in 1 .. L
    BY <1>8, <1>10, <1>12
  <2> QED
    BY <1>3, <1>8, <2>1
<1>13. StreamState'
  <2>1. code_base' = code_base /\ code_base \in Nat
    BY <1>1, <1>2 DEF code_base, ns
  <2>2. Len(fed'[issued'].rows) = 0
    BY <1>1, <1>5, <1>8, <1>10
  <2>3. words'[code_base' + 0 + 1] = mem_data'
    BY <1>1, <2>1
  <2> QED
    BY <1>1, <1>2, <1>3, <2>2, <2>3 DEF StreamState
<1>14. /\ issued' \in Nat /\ issued' <= Len(image'.descs) /\ issued' # 0 /\ Len(fed') = issued'
       /\ base_q' = image'.descs[issued'].base /\ klen_q' = image'.descs[issued'].k_len
       /\ nblk_q' = image'.descs[issued'].nblk
  BY <1>1, <1>2, <1>8, <1>10 DEF d
<1> QED
  BY <1>1, <1>3, <1>9, <1>11, <1>12, <1>13, <1>14 DEF FeedInv

LEMMA StreamStep ==
  ASSUME PackerInv, FeedInv, Stream, UNCHANGED << packer, issued, restarts >>
  PROVE  FeedInv'
<1> DEFINE d == image.descs[issued]
           t == fed[issued]
           u == fed'[issued]
           L == Len(fed)
<1>1. /\ state = "stream"
      /\ words' = words /\ base_q' = base_q /\ klen_q' = klen_q /\ nblk_q' = nblk_q
      /\ busy' = busy /\ image' = image /\ issued' = issued
  BY DEF Stream, descriptor, packer
<1>2. /\ issued \in 1 .. Len(image.descs) /\ base_q \in Nat /\ ns \in Nat /\ klen_q \in Nat \ {0}
      /\ base_q = d.base /\ klen_q = d.k_len /\ nblk_q = d.nblk /\ Len(image.descs) \in Nat
  BY <1>1, UnderWay DEF Loading
<1>3. /\ fed \in Seq(Range(fed)) /\ busy \in BOOLEAN /\ busy /\ L = issued
      /\ \A c \in 1 .. L : Gives(image.descs[c], fed[c], words)
      /\ \A c \in 1 .. L : c < L => Len(fed[c].rows) = fed[c].k_len
      /\ code_pending /\ beat_cnt \in Nat /\ beat_cnt < klen_q /\ cd_iss = beat_cnt + 1
      /\ mem_data = words[code_base + beat_cnt + 1]
      /\ Len(t.rows) = beat_cnt
  BY <1>1 DEF FeedInv, StreamState
<1>4. ns = d.nblk * PE_N /\ code_base = base_q + ns /\ code_base' = code_base
  BY <1>1, <1>2 DEF ns, code_base
<1>5. in_valid
  BY <1>1, <1>3 DEF in_valid
<1>6. /\ beat_cnt' = beat_cnt + 1 /\ fed' = [fed EXCEPT ![L].rows = Append(@, mem_data)]
      /\ state' = IF beat_cnt = klen_q - 1 THEN "done" ELSE "stream"
  BY <1>5 DEF Stream
<1>7. cd_iss < klen_q => mem_data' = words[code_base + cd_iss + 1] /\ code_pending' = TRUE /\ cd_iss' = cd_iss + 1
  BY DEF Stream, Request
<1>8. L \in 1 .. L /\ L \in Nat /\ DOMAIN fed = 1 .. L
  <2>1. DOMAIN fed = 1 .. L /\ L \in Nat
    BY <1>3, LenProperties
  <2> QED
    BY <1>2, <1>3, <2>1
<1> HIDE DEF L
<1>9. /\ u = [t EXCEPT !.rows = Append(@, mem_data)]
      /\ \A c \in 1 .. L : c # issued => fed'[c] = fed[c]
      /\ fed' = [c \in 1 .. L |-> fed'[c]]
  BY <1>3, <1>6, <1>8
<1> HIDE DEF u
<1>10. fed' \in Seq(Range(fed')) /\ Len(fed') = L
  <2> DEFINE f == fed'
  <2>1. f = [c \in 1 .. L |-> f[c]]
    BY <1>9
  <2> HIDE DEF f
  <2>2. f \in Seq(Range(f)) /\ Len(f) = L
    BY <1>8, <2>1, SeqOfFunction
  <2> QED
    BY <2>2 DEF f
<1>11. Gives(d, t, words)
  BY <1>3, <1>8
<1> HIDE DEF d, t
<1>12. Gives(d, u, words) /\ Len(u.rows) = beat_cnt + 1 /\ u.k_len = klen_q
  <2>1. d.k_len \in Nat /\ Len(t.rows) < d.k_len
    BY <1>2, <1>3
  <2>2. mem_data = words[d.base + d.nblk * PE_N + (Len(t.rows) + 1)]
    <3>1. code_base + beat_cnt + 1 = d.base + d.nblk * PE_N + (Len(t.rows) + 1)
      BY <1>2, <1>3, <1>4
    <3> QED
      BY <1>3, <3>1
  <2>3. Gives(d, u, words) /\ Len(u.rows) = Len(t.rows) + 1 /\ u.k_len = t.k_len
    BY <1>9, <1>11, <2>1, <2>2, GivesMore
  <2>4. t.k_len = d.k_len
    BY <1>11 DEF Gives
  <2> QED
    BY <1>2, <1>3, <2>3, <2>4
<1>13. ASSUME NEW c \in 1 .. Len(fed') PROVE Gives(image'.descs[c], fed'[c], words')
  <2>1. CASE c = issued
    BY <1>1, <1>12, <2>1 DEF d, u
  <2>2. CASE c # issued
    <3>1. fed'[c] = fed[c] /\ Gives(image.descs[c], fed[c], words)
      BY <1>3, <1>9, <1>10, <2>2
    <3> QED
      BY <1>1, <3>1
  <2> QED
    BY <2>1, <2>2
<1>14. ASSUME NEW c \in 1 .. Len(fed'), c < Len(fed') \/ state' # "stream"
       PROVE  Len(fed'[c].rows) = fed'[c].k_len
  <2>1. CASE c = issued
    <3>1. state' # "stream"
      BY <1>3, <1>8, <1>10, <1>14, <2>1
    <3>2. beat_cnt = klen_q - 1
      BY <1>6, <3>1
    <3>3. beat_cnt + 1 = klen_q
      BY <1>2, <3>2
    <3> QED
      BY <1>12, <2>1, <3>3 DEF u
  <2>2. CASE c # issued
    <3>1. c < L /\ c \in 1 .. L
      BY <1>3, <1>8, <1>10, <2>2
    <3> QED
      BY <1>3, <1>9, <2>2, <3>1
  <2> QED
    BY <2>1, <2>2
<1>15. state' = "stream" => StreamState'
  <2> SUFFICES ASSUME state' = "stream" PROVE StreamState'
    OBVIOUS
  <2>1. beat_cnt # klen_q - 1
    BY <1>6
  <2>2. beat_cnt + 1 < klen_q /\ cd_iss < klen_q
    BY <1>2, <1>3, <2>1
  <2>3. mem_data' = words[code_base + (beat_cnt + 1) + 1] /\ code_pending' = TRUE /\ cd_iss' = (beat_cnt + 1) + 1
    BY <1>3, <1>7, <2>2
  <2>4. Len(fed'[issued'].rows) = beat_cnt + 1
    BY <1>1, <1>12 DEF u
  <2>5. beat_cnt' \in Nat /\ beat_cnt' < klen_q'
    BY <1>1, <1>3, <1>6, <2>2
  <2>6. code_pending'
    BY <2>3
  <2> QED
    BY <1>1, <1>4, <1>6, <2>3, <2>4, <2>5, <2>6 DEF StreamState
<1>16. /\ issued' \in Nat /\ issued' <= Len(image'.descs) /\ issued' # 0 /\ Len(fed') = issued'
       /\ base_q' = image'.descs[issued'].base /\ klen_q' = image'.descs[issued'].k_len
       /\ nblk_q' = image'.descs[issued'].nblk
  BY <1>1, <1>2, <1>3, <1>10 DEF d
<1>17. state' \in {"stream", "done"} /\ busy' \in BOOLEAN /\ busy'
  BY <1>1, <1>3, <1>6
<1> QED
  BY <1>10, <1>13, <1>14, <1>15, <1>16, <1>17 DEF FeedInv

LEMMA DoneStep ==
  ASSUME PackerInv, FeedInv, Done, UNCHANGED << packer, issued, restarts >>
  PROVE  FeedInv'
<1>1. /\ state = "done" /\ busy' = FALSE /\ state' = "idle" /\ words' = words /\ fed' = fed
      /\ image' = image /\ issued' = issued
  BY DEF Done, packer
<1>2. /\ issued \in Nat /\ issued <= Len(image.descs) /\ fed \in Seq(Range(fed)) /\ Len(fed) = issued
      /\ \A c \in 1 .. Len(fed) : Gives(image.descs[c], fed[c], words)
      /\ \A c \in 1 .. Len(fed) : Len(fed[c].rows) = fed[c].k_len
  BY <1>1 DEF FeedInv
<1> QED
  BY <1>1, <1>2 DEF FeedInv

LEMMA ResetStep ==
  ASSUME PackerInv, FeedInv, ResetLoader
  PROVE  FeedInv'
<1>1. /\ state' = "idle" /\ busy' = FALSE /\ words' = words /\ image' = image
      /\ fed' = IF state \in {"stream", "done"} THEN Front(fed) ELSE fed
      /\ issued' = IF busy THEN issued - 1 ELSE issued
  BY DEF ResetLoader, LoaderReset, packer
<1>2. /\ issued \in Nat /\ issued <= Len(image.descs) /\ fed \in Seq(Range(fed))
      /\ state \in {"idle", "scale", "start", "stream", "done"}
      /\ (busy <=> state # "idle") /\ (state # "idle" => issued # 0)
      /\ Len(fed) = IF state \in {"scale", "start"} THEN issued - 1 ELSE issued
      /\ \A c \in 1 .. Len(fed) : Gives(image.descs[c], fed[c], words)
      /\ \A c \in 1 .. Len(fed) : (c < Len(fed) \/ state # "stream") => Len(fed[c].rows) = fed[c].k_len
  BY DEF FeedInv
<1>3. Len(image.descs) \in Nat
  BY ImageCounts
<1>4. issued' \in Nat /\ issued' <= Len(image.descs)
  <2>1. CASE busy
    BY <1>1, <1>2, <1>3, <2>1
  <2>2. CASE ~busy
    BY <1>1, <1>2, <2>2
  <2> QED
    BY <2>1, <2>2
<1>5. CASE state \in {"stream", "done"}
  <2> DEFINE L == Len(fed) - 1
             f == fed'
  <2>1. f = SubSeq(fed, 1, L) /\ issued' = issued - 1 /\ Len(fed) = issued /\ issued # 0
    BY <1>1, <1>2, <1>5 DEF Front
  <2>2. L \in Nat /\ L + 1 = Len(fed) /\ L = issued'
    BY <1>2, <2>1
  <2> HIDE DEF f, L
  <2>3. \A c \in 1 .. L : fed[c] \in Range(fed)
    <3> SUFFICES ASSUME NEW c \in 1 .. L PROVE fed[c] \in Range(fed)
      OBVIOUS
    <3>1. c \in 1 .. Len(fed)
      BY <2>2
    <3> QED
      BY <1>2, <3>1, ElementOfSeq
  <2>4. f \in Seq(Range(fed)) /\ Len(f) = L /\ \A c \in 1 .. L : f[c] = fed[c]
    BY <1>2, <2>1, <2>2, <2>3, SubSeqProperties
  <2>5. f \in Seq(Range(f))
    BY <2>4, SeqOfRange
  <2>6. \A c \in 1 .. L : c \in 1 .. Len(fed) /\ c < Len(fed)
    BY <2>2
  <2>7. /\ \A c \in 1 .. Len(f) : Gives(image.descs[c], f[c], words)
        /\ \A c \in 1 .. Len(f) : Len(f[c].rows) = f[c].k_len
    BY <1>2, <2>4, <2>6
  <2> QED
    BY <1>1, <1>4, <2>2, <2>4, <2>5, <2>7 DEF FeedInv, f
<1>6. CASE state \in {"idle", "scale", "start"}
  <2>1. fed' = fed /\ Len(fed) = issued'
    BY <1>1, <1>2, <1>6
  <2>2. /\ \A c \in 1 .. Len(fed) : Gives(image.descs[c], fed[c], words)
        /\ \A c \in 1 .. Len(fed) : Len(fed[c].rows) = fed[c].k_len
    BY <1>2, <1>6
  <2> QED
    BY <1>1, <1>2, <1>4, <2>1, <2>2 DEF FeedInv
<1> QED
  BY <1>2, <1>5, <1>6

LEMMA PathStarts ==
  ASSUME PathInit \/ PathIdle
  PROVE  PathInv
<1>1. PathReset /\ WellFormed(model)
  <2>1. CASE PathInit
    BY <2>1, ModelAssumption DEF PathInit
  <2>2. CASE PathIdle
    <3>1. model = << >> /\ PathReset
      BY <2>2 DEF PathIdle
    <3>2. << >> \in Seq(Range(<< >>)) /\ DOMAIN << >> = {}
      <4>1. << >> \in Seq(Range(<< >>)) /\ Len(<< >>) = 0 /\ 1 .. 0 = {}
        BY EmptySeq
      <4> QED
        BY <4>1, LenProperties
    <3>3. WellFormed(<< >>)
      BY <3>2 DEF WellFormed
    <3> QED
      BY <3>1, <3>3
  <2> QED
    BY <2>1, <2>2
<1>2. /\ step = "save" /\ image = EmptyImage /\ packed = 0 /\ issued = 0
      /\ state = "idle" /\ busy = FALSE /\ fed = << >>
  BY <1>1 DEF PathReset, LoaderInit
<1>3. PackerInv
  BY <1>1, <1>2 DEF PackerInv, Steps
<1>4. FeedInv
  BY <1>2, <1>3, ImageCounts, QuietFeed
<1> QED
  BY <1>3, <1>4 DEF PathInv

LEMMA PathSteps ==
  ASSUME PathInv, PathNext
  PROVE  PathInv'
<1>0. PackerInv /\ FeedInv
  BY DEF PathInv
<1>1. CASE SaveFile \/ ReadFile \/ Classify \/ PackNext \/ WriteImage \/ CheckImage
  <2>1. PackerInv'
    BY <1>0, <1>1, PackerStep
  <2>2. /\ step # "ok" /\ state' = state /\ busy' = busy /\ fed' = fed /\ issued' = issued
    <3> HIDE DEF unpack_image, roundtrip_check
    <3> QED
      BY <1>1 DEF SaveFile, ReadFile, Classify, PackNext, WriteImage, CheckImage, loaderVars, loader
  <2>3. state' = "idle" /\ busy' = FALSE /\ fed' = << >> /\ issued' = 0
    BY <1>0, <2>2 DEF PackerInv
  <2>4. Len(image'.descs) \in Nat
    <3>1. (PackerInv => image.descs \in Seq(Range(image.descs)) /\ Len(image.descs) \in Nat)'
      BY ImageCounts, PTL
    <3> QED
      BY <2>1, <3>1
  <2>5. FeedInv'
    <3>1. ((state = "idle" /\ busy = FALSE /\ fed = << >> /\ issued = 0 /\ Len(image.descs) \in Nat) => FeedInv)'
      BY QuietFeed, PTL
    <3> QED
      BY <2>3, <2>4, <3>1
  <2> QED
    BY <2>1, <2>5 DEF PathInv
<1>2. ASSUME step = "ok", UNCHANGED << packer, words >> PROVE PackerInv'
  BY <1>0, <1>2 DEF PackerInv, packer
<1>3. CASE IssueTile
  <2>1. step = "ok" /\ UNCHANGED << packer, words >>
    BY <1>3 DEF IssueTile, Load
  <2> QED
    BY <1>0, <1>2, <1>3, <2>1, IssueStep DEF PathInv
<1>4. CASE ResetLoader
  <2>1. step = "ok" /\ UNCHANGED << packer, words >>
    BY <1>4 DEF ResetLoader, LoaderReset
  <2> QED
    BY <1>0, <1>2, <1>4, <2>1, ResetStep DEF PathInv
<1>5. CASE LoaderClock
  <2>1. Clock /\ UNCHANGED << packer, issued, restarts >>
    BY <1>5 DEF LoaderClock
  <2>2. state # "idle" /\ UNCHANGED words
    BY <2>1 DEF Clock, ReadScales, StartMatmul, Stream, Done
  <2>3. step = "ok" /\ UNCHANGED << packer, words >>
    BY <1>0, <2>1, <2>2, UnderWay
  <2>4. FeedInv'
    BY <1>0, <2>1, ScaleStep, StartStep, StreamStep, DoneStep DEF Clock
  <2> QED
    BY <1>2, <2>3, <2>4 DEF PathInv
<1> QED
  BY <1>1, <1>3, <1>4, <1>5 DEF PathNext

LEMMA PathStays ==
  ASSUME PathInv, UNCHANGED pathVars
  PROVE  PathInv'
<1>1. /\ model' = model /\ step' = step /\ file' = file /\ tensors' = tensors /\ loaded' = loaded
      /\ image' = image /\ packed' = packed /\ issued' = issued /\ words' = words
      /\ state' = state /\ base_q' = base_q /\ klen_q' = klen_q /\ nblk_q' = nblk_q
      /\ w_scale_q' = w_scale_q /\ sc_iss' = sc_iss /\ sc_cap' = sc_cap /\ rd_v' = rd_v /\ rd_slot' = rd_slot
      /\ cd_iss' = cd_iss /\ beat_cnt' = beat_cnt /\ code_pending' = code_pending /\ mem_data' = mem_data
      /\ busy' = busy /\ fed' = fed
  BY DEF pathVars, packer, loaderVars, loader
<1>2. PackerInv'
  BY <1>1 DEF PathInv, PackerInv
<1>3. ns' = ns /\ code_base' = code_base
  BY <1>1 DEF ns, code_base
<1>4. ScaleState' <=> ScaleState
  BY <1>1, <1>3 DEF ScaleState
<1>5. StreamState' <=> StreamState
  BY <1>1, <1>3 DEF StreamState
<1>6. FeedInv
  BY DEF PathInv
<1>7. FeedInv'
  BY <1>1, <1>3, <1>4, <1>5, <1>6 DEF FeedInv
<1> QED
  BY <1>2, <1>7 DEF PathInv

LEMMA PathInvariant == MCSpec => []PathInv
<1>1. MCInit => PathInv
  BY PathStarts DEF MCInit
<1>2. PathInv /\ [MCNext]_mcVars => PathInv'
  <2> SUFFICES ASSUME PathInv, [MCNext]_mcVars PROVE PathInv'
    OBVIOUS
  <2>1. PathNext \/ UNCHANGED pathVars
    BY DEF MCNext, CompressedDoes, PackedDoes, mcVars
  <2> QED
    BY <2>1, PathSteps, PathStays
<1> QED
  BY <1>1, <1>2, PTL DEF MCSpec

(* The matmul is given the checkpoint's own numbers: row by row every      *)
(* column's code in its lane, every block's scale in its slot, zeros       *)
(* elsewhere, and whole tiles, through serialisation, packing, the tile    *)
(* loads and the loader's resets.                                          *)
THEOREM AlwaysMatmulGetsCheckpoint == MCSpec => []MatmulGetsCheckpoint
<1>1. PathInv => MatmulGetsCheckpoint
  <2> SUFFICES ASSUME PathInv PROVE MatmulGetsCheckpoint
    OBVIOUS
  <2>0. PackerInv /\ FeedInv
    BY DEF PathInv
  <2>1. fed \in Seq(Range(fed)) /\ DOMAIN fed = 1 .. Len(fed) /\ Len(fed) \in Nat
    <3>1. fed \in Seq(Range(fed))
      BY <2>0 DEF FeedInv
    <3> QED
      BY <3>1, LenProperties
  <2>2. ASSUME NEW c \in 1 .. Len(fed)
        PROVE  /\ FedTile(image.descs[c], fed[c])
               /\ (c < Len(fed) \/ ~busy) => Len(fed[c].rows) = fed[c].k_len
    <3>1. step = "ok"
      <4>1. fed # << >>
        BY <2>2, EmptySeq
      <4> QED
        BY <2>0, <4>1 DEF PackerInv
    <3>2. Len(image.descs) \in Nat
      BY <2>0, ImageCounts
    <3>3. c \in 1 .. Len(image.descs)
      BY <2>0, <2>1, <3>2 DEF FeedInv
    <3>4. PICK i, l : Pairs(model, i, l) /\ Describes(model, i, l, image.descs[c], words)
      BY <2>0, <3>1, <3>3, ImageDescribes
    <3>5. Gives(image.descs[c], fed[c], words) /\ WellFormed(model)
      BY <2>0 DEF FeedInv, PackerInv
    <3>6. FedTile(image.descs[c], fed[c])
      BY <3>4, <3>5, FedIsRight
    <3>7. (c < Len(fed) \/ ~busy) => Len(fed[c].rows) = fed[c].k_len
      BY <2>0 DEF FeedInv
    <3> QED
      BY <3>6, <3>7
  <2> QED
    BY <2>1, <2>2 DEF MatmulGetsCheckpoint
<1> QED
  BY <1>1, PathInvariant, PTL

(* The self-test: an image unpacked again is the weight that was packed.   *)
TilesOf(w, ds, vs) ==
  /\ ds \in Seq(Range(ds))
  /\ \A y \in 1 .. Len(ds) : ds[y].name = w.name => InMemory(vs, ds[y], w)
  /\ \A ct \in 0 .. Ceil(w.N, PE_N) - 1 :
       \E y \in 1 .. Len(ds) : ds[y].name = w.name /\ ds[y].col0 = ct * PE_N

LEMMA TileOfColumn ==
  ASSUME NEW w, w.N \in Nat \ {0}, NEW n \in 0 .. w.N - 1
  PROVE  \E ct \in 0 .. Ceil(w.N, PE_N) - 1 : ct * PE_N \in Nat /\ n - ct * PE_N \in 0 .. PE_N - 1
<1> DEFINE q == n \div PE_N
           e == n % PE_N
           z == q * PE_N
<1>1. PE_N \in Nat \ {0} /\ n \in Nat /\ w.N \in Nat /\ n < w.N
  BY LayoutAssumption
<1>2. q \in 0 .. Ceil(w.N, PE_N) - 1
  BY <1>1, CeilIs
<1>3. q \in Nat /\ e \in 0 .. PE_N - 1 /\ n = PE_N * q + e
  BY <1>1, Division
<1> HIDE DEF q, e
<1>4. z \in Nat /\ z = PE_N * q
  BY <1>1, <1>3
<1> HIDE DEF z
<1>5. z \in Nat /\ n - z \in 0 .. PE_N - 1
  BY <1>1, <1>3, <1>4
<1> QED
  BY <1>2, <1>5 DEF z

LEMMA UnpackIs ==
  ASSUME NEW m, NEW i, NEW l, NEW w, Says(m, i, l, w), NEW ds, NEW vs, TilesOf(w, ds, vs)
  PROVE  roundtrip_check(w, unpack_image(vs, ds, w.name))
<1> DEFINE T == {y \in DOMAIN ds : ds[y].name = w.name}
           first == ds[Min(T)]
           Cols == {ds[y].col0 : y \in T}
           N == Max(Cols) + PE_N
           nt == Ceil(w.N, PE_N)
           kb == Ceil(w.K, BLK)
           Near(col, y) == col - ds[y].col0 \in 0 .. PE_N - 1
           tile_(col) == ds[CHOOSE y \in T : Near(col, y)]
           word(col, at) == vs[tile_(col).base + at + 1]
           u == unpack_image(vs, ds, w.name)
<1>1. /\ w.N \in Nat \ {0} /\ w.N \in Nat /\ w.K \in 1 .. KMAX /\ w.K \in Nat \ {0}
      /\ w.n_ob = Ceil(w.N, BLK) /\ w.n_kb = kb
      /\ w.N = m[i].shape[1] /\ w.K = m[i].shape[2] /\ m[l].shape[2] = w.n_kb
  BY LayoutAssumption DEF Says
<1>2. PE_N \in Nat \ {0} /\ BLK \in Nat \ {0} /\ nt \in Nat \ {0} /\ kb \in Nat \ {0}
  BY <1>1, TileSizeIs, LayoutAssumption
<1>3. DOMAIN ds = 1 .. Len(ds) /\ Len(ds) \in Nat
  BY LenProperties DEF TilesOf
<1>4. \A y \in T : InMemory(vs, ds[y], w)
  BY <1>3 DEF TilesOf
<1>5. \A ct \in 0 .. nt - 1 : \E y \in T : ds[y].col0 = ct * PE_N
  BY <1>3 DEF TilesOf
<1>6. T \in SUBSET Nat /\ T # {}
  <2>1. T \in SUBSET Nat
    BY <1>3
  <2>2. 0 \in 0 .. nt - 1
    BY <1>2
  <2> QED
    BY <1>5, <2>1, <2>2
<1>7. u = [N |-> N,
           fp8 |-> [col \in 1 .. N |-> [x \in 1 .. first.k_len |->
                      Lane(word(col - 1, first.nblk * PE_N + x - 1), col - 1 - tile_(col - 1).col0)]],
           scale |-> [ob \in 1 .. Ceil(N, BLK) |-> [x \in 1 .. first.nblk |->
                      word((ob - 1) * BLK, (x - 1) * PE_N + (ob - 1) * BLK - tile_((ob - 1) * BLK).col0) % 2^16]]]
  BY DEF unpack_image
<1> HIDE DEF u, T
<1>8. first.k_len = w.K /\ first.nblk = kb
  <2>1. Min(T) \in T
    <3>1. \E t \in T : \A x \in T : t <= x
      BY <1>6, LeastNumber
    <3> QED
      BY <3>1 DEF Min
  <2> QED
    BY <1>4, <2>1 DEF InMemory
<1>9. N \in Nat /\ w.N <= N
  <2> DEFINE top == (nt - 1) * PE_N
  <2>1. nt - 1 \in 0 .. nt - 1 /\ nt - 1 \in Nat
    BY <1>2
  <2>2. top \in Nat /\ top \in Cols
    <3>1. top \in Nat
      BY <1>2, <2>1
    <3>2. PICK y \in T : ds[y].col0 = (nt - 1) * PE_N
      BY <1>5, <2>1
    <3> QED
      BY <3>1, <3>2
  <2>3. \A c \in Cols : c \in Nat /\ top >= c
    <3> SUFFICES ASSUME NEW c \in Cols PROVE c \in Nat /\ top >= c
      OBVIOUS
    <3>1. PICK y \in T : c = ds[y].col0
      OBVIOUS
    <3>2. PICK ct \in 0 .. nt - 1 : c = ct * PE_N
      BY <1>4, <3>1 DEF InMemory
    <3>3. ct \in Nat /\ (nt - 1 - ct) \in Nat
      BY <1>2
    <3>4. ct * PE_N \in Nat /\ (nt - 1 - ct) * PE_N \in Nat /\ (nt - 1 - ct) * PE_N = (nt - 1) * PE_N - ct * PE_N
      BY <1>2, <3>3
    <3>5. c \in Nat /\ top - c >= 0
      BY <3>2, <3>4
    <3> HIDE DEF top
    <3> QED
      BY <2>2, <3>5
  <2> HIDE DEF top, Cols
  <2>4. Max(Cols) = top
    <3> DEFINE z == Max(Cols)
    <3>1. z \in Cols /\ \A c \in Cols : z >= c
      BY <2>2, <2>3 DEF Max
    <3> HIDE DEF z
    <3>2. z >= top /\ top >= z /\ z \in Nat
      BY <2>2, <2>3, <3>1
    <3> QED
      BY <2>2, <3>2 DEF z
  <2>5. nt * PE_N = top + PE_N /\ w.N <= nt * PE_N
    <3>1. nt * PE_N = (nt - 1) * PE_N + PE_N
      BY <1>2
    <3>2. w.N <= nt * PE_N
      BY <1>1, <1>2, CeilCovers
    <3> QED
      BY <3>1, <3>2 DEF top
  <2>6. N = nt * PE_N
    BY <2>4, <2>5
  <2> QED
    BY <1>2, <2>2, <2>5, <2>6
<1> HIDE DEF N, first, Cols
<1>10. ASSUME NEW col \in 0 .. w.N - 1
       PROVE  /\ col - tile_(col).col0 \in 0 .. PE_N - 1 /\ tile_(col).col0 \in Nat
              /\ Describes(m, i, l, tile_(col), vs)
              /\ tile_(col).k_len = w.K /\ tile_(col).nblk = kb
  <2>1. \E y \in T : Near(col, y)
    <3>1. PICK ct \in 0 .. nt - 1 : ct * PE_N \in Nat /\ col - ct * PE_N \in 0 .. PE_N - 1
      BY <1>1, TileOfColumn
    <3>2. PICK y \in T : ds[y].col0 = ct * PE_N
      BY <1>5
    <3> QED
      BY <3>1, <3>2
  <2> DEFINE y == CHOOSE x \in T : Near(col, x)
  <2>2. y \in T /\ Near(col, y)
    BY <2>1
  <2>3. tile_(col) = ds[y]
    OBVIOUS
  <2> HIDE DEF y
  <2>4. InMemory(vs, ds[y], w)
    BY <1>4, <2>2
  <2>5. Describes(m, i, l, ds[y], vs)
    BY <2>4, TileDescribes
  <2>6. ds[y].k_len = w.K /\ ds[y].nblk = kb
    BY <2>4 DEF InMemory
  <2>7. ds[y].col0 \in Nat
    BY <2>5 DEF Describes
  <2> QED
    BY <2>2, <2>3, <2>5, <2>6, <2>7
<1> HIDE DEF tile_
<1>11. kb * PE_N \in Nat
  BY <1>2
<1>12. ASSUME NEW c \in 1 .. w.N, NEW x \in 1 .. w.K PROVE u.fp8[c][x] = w.fp8[c][x]
  <2> DEFINE col == c - 1
             d == tile_(col)
             y == col - d.col0
  <2>1. col \in 0 .. w.N - 1 /\ col + 1 = c /\ x - 1 \in 0 .. w.K - 1 /\ (x - 1) + 1 = x /\ c \in 1 .. N
        /\ col \in Nat
    BY <1>1, <1>9
  <2> HIDE DEF col
  <2>2. /\ y \in 0 .. PE_N - 1 /\ d.col0 \in Nat /\ Describes(m, i, l, d, vs) /\ d.k_len = w.K /\ d.nblk = kb
    BY <1>10, <2>1
  <2> HIDE DEF d
  <2>3. u.fp8[c][x] = Lane(vs[d.base + (kb * PE_N + x - 1) + 1], y)
    BY <1>1, <1>7, <1>8, <2>1 DEF col, d
  <2>4. Lane(vs[d.base + d.nblk * PE_N + (x - 1) + 1], y) = CodeAt(m, i, d.col0 + y, x - 1)
    <3> HIDE DEF y
    <3> QED
      BY <2>1, <2>2 DEF Describes
  <2>5. d.base + (kb * PE_N + x - 1) + 1 = d.base + kb * PE_N + (x - 1) + 1
    <3>1. d.base \in Nat
      BY <2>2 DEF Describes
    <3> DEFINE kp == kb * PE_N
    <3>2. kp \in Nat
      BY <1>11
    <3> HIDE DEF kp
    <3>3. d.base + (kp + x - 1) + 1 = d.base + kp + (x - 1) + 1
      BY <1>1, <3>1, <3>2
    <3> QED
      BY <3>3 DEF kp
  <2>6. d.col0 + y = col
    BY <2>1, <2>2
  <2>7. u.fp8[c][x] = CodeAt(m, i, col, x - 1)
    BY <2>2, <2>3, <2>4, <2>5, <2>6
  <2>8. CodeAt(m, i, col, x - 1) = m[i].elts[col * w.K + (x - 1) + 1]
    BY <1>1, <2>1 DEF CodeAt
  <2>9. w.fp8[col + 1][(x - 1) + 1] = m[i].elts[col * w.K + (x - 1) + 1]
    BY <2>1 DEF Says
  <2> QED
    BY <2>1, <2>7, <2>8, <2>9
<1>13. ASSUME NEW ob \in 1 .. w.n_ob, NEW x \in 1 .. w.n_kb PROVE u.scale[ob][x] = w.scale[ob][x]
  <2> DEFINE q == ob - 1
             col == q * BLK
             d == tile_(col)
             y == col - d.col0
             xp == (x - 1) * PE_N
  <2>1. /\ w.n_ob \in Nat /\ q \in Nat /\ q < w.n_ob /\ q \in 0 .. w.n_ob - 1 /\ q + 1 = ob
        /\ x - 1 \in 0 .. kb - 1 /\ x - 1 \in 0 .. w.n_kb - 1 /\ (x - 1) + 1 = x /\ x - 1 \in Nat /\ x \in 1 .. kb
    <3>1. Ceil(w.N, BLK) \in Nat
      BY <1>1, <1>2, CeilIs
    <3> QED
      BY <1>1, <1>2, <3>1
  <2>2. ob \in 1 .. Ceil(N, BLK)
    <3>1. Ceil(w.N, BLK) <= Ceil(N, BLK) /\ Ceil(N, BLK) \in Nat
      BY <1>1, <1>2, <1>9, CeilGrows, CeilIs
    <3> QED
      BY <1>1, <2>1, <3>1
  <2>3. col \in Nat /\ col < w.N /\ col \div BLK = q
    <3>1. col < w.N
      <4> HIDE DEF q
      <4> QED
        BY <1>1, <1>2, <2>1, CeilIs
    <3>2. col \in Nat /\ col \div BLK = q
      <4>1. q \in Nat /\ BLK \in Nat \ {0}
        BY <1>2, <2>1
      <4> HIDE DEF q
      <4>2. q * BLK \in Nat
        BY <4>1
      <4> QED
        BY <4>1, <4>2, Cancel
    <3> QED
      BY <3>1, <3>2
  <2>4. col \in 0 .. w.N - 1
    <3> HIDE DEF col
    <3> QED
      BY <1>1, <2>3
  <2>5. u.scale[ob][x] = vs[d.base + (xp + col - d.col0) + 1] % 2^16
    BY <1>7, <1>8, <2>1, <2>2
  <2> HIDE DEF col, q
  <2>6. /\ y \in 0 .. PE_N - 1 /\ d.col0 \in Nat /\ Describes(m, i, l, d, vs) /\ d.k_len = w.K /\ d.nblk = kb
    BY <1>10, <2>4
  <2> HIDE DEF d
  <2>7. vs[d.base + (xp + y) + 1] % 2^16 = ScaleAt(m, i, l, d.col0 + y, x - 1)
    <3> HIDE DEF y
    <3> QED
      BY <2>1, <2>6 DEF Describes
  <2>8. xp + col - d.col0 = xp + y /\ d.col0 + y = col
    <3>1. xp \in Nat
      BY <1>2, <2>1
    <3> HIDE DEF xp
    <3> QED
      BY <2>3, <2>6, <3>1
  <2>9. u.scale[ob][x] = ScaleAt(m, i, l, col, x - 1)
    BY <2>5, <2>7, <2>8
  <2>10. ScaleAt(m, i, l, col, x - 1) = ScaleNumber(m[l], q * w.n_kb + (x - 1) + 1)
    BY <1>1, <2>3 DEF ScaleAt
  <2>11. w.scale[q + 1][(x - 1) + 1] = ScaleNumber(m[l], q * w.n_kb + (x - 1) + 1)
    BY <2>1 DEF Says
  <2> QED
    BY <2>1, <2>9, <2>10, <2>11
<1>14. roundtrip_check(w, u)
  BY <1>12, <1>13 DEF roundtrip_check
<1> QED
  BY <1>14 DEF u

LEMMA ImageTiles ==
  ASSUME PackerInv, step = "check", NEW c \in DOMAIN loaded
  PROVE  roundtrip_check(loaded[c], unpack_image(words, image.descs, loaded[c].name))
<1>1. /\ WellFormed(model) /\ LoadedFrom(model, loaded) /\ PackedUpTo(loaded, Len(loaded), image)
      /\ words = image.words
  BY DEF PackerInv
<1>2. /\ loaded \in Seq(Range(loaded))
      /\ \A x \in 1 .. Len(loaded) : \E i, l : Pairs(model, i, l) /\ Says(model, i, l, loaded[x])
  BY <1>1, LoadedSays
<1>3. DOMAIN loaded = 1 .. Len(loaded)
  BY <1>2, LenProperties
<1>4. PICK i, l : Pairs(model, i, l) /\ Says(model, i, l, loaded[c])
  BY <1>2, <1>3
<1>5. Loadable(loaded)
  BY <1>1, LoadedIsLoadable
<1> DEFINE w == loaded[c]
<1>6. TilesOf(w, image.descs, words)
  <2>1. image.descs \in Seq(Range(image.descs))
    BY <1>1 DEF PackedUpTo
  <2>2. ASSUME NEW y \in 1 .. Len(image.descs), image.descs[y].name = w.name
        PROVE  InMemory(words, image.descs[y], w)
    <3>1. PICK x \in 1 .. Len(loaded) : InMemory(words, image.descs[y], loaded[x])
      BY <1>1 DEF PackedUpTo
    <3>2. loaded[x].name = w.name
      BY <2>2, <3>1 DEF InMemory
    <3>3. x = c
      BY <1>3, <1>5, <3>2 DEF Loadable
    <3> QED
      BY <3>1, <3>3
  <2>3. \A ct \in 0 .. Ceil(w.N, PE_N) - 1 :
          \E y \in 1 .. Len(image.descs) : image.descs[y].name = w.name /\ image.descs[y].col0 = ct * PE_N
    BY <1>1, <1>3 DEF PackedUpTo
  <2> QED
    BY <2>1, <2>2, <2>3 DEF TilesOf
<1> HIDE DEF w
<1>7. Says(model, i, l, w)
  BY <1>4 DEF w
<1>8. roundtrip_check(w, unpack_image(words, image.descs, w.name))
  BY <1>6, <1>7, UnpackIs
<1> QED
  BY <1>8 DEF w

LEMMA NeverMismatched ==
  ASSUME PathInv, PathNext, step # "mismatch"
  PROVE  step' # "mismatch"
<1>1. CASE CheckImage
  <2>1. step = "check"
    BY <1>1 DEF CheckImage
  <2>2. \A c \in DOMAIN loaded :
          roundtrip_check(loaded[c], unpack_image(words, image.descs, loaded[c].name))
    BY <2>1, ImageTiles DEF PathInv
  <2>3. step' = IF \A c \in DOMAIN loaded :
                     roundtrip_check(loaded[c], unpack_image(words, image.descs, loaded[c].name))
                THEN "ok" ELSE "mismatch"
    BY <1>1 DEF CheckImage
  <2>4. step' = "ok"
    <3> HIDE DEF roundtrip_check, unpack_image
    <3> QED
      BY <2>2, <2>3
  <2> QED
    BY <2>4
<1>2. CASE SaveFile \/ ReadFile \/ Classify \/ PackNext \/ WriteImage
  BY <1>2 DEF SaveFile, ReadFile, Classify, PackNext, WriteImage
<1>3. CASE IssueTile \/ ResetLoader \/ LoaderClock
  BY <1>3 DEF IssueTile, ResetLoader, LoaderClock, packer
<1> QED
  BY <1>1, <1>2, <1>3 DEF PathNext

(* Every output column is in one tile, and nothing else is packed.         *)
LEMMA ColumnsAreCovered ==
  ASSUME PackerInv, step = "check", NEW i \in DOMAIN model,
         NEW T, T = {y \in DOMAIN image.descs : image.descs[y].name = Name(model[i])}
  PROVE  IF IsFp8(model[i])
         THEN \A n \in 0 .. model[i].shape[1] - 1 :
                \E y \in T : /\ n - image.descs[y].col0 \in 0 .. PE_N - 1
                             /\ \A x \in T \ {y} : n - image.descs[x].col0 \notin 0 .. PE_N - 1
         ELSE T = {}
<1> DEFINE ds == image.descs
<1>1. /\ WellFormed(model) /\ LoadedFrom(model, loaded) /\ PackedUpTo(loaded, Len(loaded), image)
      /\ words = image.words
  BY DEF PackerInv
<1>2. DOMAIN model = 1 .. Len(model)
  BY <1>1, LenProperties DEF WellFormed
<1>3. DOMAIN ds = 1 .. Len(ds)
  BY <1>1, LenProperties DEF PackedUpTo
<1>4. IsFp8(model[i]) <=> IsWeightAt(model, i)
  BY DEF IsFp8, IsWeightAt
<1>5. ASSUME NEW y \in T
      PROVE  \E c \in 1 .. Len(loaded) : /\ InMemory(words, ds[y], loaded[c])
                                         /\ loaded[c] = WeightNamed(model, i) /\ IsWeightAt(model, i)
  <2>1. PICK c \in 1 .. Len(loaded) : InMemory(words, ds[y], loaded[c])
    BY <1>1, <1>3 DEF PackedUpTo
  <2>2. PICK x \in 1 .. Len(model) : IsWeightAt(model, x) /\ loaded[c] = WeightNamed(model, x)
    BY <1>1 DEF LoadedFrom, ReadUpTo
  <2>3. Name(model[x]) = loaded[c].name
    BY <1>1, <1>2, <2>2, WeightAt
  <2>4. loaded[c].name = Name(model[i])
    BY <2>1 DEF InMemory
  <2>5. x = i
    BY <1>1, <1>2, <2>3, <2>4 DEF WellFormed
  <2> QED
    BY <2>1, <2>2, <2>5
<1>6. CASE ~IsFp8(model[i])
  <2>1. T = {}
    <3> SUFFICES ASSUME NEW y \in T PROVE FALSE
      OBVIOUS
    <3> QED
      BY <1>4, <1>5, <1>6
  <2> QED
    BY <1>6, <2>1
<1>7. ASSUME IsFp8(model[i]), NEW n \in 0 .. model[i].shape[1] - 1
      PROVE  \E y \in T : /\ n - ds[y].col0 \in 0 .. PE_N - 1
                          /\ \A x \in T \ {y} : n - ds[x].col0 \notin 0 .. PE_N - 1
  <2> DEFINE w == WeightNamed(model, i)
  <2>1. PICK l \in DOMAIN model : model[l].layer = model[i].layer /\ model[l].part = "weight_scale_inv"
    BY <1>4, <1>7 DEF IsWeightAt
  <2>2. Pairs(model, i, l)
    BY <1>4, <1>7, <2>1 DEF Pairs, IsWeightAt
  <2>3. Says(model, i, l, w)
    BY <1>1, <2>2, ClassifiedIs DEF WeightNamed
  <2>4. w.name = Name(model[i]) /\ w.N = model[i].shape[1] /\ w.N \in Nat \ {0} /\ n \in 0 .. w.N - 1
    BY <2>3 DEF Says
  <2>5. PICK c \in 1 .. Len(loaded) : loaded[c] = w
    BY <1>1, <1>2, <1>4, <1>7 DEF LoadedFrom, ReadUpTo
  <2> HIDE DEF w
  <2>6. PICK ct \in 0 .. Ceil(w.N, PE_N) - 1 : ct * PE_N \in Nat /\ n - ct * PE_N \in 0 .. PE_N - 1
    BY <2>4, TileOfColumn
  <2>7. PICK y \in 1 .. Len(ds) : ds[y].name = w.name /\ ds[y].col0 = ct * PE_N
    BY <1>1, <2>5, <2>6 DEF PackedUpTo
  <2>8. y \in T
    BY <1>3, <2>4, <2>7
  <2>9. ASSUME NEW x \in T, n - ds[x].col0 \in 0 .. PE_N - 1 PROVE x = y
    <3>1. PICK e \in 1 .. Len(loaded) : InMemory(words, ds[x], loaded[e]) /\ loaded[e] = w
      BY <1>5 DEF w
    <3>2. PICK c2 \in 0 .. Ceil(w.N, PE_N) - 1 : ds[x].col0 = c2 * PE_N
      BY <3>1 DEF InMemory
    <3>3. Ceil(w.N, PE_N) \in Nat /\ ct \in Nat /\ c2 \in Nat /\ PE_N \in Nat \ {0} /\ n \in Int
           /\ ct \in Int /\ c2 \in Int
      <4>1. w.N \in Nat /\ PE_N \in Nat \ {0}
        BY <2>4, LayoutAssumption
      <4>2. Ceil(w.N, PE_N) \in Nat
        BY <4>1, CeilIs
      <4> QED
        BY <2>4, <4>1, <4>2
    <3> DEFINE e1 == n - ct * PE_N
               e2 == n - c2 * PE_N
    <3>4. e1 \in 0 .. PE_N - 1 /\ e2 \in 0 .. PE_N - 1 /\ n = PE_N * ct + e1 /\ n = PE_N * c2 + e2
      BY <2>6, <2>9, <3>2, <3>3
    <3> HIDE DEF e1, e2
    <3>5. n \div PE_N = ct
      BY <3>3, <3>4, DivisionIsUnique
    <3>6. n \div PE_N = c2
      BY <3>3, <3>4, DivisionIsUnique
    <3>7. ds[x].col0 = ds[y].col0 /\ ds[x].name = ds[y].name /\ x \in 1 .. Len(ds)
      BY <1>3, <2>4, <2>7, <3>2, <3>5, <3>6
    <3> QED
      BY <1>1, <3>7 DEF PackedUpTo
  <2>10. n - ds[y].col0 \in 0 .. PE_N - 1
    BY <2>6, <2>7
  <2> HIDE DEF ds
  <2> QED
    BY <2>8, <2>9, <2>10
<1> QED
  BY <1>6, <1>7

(* The image is complete and the packer's self-test accepts it: every      *)
(* output column of every FP8 weight is in exactly one tile, scale tensors *)
(* and the bf16 tail are in none.                                          *)
THEOREM AlwaysImageIsComplete == MCSpec => []ImageIsComplete
<1> DEFINE Inv == PathInv /\ step # "mismatch"
<1>1. MCInit => Inv
  <2> SUFFICES ASSUME MCInit PROVE PathInv /\ step # "mismatch"
    OBVIOUS
  <2>1. PathInv
    BY PathStarts DEF MCInit
  <2>2. step = "save"
    BY DEF MCInit, PathInit, PathIdle, PathReset
  <2> QED
    BY <2>1, <2>2
<1>2. Inv /\ [MCNext]_mcVars => Inv'
  <2> SUFFICES ASSUME Inv, [MCNext]_mcVars PROVE Inv'
    OBVIOUS
  <2>1. PathNext \/ UNCHANGED pathVars
    BY DEF MCNext, CompressedDoes, PackedDoes, mcVars
  <2>2. PathInv'
    BY <2>1, PathSteps, PathStays
  <2>3. step' # "mismatch"
    BY <2>1, NeverMismatched DEF pathVars, packer
  <2> QED
    BY <2>2, <2>3
<1>3. Inv => ImageIsComplete
  <2> SUFFICES ASSUME PathInv, step # "mismatch" PROVE ImageIsComplete
    OBVIOUS
  <2>1. PackerInv
    BY DEF PathInv
  <2> QED
    BY <2>1, ColumnsAreCovered DEF ImageIsComplete
<1> QED
  BY <1>1, <1>2, <1>3, PTL DEF MCSpec
=============================================================================
