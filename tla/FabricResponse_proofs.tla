------------------------ MODULE FabricResponse_proofs ------------------------
(***************************************************************************)
(* Lemmas about the response half of the two read fabrics, for every       *)
(* number of channels and every FIFO depth: what the arbiter grants, how   *)
(* the ring buffers move, and that one edge of them is a step of           *)
(* ReadFabric.  The theorems of WeightDelivery_proofs rest on them.        *)
(***************************************************************************)
EXTENDS FabricResponse, WellFoundedInduction, SequenceTheorems, TLAPS

(* The distance from the round-robin pointer numbers the channels injectively *)
(* from 0 (the pointed-to channel) to N_CH - 1.                            *)
LEMMA DistanceFacts ==
  ASSUME NEW c \in Channel, NEW d \in Channel, NEW r \in Channel
  PROVE  /\ Distance(c, r) \in 0 .. N_CH - 1
         /\ Distance(c, r) = Distance(d, r) => c = d
  BY FabricAssumption DEF Distance, Channel

(* The arbiter's CHOOSE is never empty: when some FIFO holds a word, the   *)
(* grant is a channel whose FIFO holds a word, and the nearest one.        *)
LEMMA GrantFacts ==
  ASSUME rr \in Channel, gnt_valid
  PROVE  /\ gnt \in Channel
         /\ fifo_ne(gnt)
         /\ \A d \in Channel : fifo_ne(d) => Distance(gnt, rr) <= Distance(d, rr)
<1> DEFINE D == {Distance(c, rr) : c \in {d \in Channel : fifo_ne(d)}}
<1>1. D \subseteq Nat
  BY FabricAssumption, DistanceFacts DEF Channel
<1>2. D # {}
  BY DEF gnt_valid
<1>3. PICK n \in D : \A m \in D : n <= m
  <2>1. PICK n \in D : \A m \in D : ~ (<<m, n>> \in OpToRel(<, Nat))
    BY <1>1, <1>2, NatLessThanWellFounded, WFMin
  <2>2. \A m \in D : ~ (m < n)
    BY <1>1, <2>1 DEF OpToRel
  <2> QED
    BY <1>1, <2>2
<1>4. PICK c \in Channel : fifo_ne(c) /\ n = Distance(c, rr)
  BY <1>3
<1>5. \A d \in Channel : fifo_ne(d) => Distance(c, rr) <= Distance(d, rr)
  BY <1>3, <1>4
<1> QED
  BY <1>4, <1>5 DEF gnt

(* An up/down counter that counts up only when it is not full and down     *)
(* only when it is not empty stays between empty and full.                 *)
LEMMA CounterInRange ==
  ASSUME NEW full \in Nat, NEW n \in 0 .. full, NEW up \in {0, 1},
         NEW down \in {0, 1}, up = 1 => n # full, down = 1 => n # 0
  PROVE  n + up - down \in 0 .. full
<1>1. CASE up = 0 /\ down = 0
  BY <1>1
<1>2. CASE up = 0 /\ down = 1
  BY <1>2
<1>3. CASE up = 1 /\ down = 0
  BY <1>3
<1>4. CASE up = 1 /\ down = 1
  BY <1>4
<1> QED
  BY <1>1, <1>2, <1>3, <1>4

(* A drain takes a word from a FIFO that holds one.                        *)
LEMMA DrainFacts ==
  ASSUME rr \in Channel, NEW c \in Channel, NEW resp_ready, deq_fire(c, resp_ready)
  PROVE  cnt[c] # 0 /\ gnt = c
  BY GrantFacts DEF deq_fire, fifo_ne

-----------------------------------------------------------------------------
(* Ring arithmetic: places are slots, the place after one is the next slot *)
(* of the ring, and fewer than RESP_QD places never come back to a slot.   *)
LEMMA SlotFacts ==
  ASSUME NEW h \in Slot
  PROVE  /\ NextSlot(h) \in Slot
         /\ SlotAt(h, 0) = h
         /\ \A k \in 0 .. RESP_QD : SlotAt(h, k) \in Slot
  BY FabricAssumption DEF SlotAt, NextSlot, Slot

(* A ring of n words from slot h that stores a word (e = 1) and gives one  *)
(* up (d = 1) at the same edge: the tail stays n places after the head,    *)
(* the words move up by d places, and the stored word is the last one.     *)
LEMMA RingStep ==
  ASSUME NEW h \in Slot, NEW n \in 0 .. RESP_QD, NEW e \in {0, 1}, NEW d \in {0, 1},
         e = 1 => n # RESP_QD, d = 1 => n # 0
  PROVE  LET h1 == IF d = 1 THEN NextSlot(h) ELSE h
             t1 == IF e = 1 THEN NextSlot(SlotAt(h, n)) ELSE SlotAt(h, n)
         IN  /\ t1 = SlotAt(h1, n + e - d)
             /\ \A k \in 0 .. RESP_QD - 1 :
                  k < n + e - d =>
                    /\ SlotAt(h1, k) = SlotAt(h, k + d)
                    /\ k + d < n /\ e = 1 => SlotAt(h, k + d) # SlotAt(h, n)
                    /\ ~(k + d < n) => e = 1 /\ k + d = n
<1>1. CASE e = 0 /\ d = 0
  BY <1>1, FabricAssumption DEF SlotAt, NextSlot, Slot
<1>2. CASE e = 0 /\ d = 1
  BY <1>2, FabricAssumption DEF SlotAt, NextSlot, Slot
<1>3. CASE e = 1 /\ d = 0
  BY <1>3, FabricAssumption DEF SlotAt, NextSlot, Slot
<1>4. CASE e = 1 /\ d = 1
  BY <1>4, FabricAssumption DEF SlotAt, NextSlot, Slot
<1> QED
  BY <1>1, <1>2, <1>3, <1>4

(* The queue a ring stands for is a sequence of stored words.              *)
LEMMA QueuedFacts ==
  ASSUME RespTypeOK, RingsHoldWords, NEW c \in Channel
  PROVE  /\ Queued(c) \in Seq(Payload)
         /\ Len(Queued(c)) = cnt[c]
         /\ \A i \in 1 .. cnt[c] : Queued(c)[i] = fifo[c][SlotAt(head[c], i - 1)]
<1>1. cnt[c] \in Nat /\ cnt[c] <= RESP_QD /\ RESP_QD \in Nat
  BY FabricAssumption DEF RespTypeOK
<1>2. \A i \in 1 .. cnt[c] : fifo[c][SlotAt(head[c], i - 1)] \in Payload
  <2> SUFFICES ASSUME NEW i \in 1 .. cnt[c]
               PROVE  fifo[c][SlotAt(head[c], i - 1)] \in Payload
    OBVIOUS
  <2>1. i - 1 \in 0 .. RESP_QD - 1 /\ i - 1 < cnt[c]
    BY <1>1
  <2> QED
    BY <2>1 DEF RingsHoldWords
<1>3. Queued(c) \in [1 .. cnt[c] -> Payload]
  BY <1>2 DEF Queued
<1>4. Queued(c) \in Seq(Payload)
  BY <1>1, <1>3, SeqDef
<1>5. Len(Queued(c)) = cnt[c]
  BY <1>1, <1>3, <1>4, LenProperties
<1> QED
  BY <1>4, <1>5 DEF Queued

(* a is f's first m words, numbered from 0, followed by w's first l.       *)
LaidOut(a, f, m, w, l) ==
  /\ Len(a) = m + l
  /\ \A i \in 1 .. m + l : a[i] = IF i <= m THEN f[i - 1] ELSE w[i - m]

(* The words of channel c's ring by their place in it.                     *)
Ring(c) == [k \in 0 .. RESP_QD - 1 |-> fifo[c][SlotAt(head[c], k)]]

(* What a channel owes is its ring's words followed by its PHY's reads.    *)
OwedJoined ==
  \A c \in Channel : /\ Owed[c] \in Seq(Payload)
                     /\ LaidOut(Owed[c], Ring(c), cnt[c], die[c], Len(die[c]))

LEMMA OwedFacts == RespTypeOK /\ RingsHoldWords => OwedJoined
<1> SUFFICES ASSUME RespTypeOK, RingsHoldWords, NEW c \in Channel
             PROVE  /\ Owed[c] \in Seq(Payload)
                    /\ LaidOut(Owed[c], Ring(c), cnt[c], die[c], Len(die[c]))
  BY DEF OwedJoined
<1>1. /\ die[c] \in Seq(Payload) /\ Len(die[c]) \in Nat
      /\ cnt[c] \in 0 .. RESP_QD /\ RESP_QD \in Nat
  BY FabricAssumption DEF RespTypeOK
<1> DEFINE q == Queued(c)
<1>2. Owed[c] = q \o die[c]
  BY DEF Owed
<1>3. /\ q \in Seq(Payload) /\ Len(q) = cnt[c]
      /\ \A i \in 1 .. cnt[c] : q[i] = fifo[c][SlotAt(head[c], i - 1)]
  BY QueuedFacts
<1> HIDE DEF q
<1>4. /\ q \o die[c] \in Seq(Payload)
      /\ Len(q \o die[c]) = Len(q) + Len(die[c])
      /\ \A i \in 1 .. Len(q) + Len(die[c]) :
           (q \o die[c])[i] = IF i <= Len(q) THEN q[i] ELSE die[c][i - Len(q)]
  BY <1>1, <1>3, ConcatProperties
<1>5. ASSUME NEW i \in 1 .. cnt[c]
      PROVE  Ring(c)[i - 1] = q[i]
  <2>1. i - 1 \in 0 .. RESP_QD - 1
    BY <1>1
  <2> QED
    BY <1>3, <2>1 DEF Ring
<1>6. ASSUME NEW i \in 1 .. cnt[c] + Len(die[c])
      PROVE  Owed[c][i] = IF i <= cnt[c] THEN Ring(c)[i - 1] ELSE die[c][i - cnt[c]]
  <2>1. CASE i <= cnt[c]
    <3>1. i \in 1 .. cnt[c]
      BY <1>1, <2>1
    <3> QED
      BY <1>2, <1>3, <1>4, <1>5, <2>1, <3>1
  <2>2. CASE ~(i <= cnt[c])
    BY <1>1, <1>2, <1>3, <1>4, <2>2
  <2> QED
    BY <2>1, <2>2
<1> QED
  BY <1>2, <1>3, <1>4, <1>6 DEF LaidOut

(* A sequence that reads, place by place, like another one shifted by its  *)
(* head and extended by n is that other one's tail followed by n.          *)
LEMMA ShiftAppend ==
  ASSUME NEW S, NEW a \in Seq(S), NEW b \in Seq(S), NEW n \in Seq(S),
         NEW d \in {0, 1}, d <= Len(a),
         Len(b) = Len(a) - d + Len(n),
         \A j \in 1 .. Len(b) : b[j] = IF j + d <= Len(a) THEN a[j + d]
                                                        ELSE n[j + d - Len(a)]
  PROVE  b = (IF d = 1 THEN Tail(a) ELSE a) \o n
<1> DEFINE s == IF d = 1 THEN Tail(a) ELSE a
<1>1. /\ s \in Seq(S)
      /\ Len(s) = Len(a) - d
      /\ \A j \in 1 .. Len(s) : s[j] = a[j + d]
  <2>1. CASE d = 1
    <3>1. a # << >>
      BY <2>1, EmptySeq
    <3> QED
      BY <2>1, <3>1, HeadTailProperties
  <2>2. CASE d = 0
    <3>1. \A j \in 1 .. Len(a) : a[j] = a[j + 0]
      BY LenProperties
    <3> QED
      BY <2>2, <3>1
  <2> QED
    BY <2>1, <2>2
<1> HIDE DEF s
<1>2. /\ s \o n \in Seq(S)
      /\ Len(s \o n) = Len(s) + Len(n)
      /\ \A j \in 1 .. Len(s) + Len(n) :
           (s \o n)[j] = IF j <= Len(s) THEN s[j] ELSE n[j - Len(s)]
  BY <1>1, ConcatProperties
<1>3. Len(a) \in Nat /\ Len(n) \in Nat /\ Len(s) \in Nat
  BY <1>1, LenProperties
<1>4. \A j \in 1 .. Len(b) : b[j] = (s \o n)[j]
  <2> SUFFICES ASSUME NEW j \in 1 .. Len(b) PROVE b[j] = (s \o n)[j]
    OBVIOUS
  <2>1. Len(b) = Len(s) + Len(n) /\ j \in 1 .. Len(s) + Len(n)
    BY <1>1
  <2>2. CASE j <= Len(s)
    BY <1>1, <1>2, <1>3, <2>1, <2>2
  <2>3. CASE ~(j <= Len(s))
    <3>1. j + d - Len(a) = j - Len(s)
      BY <1>1, <1>3
    <3> QED
      BY <1>1, <1>2, <1>3, <2>1, <2>3, <3>1
  <2> QED
    BY <2>2, <2>3
<1>5. b = s \o n
  BY <1>1, <1>2, <1>4, SeqEqual
<1> QED
  BY <1>5 DEF s
Flags == {0, 1}

(* What an edge does to the words f of a ring of m and to the reads w of a *)
(* PHY of l: the PHY's first read is stored (e = 1), the ring's first word *)
(* is drained (d = 1), and the PHY takes the reads n.                      *)
RingShifts(f1, m1, f, m, w, d) ==
  \A k \in 0 .. m1 - 1 : f1[k] = IF k + d < m THEN f[k + d] ELSE w[1]
PhyShifts(w1, w, l, e, n) ==
  \A i \in 1 .. l - e + Len(n) : w1[i] = IF i + e <= l THEN w[i + e] ELSE n[i + e - l]

(* Then the two, one after the other, lose their first word when d = 1 and *)
(* gain n: storing moves a word from one to the other and changes nothing. *)
Shifted(b, a, d, n) == b = (IF d = 1 THEN Tail(a) ELSE a) \o n

LEMMA QueueShift ==
  ASSUME NEW S, NEW a \in Seq(S), NEW b \in Seq(S), NEW n \in Seq(S),
         NEW f, NEW f1, NEW w, NEW w1, NEW m \in Nat, NEW m1 \in Nat,
         NEW l \in Nat, NEW l1 \in Nat,
         NEW e \in Flags, NEW d \in Flags, d <= m, e <= l,
         m1 = m + e - d, l1 = l - e + Len(n),
         LaidOut(a, f, m, w, l), LaidOut(b, f1, m1, w1, l1),
         RingShifts(f1, m1, f, m, w, d), PhyShifts(w1, w, l, e, n)
  PROVE  Shifted(b, a, d, n)
<1>1. e \in {0, 1} /\ d \in {0, 1}
  BY DEF Flags
<1>2. \A i \in 1 .. m + l : a[i] = IF i <= m THEN f[i - 1] ELSE w[i - m]
  BY DEF LaidOut
<1>3. \A i \in 1 .. m1 + l1 : b[i] = IF i <= m1 THEN f1[i - 1] ELSE w1[i - m1]
  BY DEF LaidOut
<1>4. Len(a) = m + l /\ Len(b) = m1 + l1 /\ Len(n) \in Nat
  BY LenProperties DEF LaidOut
<1>5. Len(b) = Len(a) - d + Len(n) /\ d <= Len(a)
  BY <1>1, <1>4
<1>6. ASSUME NEW j \in 1 .. Len(b)
      PROVE  b[j] = IF j + d <= Len(a) THEN a[j + d] ELSE n[j + d - Len(a)]
  <2>1. CASE j <= m1
    <3>1. j - 1 \in 0 .. m1 - 1 /\ j + d \in 1 .. m + l /\ j + d <= Len(a)
      BY <1>1, <1>4, <2>1
    <3>2. b[j] = f1[j - 1]
      BY <1>1, <1>4, <1>3, <2>1
    <3>3. f1[j - 1] = IF j - 1 + d < m THEN f[j - 1 + d] ELSE w[1]
      BY <1>1, <3>1 DEF RingShifts
    <3>4. a[j + d] = IF j + d <= m THEN f[j + d - 1] ELSE w[j + d - m]
      <4>1. PICK t \in 1 .. m + l : t = j + d
        BY <3>1
      <4> QED
        BY <1>1, <1>2, <4>1
    <3>5. /\ j - 1 + d < m <=> j + d <= m
          /\ j - 1 + d = j + d - 1
          /\ ~(j + d <= m) => j + d - m = 1
      BY <1>1, <2>1, <3>1
    <3>6. IF j - 1 + d < m THEN f[j - 1 + d] = f[j + d - 1] ELSE w[1] = w[j + d - m]
      BY <3>5
    <3> QED
      BY <3>1, <3>2, <3>3, <3>4, <3>5, <3>6
  <2>2. CASE ~(j <= m1)
    <3>1. PICK i \in 1 .. l - e + Len(n) : i = j - m1 /\ i + e = j + d - m
      <4>1. j - m1 \in 1 .. l - e + Len(n) /\ j - m1 + e = j + d - m
        BY <1>1, <1>4, <2>2
      <4> QED
        BY <4>1
    <3>2. b[j] = w1[i]
      BY <1>4, <1>3, <2>2, <3>1
    <3>3. w1[i] = IF i + e <= l THEN w[i + e] ELSE n[i + e - l]
      BY DEF PhyShifts
    <3>4. CASE j + d <= Len(a)
      <4>1. i + e <= l /\ j + d \in 1 .. m + l /\ ~(j + d <= m)
        BY <1>1, <1>4, <2>2, <3>1, <3>4, SMTT(30)
      <4>2. a[j + d] = w[j + d - m]
        <5>1. PICK t \in 1 .. m + l : t = j + d
          BY <4>1
        <5> QED
          BY <1>1, <1>2, <4>1, <5>1
      <4> QED
        BY <3>1, <3>2, <3>3, <3>4, <4>1, <4>2
    <3>5. CASE ~(j + d <= Len(a))
      <4>1. ~(i + e <= l) /\ i + e - l = j + d - Len(a)
        BY <1>1, <1>4, <3>1, <3>5
      <4> QED
        BY <3>2, <3>3, <3>5, <4>1
    <3> QED
      BY <3>4, <3>5
  <2> QED
    BY <2>1, <2>2
<1> QED
  BY <1>1, <1>5, <1>6, ShiftAppend DEF Shifted
-----------------------------------------------------------------------------
(* One channel's ring across a clock edge: its count moves by what was     *)
(* stored and drained, the ring stays well formed, and its words are the   *)
(* old ones shifted by the drain with the PHY's word behind them.          *)
LEMMA RingEdge ==
  ASSUME RespTypeOK, RingsHoldWords, NEW resp_ready \in BOOLEAN, NEW drive,
         RespEdge(drive, resp_ready), NEW c \in Channel
  PROVE  LET e == Inc(enq_fire(c, drive))
             d == Inc(deq_fire(c, resp_ready))
         IN  /\ d <= cnt[c]
             /\ cnt'[c] = cnt[c] + e - d
             /\ cnt'[c] \in 0 .. RESP_QD
             /\ head'[c] \in Slot /\ tail'[c] \in Slot
             /\ tail'[c] = SlotAt(head'[c], cnt'[c])
             /\ \A k \in 0 .. RESP_QD - 1 :
                  k < cnt'[c] =>
                    fifo'[c][SlotAt(head'[c], k)] =
                      IF k + d < cnt[c] THEN fifo[c][SlotAt(head[c], k + d)]
                                        ELSE Head(die[c])
<1>1. PICK e \in {0, 1}, d \in {0, 1} :
        /\ e = Inc(enq_fire(c, drive)) /\ (e = 1 <=> enq_fire(c, drive))
        /\ d = Inc(deq_fire(c, resp_ready)) /\ (d = 1 <=> deq_fire(c, resp_ready))
  BY DEF Inc
<1>2. /\ head[c] \in Slot /\ tail[c] = SlotAt(head[c], cnt[c]) /\ tail[c] \in Slot
      /\ cnt[c] \in 0 .. RESP_QD /\ RESP_QD \in Nat \ {0} /\ rr \in Channel
      /\ fifo[c] \in [Slot -> Payload \cup {Unwritten}]
  BY FabricAssumption DEF RespTypeOK, RingsHoldWords
<1>3. (e = 1 => cnt[c] # RESP_QD) /\ (d = 1 => cnt[c] # 0)
  BY <1>1, <1>2, DrainFacts DEF enq_fire, mem_resp_ready
<1>4. /\ cnt'[c] = cnt[c] + e - d
      /\ head'[c] = IF d = 1 THEN NextSlot(head[c]) ELSE head[c]
      /\ tail'[c] = IF e = 1 THEN NextSlot(tail[c]) ELSE tail[c]
      /\ fifo'[c] = IF e = 1 THEN [fifo[c] EXCEPT ![tail[c]] = Head(die[c])]
                             ELSE fifo[c]
  BY <1>1 DEF RespEdge
<1>5. cnt'[c] \in 0 .. RESP_QD /\ d <= cnt[c]
  BY <1>2, <1>3, <1>4, CounterInRange
<1>6. head'[c] \in Slot /\ tail'[c] \in Slot
  BY <1>2, <1>4, SlotFacts
<1>7. /\ tail'[c] = SlotAt(head'[c], cnt'[c])
      /\ \A k \in 0 .. RESP_QD - 1 :
           k < cnt'[c] =>
             /\ SlotAt(head'[c], k) = SlotAt(head[c], k + d)
             /\ k + d < cnt[c] /\ e = 1 => SlotAt(head[c], k + d) # SlotAt(head[c], cnt[c])
             /\ ~(k + d < cnt[c]) => e = 1 /\ k + d = cnt[c]
  BY <1>2, <1>3, <1>4, RingStep
<1>8. ASSUME NEW k \in 0 .. RESP_QD - 1, k < cnt'[c]
      PROVE  fifo'[c][SlotAt(head'[c], k)] =
               IF k + d < cnt[c] THEN fifo[c][SlotAt(head[c], k + d)]
                                 ELSE Head(die[c])
  <2>1. SlotAt(head'[c], k) = SlotAt(head[c], k + d)
    BY <1>7, <1>8
  <2>2. k + d \in 0 .. RESP_QD
    BY <1>2
  <2>3. SlotAt(head[c], k + d) \in Slot
    BY <1>2, <2>2, SlotFacts
  <2>4. CASE k + d < cnt[c]
    BY <1>2, <1>4, <1>7, <1>8, <2>1, <2>3, <2>4
  <2>5. CASE ~(k + d < cnt[c])
    BY <1>2, <1>4, <1>7, <1>8, <2>1, <2>3, <2>5
  <2> QED
    BY <2>4, <2>5
<1> QED
  BY <1>1, <1>4, <1>5, <1>6, <1>7, <1>8
-----------------------------------------------------------------------------
(* What both fabrics do to a channel's PHY at an edge: it gives up the     *)
(* word it stored in the FIFO and takes the read issued to it, if any.     *)
AtMostOne == {<< >>} \cup {<<p>> : p \in Payload}
Holding == {c \in Channel : die[c] # << >>}
DieEdge(drive, issued) ==
  die' = [c \in Channel |->
            (IF enq_fire(c, drive) THEN Tail(die[c]) ELSE die[c]) \o issued[c]]

LEMMA DieFacts ==
  ASSUME RespTypeOK, NEW drive \in SUBSET Holding,
         NEW issued \in [Channel -> AtMostOne], DieEdge(drive, issued),
         NEW c \in Channel
  PROVE  LET e == Inc(enq_fire(c, drive))
         IN  /\ issued[c] \in Seq(Payload)
             /\ die'[c] \in Seq(Payload)
             /\ e = 1 => Head(die[c]) \in Payload /\ Head(die[c]) = die[c][1]
             /\ e <= Len(die[c])
             /\ Len(die'[c]) = Len(die[c]) - e + Len(issued[c])
             /\ PhyShifts(die'[c], die[c], Len(die[c]), e, issued[c])
<1> DEFINE kept == IF enq_fire(c, drive) THEN Tail(die[c]) ELSE die[c]
<1>1. PICK e \in {0, 1} : /\ e = Inc(enq_fire(c, drive))
                          /\ e = 1 <=> enq_fire(c, drive)
  BY DEF Inc
<1>2. die[c] \in Seq(Payload) /\ Len(die[c]) \in Nat
  BY DEF RespTypeOK
<1>3. issued[c] \in Seq(Payload) /\ Len(issued[c]) \in Nat
  <2>1. CASE issued[c] = << >>
    BY <2>1, EmptySeq
  <2>2. CASE \E p \in Payload : issued[c] = <<p>>
    BY <2>2
  <2>3. issued[c] \in AtMostOne
    OBVIOUS
  <2> QED
    BY <2>1, <2>2, <2>3 DEF AtMostOne
<1>4. e = 1 => die[c] # << >>
  BY <1>1 DEF enq_fire, Holding
<1>5. /\ kept \in Seq(Payload)
      /\ Len(kept) = Len(die[c]) - e
      /\ \A i \in 1 .. Len(kept) : kept[i] = die[c][i + e]
      /\ e <= Len(die[c])
  <2>1. CASE e = 1
    BY <1>1, <1>2, <1>4, <2>1, HeadTailProperties, EmptySeq
  <2>2. CASE e = 0
    BY <1>1, <1>2, <2>2
  <2> QED
    BY <2>1, <2>2
<1>6. e = 1 => Head(die[c]) \in Payload /\ Head(die[c]) = die[c][1]
  BY <1>2, <1>4, HeadTailProperties
<1>7. die'[c] = kept \o issued[c]
  BY DEF DieEdge
<1> HIDE DEF kept
<1>8. /\ kept \o issued[c] \in Seq(Payload)
      /\ Len(kept \o issued[c]) = Len(kept) + Len(issued[c])
      /\ \A i \in 1 .. Len(kept) + Len(issued[c]) :
           (kept \o issued[c])[i] = IF i <= Len(kept) THEN kept[i]
                                      ELSE issued[c][i - Len(kept)]
  BY <1>3, <1>5, ConcatProperties
<1>9. ASSUME NEW i \in 1 .. Len(die[c]) - e + Len(issued[c])
      PROVE  die'[c][i] = IF i + e <= Len(die[c]) THEN die[c][i + e]
                            ELSE issued[c][i + e - Len(die[c])]
  <2>1. i \in 1 .. Len(kept) + Len(issued[c])
    BY <1>5
  <2>2. i - Len(kept) = i + e - Len(die[c])
    BY <1>2, <1>5
  <2>3. die'[c][i] = IF i <= Len(kept) THEN kept[i] ELSE issued[c][i - Len(kept)]
    BY <1>7, <1>8, <2>1
  <2>4. CASE i <= Len(kept)
    <3>1. i \in 1 .. Len(kept) /\ i + e <= Len(die[c])
      BY <1>2, <1>5, <2>1, <2>4
    <3> QED
      BY <1>5, <2>3, <2>4, <3>1
  <2>5. CASE ~(i <= Len(kept))
    <3>1. ~(i + e <= Len(die[c]))
      BY <1>2, <1>5, <2>1, <2>5
    <3> QED
      BY <2>2, <2>3, <2>5, <3>1
  <2> QED
    BY <2>4, <2>5
<1> QED
  BY <1>1, <1>3, <1>5, <1>6, <1>7, <1>8, <1>9 DEF PhyShifts

(* The response half keeps its types and its rings well formed.            *)
LEMMA EdgeInv ==
  ASSUME RespTypeOK, RingsHoldWords, NEW resp_ready \in BOOLEAN,
         NEW drive \in SUBSET Holding, NEW issued \in [Channel -> AtMostOne],
         RespEdge(drive, resp_ready), DieEdge(drive, issued)
  PROVE  RespTypeOK' /\ RingsHoldWords'
<1>1. /\ die' = [c \in Channel |-> die'[c]] /\ cnt' = [c \in Channel |-> cnt'[c]]
      /\ head' = [c \in Channel |-> head'[c]] /\ tail' = [c \in Channel |-> tail'[c]]
      /\ fifo' = [c \in Channel |-> fifo'[c]]
  BY DEF RespEdge, DieEdge
<1>2. \A c \in Channel : /\ cnt'[c] \in 0 .. RESP_QD
                         /\ head'[c] \in Slot /\ tail'[c] \in Slot
                         /\ tail'[c] = SlotAt(head'[c], cnt'[c])
  BY RingEdge
<1>3. \A c \in Channel : die'[c] \in Seq(Payload)
  BY DieFacts
<1>4. ASSUME NEW c \in Channel
      PROVE  fifo'[c] \in [Slot -> Payload \cup {Unwritten}]
  <2>1. enq_fire(c, drive) => Head(die[c]) \in Payload
    BY DieFacts DEF Inc
  <2> QED
    BY <2>1 DEF RespEdge, RespTypeOK
<1>5. gnt_valid => gnt \in Channel
  BY GrantFacts DEF RespTypeOK
<1>6. rr' \in Channel
  <2>1. rr' = IF gnt_valid /\ resp_ready
                THEN IF gnt = N_CH - 1 THEN 0 ELSE gnt + 1 ELSE rr
    BY DEF RespEdge
  <2>2. rr \in Channel
    BY DEF RespTypeOK
  <2> QED
    BY <1>5, <2>1, <2>2, FabricAssumption DEF Channel
<1>7. resp' \in {<< >>} \cup {<<p>> : p \in Payload \cup {Unwritten}}
  BY <1>5 DEF RespEdge, RespTypeOK
<1>8. RespTypeOK'
  BY <1>1, <1>2, <1>3, <1>4, <1>6, <1>7 DEF RespTypeOK
<1>9. ASSUME NEW c \in Channel, NEW k \in 0 .. RESP_QD - 1, k < cnt'[c]
      PROVE  fifo'[c][SlotAt(head'[c], k)] \in Payload
  <2>1. PICK e \in {0, 1}, d \in {0, 1} :
          /\ e = Inc(enq_fire(c, drive))
          /\ d = Inc(deq_fire(c, resp_ready))
    BY DEF Inc
  <2>2. cnt[c] \in 0 .. RESP_QD /\ RESP_QD \in Nat
    BY FabricAssumption DEF RespTypeOK
  <2>3. /\ cnt'[c] = cnt[c] + e - d
        /\ fifo'[c][SlotAt(head'[c], k)] =
             IF k + d < cnt[c] THEN fifo[c][SlotAt(head[c], k + d)] ELSE Head(die[c])
    BY <1>9, <2>1, RingEdge
  <2>4. CASE k + d < cnt[c]
    <3>1. k + d \in 0 .. RESP_QD - 1
      BY <2>2, <2>4
    <3> QED
      BY <2>3, <2>4, <3>1 DEF RingsHoldWords
  <2>5. CASE ~(k + d < cnt[c])
    <3>1. e = 1
      BY <1>9, <2>2, <2>3, <2>5
    <3> QED
      BY <2>1, <2>3, <2>5, <3>1, DieFacts
  <2> QED
    BY <2>4, <2>5
<1>10. RingsHoldWords'
  BY <1>2, <1>9 DEF RingsHoldWords
<1> QED
  BY <1>8, <1>10

-----------------------------------------------------------------------------
(* A ring's words across an edge, in terms of RingShifts.                  *)
LEMMA RingMoves ==
  ASSUME RespTypeOK, RingsHoldWords, NEW resp_ready \in BOOLEAN,
         NEW drive \in SUBSET Holding, RespEdge(drive, resp_ready), NEW c \in Channel
  PROVE  RingShifts(Ring(c)', cnt'[c], Ring(c), cnt[c], die[c],
                    Inc(deq_fire(c, resp_ready)))
<1>1. PICK e \in {0, 1}, d \in {0, 1} :
        /\ e = Inc(enq_fire(c, drive)) /\ (e = 1 => enq_fire(c, drive))
        /\ d = Inc(deq_fire(c, resp_ready))
  BY DEF Inc
<1>2. /\ cnt[c] \in 0 .. RESP_QD /\ RESP_QD \in Nat
      /\ cnt'[c] = cnt[c] + e - d /\ cnt'[c] \in 0 .. RESP_QD
  BY <1>1, FabricAssumption, RingEdge DEF RespTypeOK
<1>3. SUFFICES ASSUME NEW k \in 0 .. cnt'[c] - 1
               PROVE  Ring(c)'[k] = IF k + d < cnt[c] THEN Ring(c)[k + d] ELSE die[c][1]
  BY <1>1 DEF RingShifts
<1>4. k \in 0 .. RESP_QD - 1 /\ k < cnt'[c]
  BY <1>2
<1>5. Ring(c)'[k] = IF k + d < cnt[c] THEN fifo[c][SlotAt(head[c], k + d)]
                                      ELSE Head(die[c])
  <2>1. Ring(c)'[k] = fifo'[c][SlotAt(head'[c], k)]
    BY <1>4 DEF Ring
  <2> QED
    BY <1>1, <1>4, <2>1, RingEdge
<1>6. CASE k + d < cnt[c]
  <2>1. k + d \in 0 .. RESP_QD - 1
    BY <1>2, <1>6
  <2> QED
    BY <1>5, <1>6, <2>1 DEF Ring
<1>7. CASE ~(k + d < cnt[c])
  <2>1. e = 1
    BY <1>2, <1>4, <1>7
  <2>2. c \in Holding
    BY <1>1, <2>1 DEF enq_fire
  <2>3. die[c] \in Seq(Payload) /\ die[c] # << >>
    BY <2>2 DEF Holding, RespTypeOK
  <2> QED
    BY <1>5, <1>7, <2>3, HeadTailProperties
<1> QED
  BY <1>6, <1>7

(* The answers channel c owes after an edge: those it owed, without the    *)
(* oldest if it was drained, then the read issued to it.                   *)
LEMMA OwedEdge ==
  ASSUME RespTypeOK, RingsHoldWords, NEW resp_ready \in BOOLEAN,
         NEW drive \in SUBSET Holding, NEW issued \in [Channel -> AtMostOne],
         RespEdge(drive, resp_ready), DieEdge(drive, issued), NEW c \in Channel
  PROVE  Owed'[c] = (IF deq_fire(c, resp_ready) THEN Tail(Owed[c]) ELSE Owed[c])
                      \o issued[c]
<1>1. PICK e \in {0, 1}, d \in {0, 1} :
        /\ e = Inc(enq_fire(c, drive)) /\ (e = 1 <=> enq_fire(c, drive))
        /\ d = Inc(deq_fire(c, resp_ready)) /\ (d = 1 <=> deq_fire(c, resp_ready))
  BY DEF Inc
<1>2. RespTypeOK' /\ RingsHoldWords'
  BY EdgeInv
<1>3. /\ Owed[c] \in Seq(Payload)
      /\ LaidOut(Owed[c], Ring(c), cnt[c], die[c], Len(die[c]))
  BY OwedFacts DEF OwedJoined
<1>4. /\ Owed'[c] \in Seq(Payload)
      /\ LaidOut(Owed'[c], Ring(c)', cnt'[c], die'[c], Len(die'[c]))
  <2>1. (RespTypeOK /\ RingsHoldWords => OwedJoined)'
    BY OwedFacts, PTL
  <2> QED
    BY <1>2, <2>1 DEF OwedJoined
<1>5. /\ d <= cnt[c] /\ cnt'[c] = cnt[c] + e - d
      /\ cnt'[c] \in 0 .. RESP_QD
      /\ RingShifts(Ring(c)', cnt'[c], Ring(c), cnt[c], die[c], d)
  BY <1>1, RingEdge, RingMoves
<1>6. /\ issued[c] \in Seq(Payload)
      /\ e <= Len(die[c])
      /\ Len(die'[c]) = Len(die[c]) - e + Len(issued[c])
      /\ PhyShifts(die'[c], die[c], Len(die[c]), e, issued[c])
  BY <1>1, DieFacts
<1>7. /\ cnt[c] \in Nat /\ cnt'[c] \in Nat
      /\ Len(die[c]) \in Nat /\ Len(die'[c]) \in Nat
  BY <1>2, <1>5, FabricAssumption, LenProperties DEF RespTypeOK
<1>8. PICK a, b, n, f, f1, w, w1, m, m1, l, l1 :
        /\ a = Owed[c] /\ b = Owed'[c] /\ n = issued[c]
        /\ f = Ring(c) /\ f1 = Ring(c)' /\ w = die[c] /\ w1 = die'[c]
        /\ m = cnt[c] /\ m1 = cnt'[c] /\ l = Len(die[c]) /\ l1 = Len(die'[c])
  OBVIOUS
<1>9. Shifted(b, a, d, n)
  <2>1. /\ a \in Seq(Payload) /\ b \in Seq(Payload) /\ n \in Seq(Payload)
        /\ m \in Nat /\ m1 \in Nat /\ l \in Nat /\ l1 \in Nat
        /\ d <= m /\ e <= l /\ m1 = m + e - d /\ l1 = l - e + Len(n)
    BY <1>3, <1>4, <1>5, <1>6, <1>7, <1>8
  <2>2. /\ LaidOut(a, f, m, w, l) /\ LaidOut(b, f1, m1, w1, l1)
        /\ RingShifts(f1, m1, f, m, w, d) /\ PhyShifts(w1, w, l, e, n)
    BY <1>3, <1>4, <1>5, <1>6, <1>8
  <2>3. e \in Flags /\ d \in Flags
    BY DEF Flags
  <2> QED
    BY <2>1, <2>2, <2>3, QueueShift
<1> QED
  BY <1>1, <1>8, <1>9 DEF Shifted
-----------------------------------------------------------------------------
(* A drained channel hands over the oldest answer it owes.                 *)
LEMMA AnswerFacts ==
  ASSUME RespTypeOK, RingsHoldWords, NEW c \in Channel, cnt[c] # 0
  PROVE  /\ Owed[c] # << >>
         /\ Head(Owed[c]) = fifo[c][head[c]]
<1>1. /\ Owed[c] \in Seq(Payload)
      /\ LaidOut(Owed[c], Ring(c), cnt[c], die[c], Len(die[c]))
  BY OwedFacts DEF OwedJoined
<1>2. /\ cnt[c] \in 1 .. RESP_QD /\ RESP_QD \in Nat \ {0} /\ Len(die[c]) \in Nat
      /\ head[c] \in Slot
  BY FabricAssumption, LenProperties DEF RespTypeOK
<1>3. Ring(c)[0] = fifo[c][head[c]]
  BY <1>2, SlotFacts DEF Ring
<1>4. Len(Owed[c]) # 0 /\ Owed[c][1] = Ring(c)[0]
  <2>1. /\ Len(Owed[c]) = cnt[c] + Len(die[c])
        /\ \A i \in 1 .. cnt[c] + Len(die[c]) :
             Owed[c][i] = IF i <= cnt[c] THEN Ring(c)[i - 1] ELSE die[c][i - cnt[c]]
    BY <1>1 DEF LaidOut
  <2>2. 1 \in 1 .. cnt[c] + Len(die[c]) /\ 1 <= cnt[c] /\ cnt[c] + Len(die[c]) # 0
    BY <1>2
  <2>3. Owed[c][1] = Ring(c)[1 - 1]
    BY <2>1, <2>2
  <2> QED
    BY <2>1, <2>2, <2>3
<1> QED
  BY <1>1, <1>3, <1>4, EmptySeq, HeadTailProperties

(* One edge of the response half, with at most one read issued in it, is a *)
(* step of ReadFabric.                                                     *)
LEMMA EdgeIsFabricStep ==
  ASSUME RespTypeOK, RingsHoldWords, NEW resp_ready \in BOOLEAN,
         NEW drive \in SUBSET Holding, NEW in \in Channel, NEW new \in AtMostOne,
         RespEdge(drive, resp_ready),
         DieEdge(drive, [c \in Channel |-> IF c = in THEN new ELSE << >>])
  PROVE  Fabric!Next
<1> DEFINE issued == [c \in Channel |-> IF c = in THEN new ELSE << >>]
<1>1. issued \in [Channel -> AtMostOne]
  BY DEF AtMostOne
<1>2. ASSUME NEW c \in Channel
      PROVE  /\ Owed[c] \in Seq(Payload)
             /\ Owed'[c] = (IF deq_fire(c, resp_ready) THEN Tail(Owed[c]) ELSE Owed[c])
                             \o (IF c = in THEN new ELSE << >>)
  <2>1. Owed[c] \in Seq(Payload)
    BY OwedFacts DEF OwedJoined
  <2>2. Owed'[c] = (IF deq_fire(c, resp_ready) THEN Tail(Owed[c]) ELSE Owed[c])
                     \o issued[c]
    BY <1>1, OwedEdge
  <2> QED
    BY <2>1, <2>2
<1>3. /\ Owed = [c \in Channel |-> Owed[c]]
      /\ Owed' = [c \in Channel |-> Owed'[c]]
  BY DEF Owed
<1>4. resp' = IF gnt_valid /\ resp_ready THEN <<fifo[gnt][head[gnt]]>> ELSE << >>
  BY DEF RespEdge
<1>5. CASE gnt_valid /\ resp_ready
  <2>1. gnt \in Channel /\ cnt[gnt] # 0
    BY <1>5, GrantFacts DEF RespTypeOK, fifo_ne
  <2>2. Owed[gnt] # << >> /\ resp' = <<Head(Owed[gnt])>>
    BY <1>4, <1>5, <2>1, AnswerFacts
  <2>3. Owed' = [c \in Channel |-> (IF c = gnt THEN Tail(Owed[c]) ELSE Owed[c])
                                     \o (IF c = in THEN new ELSE << >>)]
    BY <1>2, <1>3, <1>5 DEF deq_fire
  <2>4. Fabric!Answer(in, new, gnt)
    BY <2>2, <2>3 DEF Fabric!Answer
  <2> QED
    BY <2>1, <2>4 DEF Fabric!Next, AtMostOne
<1>6. CASE ~(gnt_valid /\ resp_ready)
  <2>1. \A c \in Channel : Owed[c] \o << >> = Owed[c]
    BY <1>2, ConcatEmptySeq
  <2>2. \A c \in Channel : Owed'[c] = IF c = in THEN Owed[c] \o new ELSE Owed[c]
    BY <1>2, <1>6, <2>1 DEF deq_fire
  <2>3. Owed' = [Owed EXCEPT ![in] = @ \o new]
    BY <1>3, <2>2
  <2>4. Fabric!Quiet(in, new)
    BY <1>4, <1>6, <2>3 DEF Fabric!Quiet
  <2> QED
    BY <2>4 DEF Fabric!Next, AtMostOne
<1> QED
  BY <1>5, <1>6

(* Empty rings and empty PHYs owe nothing: the initial state, and a reset, *)
(* which also keeps the types and the rings well formed.                   *)
Empty ==
  /\ cnt = [c \in Channel |-> 0]
  /\ die = [c \in Channel |-> << >>]

LEMMA EmptyOwesNothing == Empty => Owed = [c \in Channel |-> << >>]
<1> SUFFICES ASSUME Empty PROVE \A c \in Channel : Owed[c] = << >>
  BY DEF Owed
<1>1. ASSUME NEW c \in Channel
      PROVE  Queued(c) \o die[c] = << >>
  <2>1. Queued(c) = << >> /\ die[c] = << >>
    BY DEF Empty, Queued
  <2> QED
    BY <2>1
<1> QED
  BY <1>1 DEF Owed

LEMMA RespInitFacts ==
  ASSUME RespInit, die = [c \in Channel |-> << >>]
  PROVE  RespTypeOK /\ RingsHoldWords /\ Fabric!Init
<1>1. 0 \in Channel /\ 0 \in Slot /\ 0 \in 0 .. RESP_QD
  BY FabricAssumption DEF Channel, Slot
<1>2. RespTypeOK
  BY <1>1, EmptySeq DEF RespInit, RespTypeOK
<1>3. RingsHoldWords
  BY <1>1, SlotFacts DEF RespInit, RingsHoldWords
<1>4. Fabric!Init
  BY EmptyOwesNothing DEF RespInit, Empty, Fabric!Init
<1> QED
  BY <1>2, <1>3, <1>4

LEMMA RespResetFacts ==
  ASSUME RespTypeOK, RespReset, die' = [c \in Channel |-> << >>]
  PROVE  RespTypeOK' /\ RingsHoldWords' /\ Fabric!Next
<1>1. 0 \in Channel /\ 0 \in Slot /\ 0 \in 0 .. RESP_QD
  BY FabricAssumption DEF Channel, Slot
<1>2. RespTypeOK'
  BY <1>1, EmptySeq DEF RespReset, RespTypeOK
<1>3. RingsHoldWords'
  BY <1>1, SlotFacts DEF RespReset, RingsHoldWords
<1>4. Owed' = [c \in Channel |-> << >>]
  <2>1. (Empty => Owed = [c \in Channel |-> << >>])'
    BY EmptyOwesNothing, PTL
  <2> QED
    BY <2>1 DEF RespReset, Empty
<1>5. Fabric!Reset
  BY <1>4 DEF RespReset, Fabric!Reset
<1> QED
  BY <1>2, <1>3, <1>5 DEF Fabric!Next
=============================================================================
