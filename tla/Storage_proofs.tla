----------------------------- MODULE Storage_proofs -----------------------------
(***************************************************************************)
(* Proofs about what is kept outside the chip.  The two clients that       *)
(* stream words out of Flash: the KV pager keeps an exact window and       *)
(* implements the log of rows, the boot loader keeps an exact pipeline and *)
(* implements the block copy.  The tools that size the expert cache and    *)
(* place the experts on Flash channels: the replay is exact LRU, every     *)
(* layout is balanced.  The gate that fetches a checkpoint: no tier runs   *)
(* on part of one, PASS means what it says, its figures agree.             *)
(***************************************************************************)
EXTENDS BootLoader, KvPager, MCHostTools, SequenceTheorems, FiniteSetTheorems, WellFoundedInduction, TLAPS

(* The geometries that fit: more than one row in the ring, and positions   *)
(* wide enough for the rows of the ring and for every row appended.        *)
Fits == RESIDENT > 1 /\ RESIDENT < 2^POSW /\ APPENDS < 2^POSW

(* The ring holds the newest rows.                                         *)
RingHolds ==
  \A p \in 0 .. Len(kv_log) - 1 :
    p >= Len(kv_log) - RESIDENT => kv_ring[p % RESIDENT] = kv_log[p + 1]

(* A fetch is under way exactly when the pager is busy, for the gather     *)
(* that is owed, and its row has left the ring.                            *)
FetchIsOwed ==
  /\ kv_busy <=> kv_g_state = "FLASH"
  /\ kv_flash_req <=> kv_g_state = "FLASH"
  /\ kv_g_state = "FLASH" => /\ kv_asked = kv_flash_idx
                             /\ kv_flash_idx + RESIDENT < Len(kv_log)
  /\ kv_g_state = "IDLE" => kv_asked = NoGather

PagerTypes ==
  /\ kv_ring \in [KvSlot -> Row]
  /\ kv_row_valid \in BOOLEAN /\ kv_row_out \in Row /\ kv_busy \in BOOLEAN
  /\ kv_flash_req \in BOOLEAN /\ kv_flash_idx \in Pos
  /\ kv_g_state \in {"IDLE", "FLASH"}
  /\ kv_log \in Seq(Row)
  /\ kv_asked \in Pos \cup {NoGather} /\ kv_got \in Pos \cup {NoGather}

PagerInv ==
  /\ PagerTypes
  /\ kv_count = Len(kv_log) /\ Len(kv_log) <= APPENDS
  /\ RingHolds
  /\ FetchIsOwed
-----------------------------------------------------------------------------
(* Positions less than a whole ring apart have slots of their own.         *)
LEMMA DistinctRemainders ==
  ASSUME NEW m \in Nat \ {0}, NEW p \in Nat, NEW q \in Nat, p < q, q < p + m
  PROVE  (p % m) # (q % m)
<1> DEFINE a == p \div m
           b == q \div m
           r == p % m
<1> SUFFICES ASSUME r = q % m PROVE FALSE
  OBVIOUS
<1>1. a \in Int /\ b \in Int /\ r \in Int
  OBVIOUS
<1>2. p = m * a + r /\ q = m * b + r
  OBVIOUS
<1> DEFINE d == b - a
<1> HIDE DEF a, b, r
<1>3. d \in Int /\ q - p = m * d
  BY <1>1, <1>2
<1> HIDE DEF d
<1>4. CASE d <= 0
  <2>1. m * d <= 0
    BY <1>3, <1>4
  <2> QED
    BY <1>3, <2>1
<1>5. CASE d >= 1
  <2>1. m * d >= m
    BY <1>3, <1>5
  <2> QED
    BY <1>3, <2>1
<1> QED
  BY <1>3, <1>4, <1>5

(* What the truncations and the slot bits come to in a geometry that fits. *)
LEMMA Geometry ==
  ASSUME Fits
  PROVE  /\ RESIDENT \in Nat \ {0} /\ APPENDS \in Nat /\ 2^POSW \in Int
         /\ Trunc(RESIDENT) = RESIDENT
         /\ \A n \in 0 .. APPENDS : Trunc(n) = n /\ n \in Pos
         /\ \A p \in Nat : slot_of(p) = p % RESIDENT /\ p % RESIDENT \in KvSlot
<1>1. RESIDENT \in Nat \ {0} /\ APPENDS \in Nat /\ POSW \in Nat /\ RESIDENT > 1
  BY PagerAssumption DEF Fits
<1>2. 2^POSW \in Int
  BY <1>1
<1>3. \A n \in Nat : n < 2^POSW => n % 2^POSW = n
  BY <1>2
<1>4. 2^RPTRW = RESIDENT
  <2>1. \E k \in 1 .. RESIDENT : 2^k = RESIDENT
    <3>1. RESIDENT # 1
      BY <1>1
    <3>2. \E k \in 1 .. RESIDENT : RESIDENT = 2^k
      BY <3>1, PagerAssumption, Zenon
    <3> QED
      BY <3>2, Zenon
  <2> QED
    BY <1>1, <2>1 DEF RPTRW
<1>5. Trunc(RESIDENT) = RESIDENT /\ \A n \in 0 .. APPENDS : Trunc(n) = n /\ n \in Pos
  BY <1>1, <1>2, <1>3 DEF Fits, Trunc, Pos
<1>6. \A p \in Nat : slot_of(p) = p % RESIDENT
  BY <1>4 DEF slot_of
<1>7. \A p \in Nat : p % RESIDENT \in KvSlot
  BY <1>1 DEF KvSlot
<1> QED
  BY <1>1, <1>2, <1>5, <1>6, <1>7

(* The window, in terms of the rows appended.                              *)
LEMMA WindowFacts ==
  ASSUME Fits, PagerInv
  PROVE  /\ kv_count \in 0 .. APPENDS
         /\ overflowed <=> Len(kv_log) > RESIDENT
         /\ resident_lo = IF Len(kv_log) > RESIDENT THEN Len(kv_log) - RESIDENT ELSE 0
         /\ \A p \in Nat : g_resident(p) <=> p < Len(kv_log) /\ p >= Len(kv_log) - RESIDENT
<1>1. kv_count = Len(kv_log) /\ Len(kv_log) \in Nat /\ Len(kv_log) <= APPENDS
  BY LenProperties DEF PagerInv, PagerTypes
<1>2. RESIDENT \in Nat /\ APPENDS \in Nat /\ Trunc(RESIDENT) = RESIDENT
  BY Geometry
<1>3. overflowed <=> Len(kv_log) > RESIDENT
  BY <1>1, <1>2 DEF overflowed
<1>4. resident_lo = IF Len(kv_log) > RESIDENT THEN Len(kv_log) - RESIDENT ELSE 0
  BY <1>1, <1>2, <1>3 DEF resident_lo
<1> QED
  BY <1>1, <1>2, <1>3, <1>4 DEF g_resident

LEMMA PagerIsExact ==
  ASSUME Fits, PagerInv
  PROVE  WindowIsExact
<1>1. /\ kv_count = Len(kv_log) /\ Len(kv_log) \in Nat /\ RESIDENT \in Nat \ {0}
      /\ resident_lo \in 0 .. APPENDS /\ kv_count \in 0 .. APPENDS
  BY WindowFacts, Geometry, LenProperties DEF PagerInv, PagerTypes
<1>2. KvTypeOK
  BY <1>1, Geometry DEF PagerInv, PagerTypes, KvTypeOK
<1>3. ASSUME NEW p \in Appended
      PROVE  /\ g_resident(p) <=> p >= Len(kv_log) - RESIDENT
             /\ g_resident(p) => ReadRing(p) = {kv_log[p + 1]}
  <2>1. p \in Nat /\ p < Len(kv_log) /\ p \in 0 .. Len(kv_log) - 1
    BY <1>1, <1>3, Geometry DEF Appended, Pos
  <2>2. g_resident(p) <=> p >= Len(kv_log) - RESIDENT
    BY <2>1, WindowFacts
  <2>3. ReadRing(p) = {kv_ring[p % RESIDENT]}
    BY <2>1, Geometry DEF ReadRing
  <2> QED
    BY <2>1, <2>2, <2>3 DEF PagerInv, RingHolds
<1>4. FlashAskedForSpilled
  <2> SUFFICES ASSUME kv_flash_req PROVE overflowed /\ kv_flash_idx < resident_lo
    BY DEF FlashAskedForSpilled
  <2>1. kv_flash_idx + RESIDENT < Len(kv_log) /\ kv_flash_idx \in Nat
    BY Geometry DEF PagerInv, PagerTypes, FetchIsOwed, Pos
  <2> QED
    BY <1>1, <2>1, WindowFacts
<1> QED
  BY <1>2, <1>3, <1>4 DEF WindowIsExact, ResidentIsLastRows
-----------------------------------------------------------------------------
LEMMA PagerInit == Fits /\ KvInit => PagerInv
<1> SUFFICES ASSUME Fits, KvInit PROVE PagerInv
  OBVIOUS
<1> USE DEF KvInit
<1>1. ZeroRow \in Row /\ 0 \in Pos /\ kv_log \in Seq(Row) /\ Len(kv_log) = 0 /\ APPENDS \in Nat
  <2>1. APPENDS \in Nat /\ ZeroRow \in Row
    BY PagerAssumption
  <2>2. 0 \in Pos
    BY <2>1, Geometry
  <2>3. kv_log \in Seq(Row) /\ Len(kv_log) = 0
    BY EmptySeq
  <2> QED
    BY <2>1, <2>2, <2>3
<1>2. PagerTypes
  BY <1>1 DEF PagerTypes
<1>3. RingHolds
  BY <1>1 DEF RingHolds
<1>4. FetchIsOwed
  BY DEF FetchIsOwed
<1> QED
  BY <1>1, <1>2, <1>3, <1>4 DEF PagerInv

(* An append, whatever the gather path does: the log only grows, and the   *)
(* ring takes the new row over the one that leaves the window.             *)
LEMMA AppendStep ==
  ASSUME Fits, PagerInv, NEW new \in Appends, AppendRow(new)
  PROVE  /\ kv_ring' \in [KvSlot -> Row] /\ kv_log' \in Seq(Row)
         /\ kv_count' = Len(kv_log') /\ Len(kv_log') <= APPENDS
         /\ Len(kv_log) <= Len(kv_log')
         /\ RingHolds'
<1>1. /\ kv_ring \in [KvSlot -> Row] /\ kv_log \in Seq(Row) /\ Len(kv_log) \in Nat
      /\ kv_count = Len(kv_log) /\ Len(kv_log) <= APPENDS
      /\ RESIDENT \in Nat \ {0} /\ APPENDS \in Nat
  BY LenProperties, Geometry DEF PagerInv, PagerTypes
<1>2. CASE new = << >>
  <2>1. kv_log' = kv_log
    BY <1>1, <1>2, ConcatEmptySeq DEF AppendRow
  <2>2. kv_ring' = kv_ring /\ kv_count' = kv_count
    BY <1>2 DEF AppendRow
  <2> QED
    BY <1>1, <2>1, <2>2 DEF RingHolds, PagerInv
<1>3. CASE new # << >>
  <2>1. Len(kv_log) < APPENDS
    BY <1>3 DEF Appends
  <2>2. PICK r \in Row : new = <<r>>
    BY <1>3 DEF Appends
  <2>3. <<r>> \in Seq(Row) /\ Len(<<r>>) = 1 /\ <<r>>[1] = r /\ Head(<<r>>) = r
    OBVIOUS
  <2>4. /\ kv_log' \in Seq(Row) /\ Len(kv_log') = Len(kv_log) + 1
        /\ \A i \in 1 .. Len(kv_log) + 1 :
             kv_log'[i] = IF i <= Len(kv_log) THEN kv_log[i] ELSE r
    <3>1. kv_log' = kv_log \o <<r>>
      BY <2>2 DEF AppendRow
    <3>2. /\ kv_log' \in Seq(Row) /\ Len(kv_log') = Len(kv_log) + Len(<<r>>)
          /\ \A i \in 1 .. Len(kv_log) + Len(<<r>>) : kv_log'[i] =
               IF i <= Len(kv_log) THEN kv_log[i] ELSE <<r>>[i - Len(kv_log)]
      BY <1>1, <2>3, <3>1, ConcatProperties
    <3> QED
      BY <1>1, <2>3, <3>2
  <2>5. /\ kv_ring' = [s \in KvSlot |-> IF s = kv_count % RESIDENT THEN r ELSE kv_ring[s]]
        /\ kv_count' = kv_count + 1
    <3>1. slot_of(kv_count) = kv_count % RESIDENT /\ Trunc(kv_count + 1) = kv_count + 1
      BY <1>1, <2>1, Geometry
    <3> QED
      BY <1>3, <2>2, <2>3, <3>1 DEF AppendRow
  <2>6. kv_ring' \in [KvSlot -> Row]
    BY <1>1, <2>5
  <2>7. ASSUME NEW p \in 0 .. Len(kv_log') - 1, p >= Len(kv_log') - RESIDENT
        PROVE  kv_ring'[p % RESIDENT] = kv_log'[p + 1]
    <3>1. p \in Nat /\ p <= kv_count /\ kv_count < p + RESIDENT
          /\ p % RESIDENT \in KvSlot
      BY <1>1, <2>4, <2>7, Geometry
    <3>2. kv_log'[p + 1] = IF p < kv_count THEN kv_log[p + 1] ELSE r
      BY <1>1, <2>4, <3>1
    <3>3. CASE p = kv_count
      BY <2>5, <3>1, <3>2, <3>3
    <3>4. CASE p < kv_count
      <4>1. (p % RESIDENT) # (kv_count % RESIDENT)
        BY <1>1, <3>1, <3>4, DistinctRemainders
      <4>2. kv_ring[p % RESIDENT] = kv_log[p + 1]
        BY <1>1, <3>1, <3>4 DEF PagerInv, RingHolds
      <4> QED
        BY <2>5, <3>1, <3>2, <3>4, <4>1, <4>2
    <3> QED
      BY <1>1, <3>1, <3>3, <3>4
  <2> QED
    BY <1>1, <2>1, <2>4, <2>5, <2>6, <2>7 DEF RingHolds
<1> QED
  BY <1>2, <1>3

LEMMA PagerStep == Fits /\ PagerInv /\ [KvNext]_kvVars => PagerInv'
<1> SUFFICES ASSUME Fits, PagerInv, [KvNext]_kvVars PROVE PagerInv'
  OBVIOUS
<1>t. /\ PagerTypes /\ FetchIsOwed /\ RESIDENT \in Nat /\ Len(kv_log) \in Nat
      /\ Pos \subseteq Nat /\ kv_flash_idx \in Nat
  BY Geometry, LenProperties DEF PagerInv, PagerTypes, Pos
<1>1. ASSUME KvCycle
      PROVE  PagerInv'
  <2>1. PICK new \in Appends : AppendRow(new)
    BY <1>1 DEF KvCycle
  <2>2. /\ kv_ring' \in [KvSlot -> Row] /\ kv_log' \in Seq(Row)
        /\ kv_count' = Len(kv_log') /\ Len(kv_log') <= APPENDS
        /\ Len(kv_log) <= Len(kv_log') /\ Len(kv_log') \in Nat
        /\ RingHolds'
    BY <2>1, AppendStep, LenProperties
  <2>3. CASE \E idx \in Appended : GatherResident(idx)
    <3>1. PICK idx \in Appended : GatherResident(idx)
      BY <2>3
    <3>2. kv_row_out' \in Row /\ idx \in Pos
      BY <1>t, <3>1 DEF GatherResident, ReadRing, PagerTypes, Appended
    <3>3. PagerTypes'
      BY <1>t, <2>2, <3>1, <3>2 DEF GatherResident, PagerTypes, KvSlot
    <3>4. FetchIsOwed'
      BY <1>t, <2>2, <3>1 DEF GatherResident, FetchIsOwed
    <3> QED
      BY <2>2, <3>3, <3>4 DEF PagerInv
  <2>4. CASE \E idx \in Appended : GatherCold(idx)
    <3>1. PICK idx \in Appended : GatherCold(idx)
      BY <2>4
    <3>2. idx \in Pos /\ idx < Len(kv_log) /\ idx \in Nat
      BY <1>t, <3>1 DEF Appended
    <3>3. idx + RESIDENT < Len(kv_log)
      BY <1>t, <3>1, <3>2, WindowFacts DEF GatherCold
    <3>4. PagerTypes'
      BY <1>t, <2>2, <3>1, <3>2 DEF GatherCold, PagerTypes, KvSlot
    <3>5. FetchIsOwed'
      BY <1>t, <2>2, <3>1, <3>2, <3>3 DEF GatherCold, FetchIsOwed
    <3> QED
      BY <2>2, <3>4, <3>5 DEF PagerInv
  <2>5. CASE NoGatherTaken
    <3>1. PagerTypes'
      BY <1>t, <2>2, <2>5 DEF NoGatherTaken, PagerTypes, KvSlot
    <3>2. FetchIsOwed'
      BY <1>t, <2>2, <2>5 DEF NoGatherTaken, FetchIsOwed
    <3> QED
      BY <2>2, <3>1, <3>2 DEF PagerInv
  <2>6. CASE FlashDone
    <3>1. kv_row_out' \in Row
      <4>1. kv_flash_idx + 1 \in 1 .. Len(kv_log)
        BY <1>t, <2>6 DEF FetchIsOwed, FlashDone
      <4> QED
        BY <2>6, <4>1, <1>t, ElementOfSeq DEF FlashDone, PagerTypes
    <3>2. PagerTypes'
      BY <1>t, <2>2, <2>6, <3>1 DEF FlashDone, PagerTypes, KvSlot
    <3>3. FetchIsOwed'
      BY <1>t, <2>2, <2>6 DEF FlashDone, FetchIsOwed
    <3> QED
      BY <2>2, <3>2, <3>3 DEF PagerInv
  <2> QED
    BY <1>1, <2>3, <2>4, <2>5, <2>6 DEF KvCycle, Gather
<1>2. CASE KvReset
  <2>1. KvInit'
    BY <1>2 DEF KvReset, KvInit, KvSlot
  <2> QED
    BY <2>1, PagerInit, PTL
<1>3. CASE UNCHANGED kvVars
  BY <1>3 DEF kvVars, PagerInv, PagerTypes, RingHolds, FetchIsOwed
<1> QED
  BY <1>1, <1>2, <1>3 DEF KvNext

(* The pager's window is right in every geometry that fits: the resident   *)
(* positions are the last rows appended, the ring holds their rows, and    *)
(* the Flash is only ever asked for a row that has left it.                *)
THEOREM WindowStaysExact == Fits => (KvSpec => []WindowIsExact)
<1> SUFFICES ASSUME Fits PROVE KvSpec => []WindowIsExact
  OBVIOUS
<1>1. KvInit => PagerInv
  BY PagerInit
<1>2. PagerInv /\ [KvNext]_kvVars => PagerInv'
  BY PagerStep
<1>3. PagerInv => WindowIsExact
  BY PagerIsExact
<1> QED
  BY <1>1, <1>2, <1>3, PTL DEF KvSpec
-----------------------------------------------------------------------------
(* A gather is answered with the row appended at its position: at once     *)
(* from the ring, or from Flash after a while, and then it is the one owed.*)
LEMMA LogStep ==
  Fits /\ PagerInv /\ [KvNext]_kvVars => [KvCache!Next]_(KvCache!vars)
<1> SUFFICES ASSUME Fits, PagerInv, [KvNext]_kvVars
             PROVE  [KvCache!Next]_(KvCache!vars)
  OBVIOUS
<1>t. /\ PagerTypes /\ FetchIsOwed /\ RESIDENT \in Nat /\ Len(kv_log) \in Nat
      /\ kv_flash_idx \in Nat /\ NoGather \notin Nat
  BY Geometry, LenProperties, PagerAssumption DEF PagerInv, PagerTypes, Pos
<1>1. ASSUME KvCycle
      PROVE  KvCache!Next
  <2>1. PICK new \in Appends : AppendRow(new)
    BY <1>1 DEF KvCycle
  <2>2. KvCache!AppendRow
    BY <2>1 DEF KvCache!AppendRow, AppendRow, Appends
  <2>3. CASE \E idx \in Appended : GatherResident(idx)
    <3>1. PICK idx \in Appended : GatherResident(idx)
      BY <2>3
    <3>2. idx \in Nat /\ idx \in 0 .. Len(kv_log) - 1
      BY <1>t, <3>1, Geometry DEF Appended, Pos
    <3>3. kv_row_out' = kv_log[idx + 1]
      BY <3>1, PagerIsExact DEF GatherResident, WindowIsExact, ResidentIsLastRows
    <3>4. kv_asked = NoGather /\ kv_asked' = NoGather
      BY <1>t, <3>1 DEF GatherResident, FetchIsOwed
    <3>5. KvCache!Serve
      BY <3>1, <3>2, <3>3, <3>4 DEF GatherResident, KvCache!Serve, KvCache!Position, KvCache!RowAt
    <3> QED
      BY <2>2, <3>5 DEF KvCache!Next
  <2>4. CASE \E idx \in Appended : GatherCold(idx)
    <3>1. PICK idx \in Appended : GatherCold(idx)
      BY <2>4
    <3>2. idx \in 0 .. Len(kv_log) - 1
      BY <1>t, <3>1, Geometry DEF Appended, Pos
    <3>3. KvCache!Delay
      BY <1>t, <3>1, <3>2 DEF GatherCold, FetchIsOwed, KvCache!Delay, KvCache!Position
    <3> QED
      BY <2>2, <3>3 DEF KvCache!Next
  <2>5. CASE NoGatherTaken
    <3>1. KvCache!Quiet
      BY <2>5 DEF NoGatherTaken, KvCache!Quiet
    <3> QED
      BY <2>2, <3>1 DEF KvCache!Next
  <2>6. CASE FlashDone
    <3>1. KvCache!Deliver
      BY <1>t, <2>6 DEF FlashDone, FetchIsOwed, KvCache!Deliver, KvCache!RowAt
    <3> QED
      BY <2>2, <3>1 DEF KvCache!Next
  <2> QED
    BY <1>1, <2>3, <2>4, <2>5, <2>6 DEF KvCycle, Gather
<1>2. CASE KvReset
  BY <1>2 DEF KvReset, KvCache!Next, KvCache!Reset
<1>3. CASE UNCHANGED kvVars
  BY <1>3 DEF kvVars, KvCache!vars
<1> QED
  BY <1>1, <1>2, <1>3 DEF KvNext

(* The pager is the log of the rows appended, in every geometry that fits: *)
(* every accepted gather is answered with the row of its position, although*)
(* the rows after it are appended, and it is overwritten, meanwhile.       *)
THEOREM PagerIsLog == Fits => (KvSpec => ImplementsKvLog)
<1> SUFFICES ASSUME Fits PROVE KvSpec => ImplementsKvLog
  OBVIOUS
<1>1. KvInit => PagerInv /\ KvCache!Init
  BY PagerInit DEF KvInit, KvCache!Init
<1>2. PagerInv /\ [KvNext]_kvVars => PagerInv'
  BY PagerStep
<1>3. PagerInv /\ [KvNext]_kvVars => [KvCache!Next]_(KvCache!vars)
  BY LogStep
<1> QED
  BY <1>1, <1>2, <1>3, PTL DEF KvSpec, ImplementsKvLog, KvCache!Spec
-----------------------------------------------------------------------------
(* The word of a place, the places of a descriptor, and where a cursor may *)
(* stand: at a word, before a segment or behind the last.                  *)
WordAt(segs, i, o) ==
  [seg |-> i, off |-> o, addr |-> (segs[i].dbase + o) % 2^ADDR_W,
   word |-> (segs[i].fbase + o) % 2^ADDR_W]
IsPlace(segs, n, i, o) == i \in 0 .. n - 1 /\ o \in 0 .. segs[i].len - 1
IsCursor(segs, n, i, o) == i \in 0 .. n /\ o \in Nat /\ (o = 0 \/ IsPlace(segs, n, i, o))
Precedes(i, o, j, p) == i < j \/ (i = j /\ o < p)
Rank(segs, n, i, o) == Cardinality(Passed(segs, n, i, o))

LEMMA WordsFacts ==
  ASSUME NEW segs \in [Index -> Segment], NEW n \in 0 .. SEG_MAX
  PROVE  /\ IsFiniteSet(Words(segs, n))
         /\ \A i \in 0 .. n - 1 : segs[i].len \in Nat
         /\ \A w : w \in Words(segs, n) <=>
              \E i, o \in Nat : IsPlace(segs, n, i, o) /\ w = WordAt(segs, i, o)
<1>1. /\ SEG_MAX \in Nat /\ n \in Nat /\ 0 .. n - 1 \subseteq Index
      /\ \A i \in Index : segs[i].len \in Nat
  BY LoaderAssumption DEF Index
<1> DEFINE Row1(i) == {WordAt(segs, i, o) : o \in 0 .. segs[i].len - 1}
           Rows == {Row1(i) : i \in 0 .. n - 1}
<1>2. Words(segs, n) = UNION Rows
  BY DEF Words, WordAt
<1>3. ASSUME NEW i \in 0 .. n - 1 PROVE IsFiniteSet(Row1(i))
  <2> DEFINE f == [o \in 0 .. segs[i].len - 1 |-> WordAt(segs, i, o)]
  <2>1. IsFiniteSet(0 .. segs[i].len - 1)
    BY <1>1, FS_Interval, SMTT(30)
  <2>2. f \in Surjection(0 .. segs[i].len - 1, Row1(i))
    BY DEF Surjection
  <2> QED
    BY <2>1, <2>2, FS_Surjection
<1>4. IsFiniteSet(Rows)
  <2> DEFINE f == [i \in 0 .. n - 1 |-> Row1(i)]
  <2>1. IsFiniteSet(0 .. n - 1)
    BY <1>1, FS_Interval
  <2>2. f \in Surjection(0 .. n - 1, Rows)
    <3> HIDE DEF Row1
    <3> QED
      BY DEF Surjection
  <2> QED
    BY <2>1, <2>2, FS_Surjection
<1>5. IsFiniteSet(Words(segs, n))
  <2> HIDE DEF Row1
  <2> QED
    BY <1>2, <1>3, <1>4, FS_UNION
<1>6. ASSUME NEW w
      PROVE  w \in Words(segs, n) <=>
               \E i, o \in Nat : IsPlace(segs, n, i, o) /\ w = WordAt(segs, i, o)
  BY <1>1, <1>2 DEF IsPlace
<1> QED
  BY <1>1, <1>5, <1>6

(* What a cursor has passed, as it moves.                                  *)
LEMMA PassedFacts ==
  ASSUME NEW segs \in [Index -> Segment], NEW n \in 0 .. SEG_MAX
  PROVE  /\ Passed(segs, n, 0, 0) = {}
         /\ Passed(segs, n, n, 0) = Words(segs, n)
         /\ \A i, o \in Nat : IsPlace(segs, n, i, o) =>
              /\ WordAt(segs, i, o) \in Words(segs, n) \ Passed(segs, n, i, o)
              /\ \A w \in Words(segs, n) \ Passed(segs, n, i, o) :
                   w # WordAt(segs, i, o) => i < w.seg \/ (i = w.seg /\ o < w.off)
              /\ o = segs[i].len - 1 =>
                   Passed(segs, n, i + 1, 0) = Passed(segs, n, i, o) \cup {WordAt(segs, i, o)}
              /\ o # segs[i].len - 1 =>
                   Passed(segs, n, i, o + 1) = Passed(segs, n, i, o) \cup {WordAt(segs, i, o)}
         /\ \A i \in 0 .. n - 1 : segs[i].len = 0 => Passed(segs, n, i + 1, 0) = Passed(segs, n, i, 0)
         /\ \A i, o, j, p \in Nat : ~Precedes(j, p, i, o) =>
              Passed(segs, n, i, o) \subseteq Passed(segs, n, j, p)
<1>1. /\ n \in Nat /\ \A i \in 0 .. n - 1 : segs[i].len \in Nat
      /\ \A w : w \in Words(segs, n) <=>
           \E i, o \in Nat : IsPlace(segs, n, i, o) /\ w = WordAt(segs, i, o)
  BY WordsFacts, LoaderAssumption
<1>2. \A w \in Words(segs, n) :
        /\ w.seg \in 0 .. n - 1 /\ w.off \in 0 .. segs[w.seg].len - 1
        /\ w = WordAt(segs, w.seg, w.off)
  BY <1>1 DEF WordAt, IsPlace
<1>3. \A i, o \in Nat : IsPlace(segs, n, i, o) =>
        /\ WordAt(segs, i, o) \in Words(segs, n)
        /\ WordAt(segs, i, o).seg = i /\ WordAt(segs, i, o).off = o
  BY <1>1 DEF WordAt
<1>4. \A i, o : \A w : w \in Passed(segs, n, i, o) <=>
        w \in Words(segs, n) /\ (w.seg < i \/ (w.seg = i /\ w.off < o))
  BY DEF Passed
<1>5. Passed(segs, n, 0, 0) = {}
  BY <1>1, <1>2, <1>4
<1>6. Passed(segs, n, n, 0) = Words(segs, n)
  <2>1. \A w \in Words(segs, n) : w.seg < n
    BY <1>1, <1>2
  <2>2. \A w : w \in Passed(segs, n, n, 0) <=> w \in Words(segs, n)
    BY <1>4, <2>1
  <2> QED
    BY <2>2
<1>7. ASSUME NEW i \in Nat, NEW o \in Nat, IsPlace(segs, n, i, o)
      PROVE  /\ WordAt(segs, i, o) \in Words(segs, n) \ Passed(segs, n, i, o)
             /\ \A w \in Words(segs, n) \ Passed(segs, n, i, o) :
                  w # WordAt(segs, i, o) => i < w.seg \/ (i = w.seg /\ o < w.off)
             /\ o = segs[i].len - 1 =>
                  Passed(segs, n, i + 1, 0) = Passed(segs, n, i, o) \cup {WordAt(segs, i, o)}
             /\ o # segs[i].len - 1 =>
                  Passed(segs, n, i, o + 1) = Passed(segs, n, i, o) \cup {WordAt(segs, i, o)}
  <2>1. /\ WordAt(segs, i, o) \in Words(segs, n)
        /\ WordAt(segs, i, o).seg = i /\ WordAt(segs, i, o).off = o
        /\ i \in 0 .. n - 1 /\ o < segs[i].len /\ segs[i].len \in Nat
    BY <1>1, <1>3, <1>7 DEF IsPlace
  <2>2. WordAt(segs, i, o) \notin Passed(segs, n, i, o)
    BY <1>4, <2>1
  <2>3. \A w \in Words(segs, n) \ Passed(segs, n, i, o) :
          w # WordAt(segs, i, o) => i < w.seg \/ (i = w.seg /\ o < w.off)
    <3> SUFFICES ASSUME NEW w \in Words(segs, n) \ Passed(segs, n, i, o),
                        ~(i < w.seg \/ (i = w.seg /\ o < w.off))
                 PROVE  w = WordAt(segs, i, o)
      OBVIOUS
    <3>1. w.seg \in Nat /\ w.off \in Nat /\ w = WordAt(segs, w.seg, w.off)
      BY <1>2, <2>1
    <3>2. w.seg = i /\ w.off = o
      BY <1>4, <3>1
    <3> QED
      BY <3>1, <3>2
  <2>4. ASSUME o = segs[i].len - 1
        PROVE  Passed(segs, n, i + 1, 0) = Passed(segs, n, i, o) \cup {WordAt(segs, i, o)}
    <3>1. ASSUME NEW w \in Passed(segs, n, i + 1, 0)
          PROVE  w \in Passed(segs, n, i, o) \/ w = WordAt(segs, i, o)
      <4>1. w \in Words(segs, n) /\ w.seg < i + 1
        BY <3>1, <1>2, <1>4
      <4>2. w.seg \in Nat /\ w.off \in 0 .. segs[w.seg].len - 1
        BY <4>1, <1>2
      <4>3. w.seg = i => w.off <= o
        BY <2>4, <4>2, <2>1
      <4>4. ~(i < w.seg \/ (i = w.seg /\ o < w.off))
        BY <4>1, <4>2, <4>3, <2>1
      <4> QED
        BY <4>1, <4>4, <2>3
    <3>2. ASSUME NEW w \in Passed(segs, n, i, o)
          PROVE  w \in Passed(segs, n, i + 1, 0)
      <4>1. w \in Words(segs, n) /\ w.seg <= i /\ w.seg \in Nat
        BY <3>2, <1>2, <1>4
      <4> QED
        BY <4>1, <1>4
    <3>3. WordAt(segs, i, o) \in Passed(segs, n, i + 1, 0)
      BY <2>1, <1>4
    <3> QED
      BY <3>1, <3>2, <3>3
  <2>5. ASSUME o # segs[i].len - 1
        PROVE  Passed(segs, n, i, o + 1) = Passed(segs, n, i, o) \cup {WordAt(segs, i, o)}
    <3>1. ASSUME NEW w \in Passed(segs, n, i, o + 1)
          PROVE  w \in Passed(segs, n, i, o) \/ w = WordAt(segs, i, o)
      <4>1. w \in Words(segs, n) /\ (w.seg < i \/ (w.seg = i /\ w.off < o + 1))
        BY <3>1, <1>4
      <4>2. w.seg \in Nat /\ w.off \in Nat
        BY <4>1, <1>2
      <4> QED
        BY <4>1, <4>2, <2>3
    <3>2. ASSUME NEW w \in Passed(segs, n, i, o)
          PROVE  w \in Passed(segs, n, i, o + 1)
      <4>1. w \in Words(segs, n) /\ (w.seg < i \/ (w.seg = i /\ w.off < o)) /\ w.off \in Nat
        BY <3>2, <1>2, <1>4
      <4> QED
        BY <4>1, <1>4
    <3>3. WordAt(segs, i, o) \in Passed(segs, n, i, o + 1)
      BY <2>1, <1>4
    <3> QED
      BY <3>1, <3>2, <3>3
  <2> QED
    BY <2>1, <2>2, <2>3, <2>4, <2>5
<1>8. ASSUME NEW i \in 0 .. n - 1, segs[i].len = 0
      PROVE  Passed(segs, n, i + 1, 0) = Passed(segs, n, i, 0)
  <2>1. \A w \in Words(segs, n) : w.seg # i /\ w.seg \in Nat /\ w.off \in Nat
    BY <1>2, <1>8
  <2>2. \A w \in Words(segs, n) : /\ w.seg < i + 1 <=> w.seg < i
                                 /\ ~(w.seg = i + 1 /\ w.off < 0)
    BY <2>1
  <2>3. \A w : w \in Passed(segs, n, i + 1, 0) <=> w \in Passed(segs, n, i, 0)
    BY <1>4, <2>1, <2>2
  <2> QED
    BY <2>3
<1>9. ASSUME NEW i \in Nat, NEW o \in Nat, NEW j \in Nat, NEW p \in Nat, ~Precedes(j, p, i, o)
      PROVE  Passed(segs, n, i, o) \subseteq Passed(segs, n, j, p)
  <2> SUFFICES ASSUME NEW w \in Passed(segs, n, i, o) PROVE w \in Passed(segs, n, j, p)
    OBVIOUS
  <2>1. w \in Words(segs, n) /\ (w.seg < i \/ (w.seg = i /\ w.off < o))
        /\ w.seg \in Nat /\ w.off \in Nat
    BY <1>2, <1>4
  <2> QED
    BY <1>4, <1>9, <2>1 DEF Precedes
<1> QED
  BY <1>5, <1>6, <1>7, <1>8, <1>9

LEMMA RankFacts ==
  ASSUME NEW segs \in [Index -> Segment], NEW n \in 0 .. SEG_MAX
  PROVE  /\ \A i, o : IsFiniteSet(Passed(segs, n, i, o)) /\ Rank(segs, n, i, o) \in Nat
         /\ Rank(segs, n, 0, 0) = 0 /\ Rank(segs, n, n, 0) = Cardinality(Words(segs, n))
         /\ \A i, o, j, p \in Nat : ~Precedes(j, p, i, o) => Rank(segs, n, i, o) <= Rank(segs, n, j, p)
<1>1. ASSUME NEW i, NEW o
      PROVE  IsFiniteSet(Passed(segs, n, i, o)) /\ Rank(segs, n, i, o) \in Nat
  <2>1. Passed(segs, n, i, o) \in SUBSET Words(segs, n)
    BY DEF Passed
  <2> QED
    BY <2>1, WordsFacts, FS_Subset, FS_CardinalityType DEF Rank
<1>2. Rank(segs, n, 0, 0) = 0 /\ Rank(segs, n, n, 0) = Cardinality(Words(segs, n))
  BY PassedFacts, FS_EmptySet DEF Rank
<1>3. ASSUME NEW i \in Nat, NEW o \in Nat, NEW j \in Nat, NEW p \in Nat, ~Precedes(j, p, i, o)
      PROVE  Rank(segs, n, i, o) <= Rank(segs, n, j, p)
  <2>1. Passed(segs, n, i, o) \in SUBSET Passed(segs, n, j, p)
    BY <1>3, PassedFacts
  <2> QED
    BY <2>1, <1>1, FS_Subset DEF Rank
<1> QED
  BY <1>1, <1>2, <1>3
-----------------------------------------------------------------------------
(* The words of which the read was issued; what the k-th word issued and   *)
(* not yet written is held in: a FIFO slot, or a read the Flash has.       *)
Read == Passed(seg_q, ncount_q, rseg, roff)
Ring(h, k) == IF h + k < BURST THEN h + k ELSE h + k - BURST
Held(mem, h, fc, fl, k) == IF k < fc THEN mem[Ring(h, k)] ELSE fl[k - fc + 1]

Fetched == {(b + o) % 2^ADDR_W : b \in Nat, o \in Nat}

BootTypes ==
  /\ busy \in BOOLEAN /\ done \in BOOLEAN /\ words_done \in Nat
  /\ seg_q \in [Index -> Segment] /\ ncount_q \in 0 .. SEG_MAX
  /\ fifo_mem \in [Slot -> Fetched \cup {Unwritten}]
  /\ head \in Slot /\ tail \in Slot /\ occ \in 0 .. BURST /\ fcnt \in Nat
  /\ flight \in Seq(Fetched)

(* The write cursor never overtakes the read cursor.                       *)
CursorsInOrder ==
  /\ IsCursor(seg_q, ncount_q, rseg, roff) /\ IsCursor(seg_q, ncount_q, wseg, woff)
  /\ ~Precedes(rseg, roff, wseg, woff)

(* A word is issued before it is written, and those between the cursors    *)
(* are in the pipeline in the order of their places.                       *)
PipelineCounts == occ = Len(flight) + fcnt /\ tail = Ring(head, fcnt)
PipelineHolds ==
  /\ PipelineCounts
  /\ Cardinality(Written) = words_done /\ Cardinality(Read) = words_done + occ
  /\ \A w \in Read \ Written :
       LET k == Rank(seg_q, ncount_q, w.seg, w.off) - words_done
       IN  k \in 0 .. occ - 1 /\ Held(fifo_mem, head, fcnt, flight, k) = w.word

BootInv ==
  /\ BootTypes /\ CursorsInOrder /\ PipelineHolds
  /\ ~busy => occ = 0 /\ rseg = wseg
  /\ done => ~busy /\ wseg = ncount_q /\ woff = 0

LEMMA BootExact == BootInv => PipelineIsExact
<1> SUFFICES ASSUME BootInv PROVE PipelineIsExact
  OBVIOUS
<1>1. OccupancyCounts
  BY DEF BootInv, PipelineHolds, PipelineCounts, OccupancyCounts
<1>2. QuietWhenIdle
  <2>1. Len(flight) \in Nat /\ fcnt \in Nat /\ flight \in Seq(Fetched)
    BY LenProperties DEF BootInv, BootTypes
  <2> QED
    BY <2>1, EmptySeq DEF BootInv, PipelineHolds, PipelineCounts, QuietWhenIdle
<1>3. ProgressIsExact
  BY PassedFacts DEF BootInv, BootTypes, PipelineHolds, ProgressIsExact, Written
<1> QED
  BY <1>1, <1>2, <1>3 DEF PipelineIsExact

(* Nothing is passed, held or owed when a copy begins.                     *)
Empty ==
  /\ seg_q \in [Index -> Segment] /\ ncount_q \in 0 .. SEG_MAX /\ words_done = 0
  /\ rseg = 0 /\ roff = 0 /\ wseg = 0 /\ woff = 0
  /\ head = 0 /\ tail = 0 /\ occ = 0 /\ fcnt = 0 /\ flight = << >>

LEMMA EmptyPipeline == Empty => CursorsInOrder /\ PipelineHolds
<1> SUFFICES ASSUME Empty PROVE CursorsInOrder /\ PipelineHolds
  OBVIOUS
<1>1. Read = {} /\ Written = {} /\ Cardinality({}) = 0
  BY PassedFacts, FS_EmptySet DEF Empty, Read, Written
<1>2. Len(flight) = 0 /\ BURST \in Nat \ {0} /\ SEG_MAX \in Nat
  BY LoaderAssumption DEF Empty
<1>3. PipelineHolds
  BY <1>1, <1>2 DEF Empty, PipelineHolds, PipelineCounts, Ring
<1>4. CursorsInOrder
  BY <1>2 DEF Empty, CursorsInOrder, IsCursor, Precedes
<1> QED
  BY <1>3, <1>4

LEMMA BootInit == Init => BootInv
<1> SUFFICES ASSUME Init PROVE BootInv
  OBVIOUS
<1>1. /\ seg_q \in [Index -> Segment] /\ ncount_q \in 0 .. SEG_MAX
      /\ 0 \in Slot /\ 0 \in 0 .. BURST
  BY LoaderAssumption DEF Init, Slot
<1>2. BootTypes
  <2>1. << >> \in Seq(Fetched)
    OBVIOUS
  <2>2. fifo_mem \in [Slot -> Fetched \cup {Unwritten}]
    BY DEF Init
  <2> QED
    BY <1>1, <2>1, <2>2 DEF Init, BootTypes
<1>3. CursorsInOrder /\ PipelineHolds
  BY <1>1, EmptyPipeline DEF Init, Empty
<1> QED
  BY <1>2, <1>3 DEF Init, BootInv

(* How a cursor moves on an edge: over the word it stands at when that is  *)
(* taken, over a segment without words, or not at all.                     *)
Moves(segs, n, i, o, taken, i2, o2) ==
  LET skip == ~IsPlace(segs, n, i, o) /\ i < n
  IN  /\ i2 = IF (taken /\ o = segs[i].len - 1) \/ skip THEN i + 1 ELSE i
      /\ o2 = IF (taken /\ o = segs[i].len - 1) \/ skip THEN 0 ELSE IF taken THEN o + 1 ELSE o

LEMMA CursorMoves ==
  ASSUME NEW segs \in [Index -> Segment], NEW n \in 0 .. SEG_MAX,
         NEW i, NEW o, NEW i2, NEW o2, NEW taken \in BOOLEAN,
         IsCursor(segs, n, i, o), taken => IsPlace(segs, n, i, o), Moves(segs, n, i, o, taken, i2, o2)
  PROVE  /\ IsCursor(segs, n, i2, o2)
         /\ taken => /\ WordAt(segs, i, o) \in Words(segs, n) \ Passed(segs, n, i, o)
                     /\ Passed(segs, n, i2, o2) = Passed(segs, n, i, o) \cup {WordAt(segs, i, o)}
         /\ ~taken => Passed(segs, n, i2, o2) = Passed(segs, n, i, o)
         /\ Rank(segs, n, i2, o2) = Rank(segs, n, i, o) + Bit(taken)
         /\ ~Precedes(i2, o2, i, o)
<1>1. /\ n \in Nat /\ i \in 0 .. n /\ o \in Nat
      /\ \A j \in 0 .. n - 1 : segs[j].len \in Nat
  BY WordsFacts, LoaderAssumption DEF IsCursor
<1>2. CASE taken
  <2>1. IsPlace(segs, n, i, o) /\ i \in 0 .. n - 1 /\ o \in 0 .. segs[i].len - 1
    BY <1>2 DEF IsPlace
  <2>2. /\ WordAt(segs, i, o) \in Words(segs, n) \ Passed(segs, n, i, o)
        /\ Passed(segs, n, i2, o2) = Passed(segs, n, i, o) \cup {WordAt(segs, i, o)}
    BY <1>1, <1>2, <2>1, PassedFacts DEF Moves
  <2>3. Rank(segs, n, i2, o2) = Rank(segs, n, i, o) + Bit(taken)
    BY <1>2, <2>2, RankFacts, FS_AddElement, ZenonT(60) DEF Rank, Bit
  <2>4. IsCursor(segs, n, i2, o2) /\ ~Precedes(i2, o2, i, o)
    BY <1>1, <1>2, <2>1 DEF Moves, IsCursor, IsPlace, Precedes
  <2> QED
    BY <1>2, <2>2, <2>3, <2>4
<1>3. CASE ~taken /\ ~IsPlace(segs, n, i, o) /\ i < n
  <2>1. o = 0 /\ i \in 0 .. n - 1 /\ segs[i].len = 0 /\ i2 = i + 1 /\ o2 = 0
    BY <1>1, <1>3 DEF IsCursor, IsPlace, Moves
  <2>2. Passed(segs, n, i2, o2) = Passed(segs, n, i, o)
    BY <2>1, PassedFacts
  <2> QED
    BY <1>1, <1>3, <2>1, <2>2, RankFacts DEF Rank, Bit, IsCursor, Precedes
<1>4. CASE ~taken /\ ~(~IsPlace(segs, n, i, o) /\ i < n)
  <2>1. i2 = i /\ o2 = o
    BY <1>4 DEF Moves
  <2> QED
    BY <1>1, <1>4, <2>1, RankFacts DEF Rank, Bit, Precedes
<1> QED
  BY <1>2, <1>3, <1>4

(* What an edge of a copy does to the pipeline.                            *)
PipelineEdge(issue, write, push, addr) ==
  /\ issue => occ < BURST
  /\ write => fcnt # 0
  /\ push => flight # << >>
  /\ fifo_mem' = IF push THEN [fifo_mem EXCEPT ![tail] = Head(flight)] ELSE fifo_mem
  /\ tail' = IF push THEN NextSlot(tail) ELSE tail
  /\ head' = IF write THEN NextSlot(head) ELSE head
  /\ occ' = occ + Bit(issue) - Bit(write)
  /\ fcnt' = fcnt + Bit(push) - Bit(write)
  /\ flight' = (IF push THEN Tail(flight) ELSE flight) \o (IF issue THEN <<addr>> ELSE << >>)

(* The k-th word of the pipeline after an edge is the k-th, or with a      *)
(* write the one after, of the pipeline before, or the read just issued.   *)
LEMMA PipelineMoves ==
  ASSUME BootTypes, PipelineCounts,
         NEW issue \in BOOLEAN, NEW write \in BOOLEAN, NEW push \in BOOLEAN, NEW addr \in Fetched,
         PipelineEdge(issue, write, push, addr)
  PROVE  /\ fifo_mem' \in [Slot -> Fetched \cup {Unwritten}]
         /\ head' \in Slot /\ tail' \in Slot /\ occ' \in 0 .. BURST /\ fcnt' \in Nat
         /\ flight' \in Seq(Fetched)
         /\ PipelineCounts'
         /\ \A k \in 0 .. occ' - 1 :
              Held(fifo_mem', head', fcnt', flight', k)
                = IF k + Bit(write) < occ
                    THEN Held(fifo_mem, head, fcnt, flight, k + Bit(write)) ELSE addr
<1>1. /\ BURST \in Nat \ {0} /\ fcnt \in Nat /\ occ \in Nat /\ occ <= BURST
      /\ head \in 0 .. BURST - 1 /\ tail \in 0 .. BURST - 1
      /\ flight \in Seq(Fetched) /\ Len(flight) \in Nat
  BY LoaderAssumption, LenProperties DEF BootTypes, Slot
<1>c. occ = Len(flight) + fcnt /\ tail = Ring(head, fcnt)
  BY DEF PipelineCounts
<1>g. /\ issue => occ < BURST
      /\ write => fcnt # 0
      /\ push => flight # << >>
  BY DEF PipelineEdge
<1> DEFINE left == IF push THEN Tail(flight) ELSE flight
           new == IF issue THEN <<addr>> ELSE << >>
<1>2. /\ left \in Seq(Fetched) /\ Len(left) = Len(flight) - Bit(push)
      /\ push => /\ Len(flight) > 0 /\ Head(flight) = flight[1] /\ flight[1] \in Fetched
                 /\ \A j \in 1 .. Len(left) : left[j] = flight[j + 1]
      /\ ~push => left = flight
  <2>1. CASE push
    <3>1. flight # << >>
      BY <1>g, <2>1
    <3>2. /\ Tail(flight) \in Seq(Fetched) /\ Len(Tail(flight)) = Len(flight) - 1
          /\ \A j \in 1 .. Len(Tail(flight)) : Tail(flight)[j] = flight[j + 1]
          /\ Head(flight) \in Fetched /\ Head(flight) = flight[1]
      BY <1>1, <3>1, HeadTailProperties
    <3>3. Len(flight) > 0
      BY <1>1, <3>1, EmptySeq
    <3> QED
      BY <2>1, <3>2, <3>3 DEF Bit
  <2>2. CASE ~push
    BY <1>1, <2>2 DEF Bit
  <2> QED
    BY <2>1, <2>2
<1>3. new \in Seq(Fetched) /\ Len(new) = Bit(issue) /\ (issue => new[1] = addr)
  BY DEF Bit
<1>4. /\ flight' \in Seq(Fetched) /\ Len(flight') = Len(left) + Len(new)
      /\ \A j \in 1 .. Len(left) : flight'[j] = left[j]
      /\ \A j \in 1 .. Len(new) : flight'[Len(left) + j] = new[j]
  <2>1. flight' = left \o new
    BY DEF PipelineEdge
  <2> HIDE DEF left, new
  <2>2. Len(left) \in Nat /\ Len(new) \in Nat
    BY <1>2, <1>3, LenProperties
  <2>3. /\ left \o new \in Seq(Fetched) /\ Len(left \o new) = Len(left) + Len(new)
        /\ \A i \in 1 .. Len(left) + Len(new) :
             (left \o new)[i] = IF i <= Len(left) THEN left[i] ELSE new[i - Len(left)]
    BY <1>2, <1>3, ConcatProperties
  <2>4. \A j \in 1 .. Len(left) : (left \o new)[j] = left[j]
    BY <2>2, <2>3
  <2>5. ASSUME NEW j \in 1 .. Len(new) PROVE (left \o new)[Len(left) + j] = new[j]
    <3>1. Len(left) + j \in 1 .. Len(left) + Len(new) /\ ~(Len(left) + j <= Len(left))
          /\ Len(left) + j - Len(left) = j
      BY <2>2
    <3> QED
      BY <2>3, <3>1
  <2> QED
    BY <2>1, <2>2, <2>3, <2>4, <2>5
<1> HIDE DEF left, new
<1>l. Len(left) \in Nat /\ Len(new) \in Nat
  BY <1>2, <1>3, LenProperties
<1>i. /\ fcnt \in Nat /\ occ \in Nat /\ Len(flight) \in Nat /\ occ = Len(flight) + fcnt
  BY <1>1, <1>c
<1>b. /\ Bit(issue) \in 0 .. 1 /\ (issue <=> Bit(issue) = 1)
      /\ Bit(write) \in 0 .. 1 /\ (write <=> Bit(write) = 1)
      /\ Bit(push) \in 0 .. 1 /\ (push <=> Bit(push) = 1)
  BY DEF Bit
<1>n. /\ occ' = occ + Bit(issue) - Bit(write)
      /\ fcnt' = fcnt + Bit(push) - Bit(write)
  BY DEF PipelineEdge
<1>v. /\ Len(left) = Len(flight) - Bit(push) /\ Len(new) = Bit(issue)
      /\ Len(flight') = Len(left) + Len(new)
  BY <1>2, <1>3, <1>4
<1>5. occ' = Len(flight') + fcnt' /\ occ' \in 0 .. BURST /\ fcnt' \in Nat
  <2>1. fcnt' \in Nat
    BY <1>b, <1>n, <1>i, <1>1, <1>g
  <2>2. occ' \in 0 .. BURST
    BY <1>b, <1>n, <1>i, <1>1, <1>g
  <2>3. Len(flight') = Len(flight) - Bit(push) + Bit(issue)
    BY <1>2, <1>3, <1>4
  <2> QED
    BY <2>1, <2>2, <2>3, <1>b, <1>n, <1>i, SMTT(30)
<1>o. occ' \in Nat /\ fcnt' \in Nat /\ Len(flight') \in Nat /\ occ' = Len(flight') + fcnt'
  <2>1. Len(flight') \in Nat
    BY <1>v, <1>l
  <2> QED
    BY <2>1, <1>5, <1>1
<1>6. push => fcnt < BURST
  BY <1>1, <1>2, <1>c
<1>7. head' \in 0 .. BURST - 1 /\ tail' \in 0 .. BURST - 1 /\ tail' = Ring(head', fcnt')
  BY <1>1, <1>6, <1>n, <1>c DEF PipelineEdge, NextSlot, Ring, Bit
<1>8. fifo_mem' \in [Slot -> Fetched \cup {Unwritten}]
  BY <1>2 DEF BootTypes, PipelineEdge
<1>9. ASSUME NEW k \in 0 .. occ' - 1
      PROVE  Held(fifo_mem', head', fcnt', flight', k)
               = IF k + Bit(write) < occ
                   THEN Held(fifo_mem, head, fcnt, flight, k + Bit(write)) ELSE addr
  <2> DEFINE j == k + Bit(write)
  <2>1. j \in Nat /\ k \in Nat /\ k < occ'
    BY <1>5 DEF Bit
  <2>2. CASE k < fcnt'
    <3>1. j < fcnt + Bit(push) /\ Ring(head', k) = Ring(head, j) /\ Ring(head, j) \in Slot
      <4>1. head' = IF write THEN NextSlot(head) ELSE head
        BY DEF PipelineEdge
      <4> QED
        BY <4>1, <2>1, <2>2, <1>1, <1>n, <1>g DEF Ring, NextSlot, Slot, Bit
    <3>2. CASE j < fcnt
      <4>1. push => Ring(head, j) # tail
        BY <3>2, <2>1, <1>1, <1>c, <1>6 DEF Ring
      <4>2. fifo_mem'[Ring(head, j)] = fifo_mem[Ring(head, j)]
        BY <3>1, <4>1 DEF BootTypes, PipelineEdge
      <4>3. j < occ
        BY <3>2, <2>1, <1>i
      <4> QED
        BY <2>2, <3>1, <3>2, <4>2, <4>3 DEF Held
    <3>3. CASE ~(j < fcnt)
      <4>1. push /\ j = fcnt /\ Ring(head, j) = tail /\ j < occ
        BY <3>1, <3>3, <2>1, <1>1, <1>2, <1>c DEF Bit
      <4>2. fifo_mem'[tail] = flight[1]
        BY <4>1, <1>2 DEF BootTypes, PipelineEdge
      <4> HIDE DEF j
      <4>3. Held(fifo_mem, head, fcnt, flight, j) = flight[1]
        BY <3>3, <4>1, <1>1 DEF Held
      <4>4. Held(fifo_mem', head', fcnt', flight', k) = flight[1]
        BY <2>2, <3>1, <4>1, <4>2 DEF Held
      <4> QED
        BY <4>1, <4>3, <4>4 DEF j
    <3> QED
      BY <3>2, <3>3
  <2>3. CASE ~(k < fcnt')
    <3> DEFINE f == fcnt'
               i == k - f + 1
               l == Len(flight')
               m == Len(left)
               p == Bit(push)
               w == Bit(write)
               c == Len(flight)
    <3>a. /\ f \in Nat /\ l \in Nat /\ k < l + f /\ ~(k < f) /\ k \in Nat
          /\ f = fcnt + p - w /\ p \in 0 .. 1 /\ w \in 0 .. 1
          /\ m = c - p /\ occ = c + fcnt /\ c \in Nat /\ fcnt \in Nat
          /\ i = k - f + 1 /\ j = k + w
      BY <2>1, <2>3, <1>o, <1>n, <1>v, <1>i, <1>b
    <3>b. p = Bit(push) /\ w = Bit(write) /\ f = fcnt' /\ l = Len(flight') /\ m = Len(left)
      OBVIOUS
    <3> HIDE DEF f, l, m, p, w, c, i, j
    <3>1. i \in 1 .. Len(left) + Len(new) /\ Held(fifo_mem', head', fcnt', flight', k) = flight'[i]
      <4>1. i \in 1 .. l
        BY <3>a
      <4>2. Held(fifo_mem', head', fcnt', flight', k) = flight'[i]
        BY <2>3, <3>a, <3>b DEF Held
      <4> QED
        BY <4>1, <4>2, <3>b, <1>4
    <3>2. j < occ <=> i <= Len(left)
      <4>1. j < occ <=> i <= m
        BY <3>a
      <4> QED
        BY <4>1, <3>b
    <3>3. CASE j < occ
      <4>1. flight'[i] = left[i] /\ i \in 1 .. Len(left)
        <5>1. i \in 1 .. Len(left)
          BY <3>1, <3>2, <3>3, <1>l, <3>a
        <5> QED
          BY <5>1, <1>4
      <4>2. left[i] = flight[i + Bit(push)]
        BY <4>1, <1>2, SMTT(30) DEF Bit
      <4>3. ~(j < fcnt) /\ i + p = j - fcnt + 1
        BY <3>a
      <4>4. Held(fifo_mem, head, fcnt, flight, j) = flight[i + p]
        BY <4>3 DEF Held
      <4>5. Held(fifo_mem', head', fcnt', flight', k) = Held(fifo_mem, head, fcnt, flight, j)
        BY <3>1, <3>b, <4>1, <4>2, <4>4
      <4> QED
        BY <3>3, <4>5 DEF j
    <3>4. CASE ~(j < occ)
      <4>1. issue /\ i = Len(left) + 1
        BY <3>1, <3>2, <3>4, <1>3, <1>l DEF Bit
      <4>2. flight'[i] = addr
        BY <4>1, <1>2, <1>3, <1>4 DEF Bit
      <4> QED
        BY <3>1, <3>4, <4>2 DEF j
    <3> QED
      BY <3>3, <3>4
  <2> QED
    BY <2>2, <2>3
<1> QED
  BY <1>4, <1>5, <1>7, <1>8, <1>9 DEF Slot, PipelineCounts

(* The write cursor passes only words the read cursor has passed, so the   *)
(* two stay in order; over a segment without words they go together.       *)
LEMMA OrderKept ==
  ASSUME NEW segs \in [Index -> Segment], NEW n \in 0 .. SEG_MAX,
         NEW i, NEW o, NEW i2, NEW o2, NEW j, NEW p, NEW j2, NEW p2,
         NEW issue \in BOOLEAN, NEW write \in BOOLEAN,
         IsCursor(segs, n, i, o), IsCursor(segs, n, j, p), ~Precedes(i, o, j, p),
         issue => IsPlace(segs, n, i, o), write => IsPlace(segs, n, j, p) /\ Precedes(j, p, i, o),
         Moves(segs, n, i, o, issue, i2, o2), Moves(segs, n, j, p, write, j2, p2)
  PROVE  ~Precedes(i2, o2, j2, p2)
<1>1. /\ n \in Nat /\ i \in 0 .. n /\ o \in Nat /\ j \in 0 .. n /\ p \in Nat
      /\ \A a \in 0 .. n - 1 : segs[a].len \in Nat
  BY WordsFacts, LoaderAssumption DEF IsCursor
<1>2. i2 \in Nat /\ o2 \in Nat /\ ~Precedes(i2, o2, i, o)
  BY <1>1, CursorMoves DEF IsCursor
<1>3. CASE write
  <2>1. /\ p \in 0 .. segs[j].len - 1 /\ segs[j].len \in Nat
        /\ \/ j < i
           \/ i = j /\ p < o /\ o <= segs[i].len - 1
    BY <1>1, <1>3 DEF IsCursor, IsPlace, Precedes
  <2>2. \/ p = segs[j].len - 1 /\ j2 = j + 1 /\ p2 = 0
        \/ p # segs[j].len - 1 /\ j2 = j /\ p2 = p + 1
    BY <1>3 DEF Moves
  <2>3. ~Precedes(i, o, j2, p2) /\ j2 \in Nat /\ p2 \in Nat
    BY <1>1, <2>1, <2>2 DEF Precedes
  <2> QED
    BY <1>1, <1>2, <2>3 DEF Precedes
<1>4. CASE ~write /\ ~IsPlace(segs, n, j, p) /\ j < n
  <2>1. p = 0 /\ j2 = j + 1 /\ p2 = 0 /\ segs[j].len = 0
    BY <1>1, <1>4 DEF IsCursor, IsPlace, Moves
  <2>2. CASE i = j
    <3>1. o = 0 /\ ~IsPlace(segs, n, i, o)
      BY <1>1, <2>1, <2>2 DEF IsCursor, IsPlace
    <3>2. i2 = i + 1 /\ o2 = 0
      BY <1>4, <2>2, <3>1 DEF Moves
    <3> QED
      BY <1>1, <2>1, <2>2, <3>2 DEF Precedes
  <2>3. CASE i # j
    <3>1. j + 1 <= i
      BY <1>1, <2>3 DEF Precedes
    <3> QED
      BY <1>1, <1>2, <2>1, <3>1 DEF Precedes
  <2> QED
    BY <2>2, <2>3
<1>5. CASE ~write /\ ~(~IsPlace(segs, n, j, p) /\ j < n)
  <2>1. j2 = j /\ p2 = p
    BY <1>5 DEF Moves
  <2> QED
    BY <1>1, <1>2, <2>1 DEF Precedes
<1> QED
  BY <1>3, <1>4, <1>5

(* What an edge of a copy is made of: the two cursors move over the words  *)
(* issued and written, and the word written is one that was fetched.       *)
CopyEdge(issue, write, push, addr) ==
  /\ busy
  /\ issue => IsPlace(seg_q, ncount_q, rseg, roff) /\ addr = WordAt(seg_q, rseg, roff).word
  /\ write => IsPlace(seg_q, ncount_q, wseg, woff) /\ Precedes(wseg, woff, rseg, roff)
  /\ Moves(seg_q, ncount_q, rseg, roff, issue, rseg', roff')
  /\ Moves(seg_q, ncount_q, wseg, woff, write, wseg', woff')
  /\ PipelineEdge(issue, write, push, addr)
  /\ words_done' = words_done + Bit(write)
  /\ busy' = (wseg # ncount_q) /\ done' = (wseg = ncount_q \/ done)
  /\ seg_q' = seg_q /\ ncount_q' = ncount_q

LEMMA CopyIsEdge ==
  ASSUME BootInv, NEW flash_ready \in BOOLEAN, NEW flash_rvalid \in Returns,
         NEW ddr_ready \in BOOLEAN, Copy(flash_ready, flash_rvalid, ddr_ready)
  PROVE  \E addr \in Fetched :
           /\ CopyEdge(flash_req /\ flash_ready, ddr_we /\ ddr_ready, flash_rvalid, addr)
           /\ flash_rvalid \in BOOLEAN
<1> DEFINE issue == flash_req /\ flash_ready
           write == ddr_we /\ ddr_ready
           addr == IF issue THEN flash_addr ELSE 0 % 2^ADDR_W
<1>1. /\ SEG_MAX \in Nat /\ ncount_q \in Nat /\ BURST \in Nat /\ occ \in Nat /\ fcnt \in Nat
      /\ seg_q \in [Index -> Segment] /\ ncount_q \in 0 .. SEG_MAX /\ words_done \in Nat
      /\ IsCursor(seg_q, ncount_q, rseg, roff) /\ IsCursor(seg_q, ncount_q, wseg, woff)
      /\ ~Precedes(rseg, roff, wseg, woff)
  BY LoaderAssumption DEF BootInv, BootTypes, CursorsInOrder
<1>2. \A i \in 0 .. ncount_q - 1 : seg_q[i] \in Segment /\ seg_q[i].len \in Nat /\ seg_q[i].fbase \in Nat
  BY <1>1, LoaderAssumption DEF Index
<1>3. busy
  BY DEF Copy
<1>4. read_active <=> IsPlace(seg_q, ncount_q, rseg, roff)
  BY <1>1, <1>2, <1>3 DEF read_active, IsPlace, IsCursor
<1>5. write_active <=> IsPlace(seg_q, ncount_q, wseg, woff)
  BY <1>1, <1>2, <1>3 DEF write_active, IsPlace, IsCursor
<1>6. Moves(seg_q, ncount_q, rseg, roff, issue, rseg', roff')
  <2>1. /\ rseg' = IF (issue /\ SegOver(rseg, roff)) \/ read_skip THEN rseg + 1 ELSE rseg
        /\ roff' = IF (issue /\ SegOver(rseg, roff)) \/ read_skip THEN 0 ELSE roff + Bit(issue)
    BY DEF Copy
  <2> HIDE DEF issue
  <2> QED
    BY <1>1, <1>4, <2>1 DEF Moves, SegOver, read_skip, Bit, IsCursor
<1>7. Moves(seg_q, ncount_q, wseg, woff, write, wseg', woff')
  <2>1. /\ wseg' = IF (write /\ SegOver(wseg, woff)) \/ write_skip THEN wseg + 1 ELSE wseg
        /\ woff' = IF (write /\ SegOver(wseg, woff)) \/ write_skip THEN 0 ELSE woff + Bit(write)
    BY DEF Copy
  <2> HIDE DEF write
  <2> QED
    BY <1>1, <1>5, <2>1 DEF Moves, SegOver, write_skip, Bit, IsCursor
<1>8. flash_rvalid \in BOOLEAN /\ (flash_rvalid => flight # << >>)
  BY DEF Returns
<1>9. PipelineEdge(issue, write, flash_rvalid, addr)
  BY <1>8 DEF Copy, PipelineEdge, flash_req, ddr_we, occ_next
<1>10. issue => IsPlace(seg_q, ncount_q, rseg, roff)
  BY <1>4 DEF flash_req
<1>11. ASSUME write
       PROVE  IsPlace(seg_q, ncount_q, wseg, woff) /\ Precedes(wseg, woff, rseg, roff)
  <2>1. IsPlace(seg_q, ncount_q, wseg, woff) /\ fcnt # 0
    BY <1>5, <1>11 DEF ddr_we
  <2>2. occ # 0
    <3>1. Len(flight) \in Nat
      BY LenProperties DEF BootInv, BootTypes
    <3> QED
      BY <1>1, <2>1, <3>1 DEF BootInv, PipelineHolds, PipelineCounts
  <2>3. Rank(seg_q, ncount_q, wseg, woff) = words_done
        /\ Rank(seg_q, ncount_q, rseg, roff) = words_done + occ
    BY DEF BootInv, PipelineHolds, Rank, Written, Read
  <2>4. ~(Rank(seg_q, ncount_q, rseg, roff) <= Rank(seg_q, ncount_q, wseg, woff))
    BY <1>1, <2>2, <2>3
  <2>5. rseg \in Nat /\ roff \in Nat /\ wseg \in Nat /\ woff \in Nat
    BY <1>1 DEF IsCursor
  <2> QED
    BY <1>1, <2>1, <2>4, <2>5, RankFacts
<1>12. addr \in Fetched /\ (issue => addr = WordAt(seg_q, rseg, roff).word)
  <2>1. CASE issue
    <3>1. seg_q[rseg].fbase \in Nat /\ roff \in Nat
      BY <1>1, <1>2, <1>10, <2>1 DEF IsPlace, IsCursor
    <3>2. addr = (seg_q[rseg].fbase + roff) % 2^ADDR_W
      BY <2>1 DEF flash_addr
    <3> QED
      BY <3>1, <3>2 DEF Fetched, WordAt
  <2>2. CASE ~issue
    <3>1. addr = (0 + 0) % 2^ADDR_W
      BY <2>2
    <3> HIDE DEF issue, addr
    <3> QED
      BY <2>2, <3>1 DEF Fetched
  <2> QED
    BY <2>1, <2>2
<1>13. CopyEdge(issue, write, flash_rvalid, addr)
  BY <1>3, <1>6, <1>7, <1>9, <1>10, <1>11, <1>12 DEF CopyEdge, Copy, all_written
<1> HIDE DEF addr
<1> QED
  BY <1>8, <1>12, <1>13

LEMMA CopyStep ==
  ASSUME BootInv, NEW issue \in BOOLEAN, NEW write \in BOOLEAN, NEW push \in BOOLEAN,
         NEW addr \in Fetched, CopyEdge(issue, write, push, addr)
  PROVE  BootInv'
<1>1. /\ SEG_MAX \in Nat /\ ncount_q \in Nat /\ BURST \in Nat /\ occ \in Nat
      /\ seg_q \in [Index -> Segment] /\ ncount_q \in 0 .. SEG_MAX /\ words_done \in Nat
      /\ IsCursor(seg_q, ncount_q, rseg, roff) /\ IsCursor(seg_q, ncount_q, wseg, woff)
      /\ ~Precedes(rseg, roff, wseg, woff)
  BY LoaderAssumption DEF BootInv, BootTypes, CursorsInOrder
<1>2. /\ seg_q' = seg_q /\ ncount_q' = ncount_q
      /\ Read' = Passed(seg_q, ncount_q, rseg', roff')
      /\ Written' = Passed(seg_q, ncount_q, wseg', woff')
  BY DEF CopyEdge, Read, Written
<1>3. /\ IsCursor(seg_q, ncount_q, rseg', roff')
      /\ issue => /\ WordAt(seg_q, rseg, roff) \in Words(seg_q, ncount_q) \ Read
                  /\ Read' = Read \cup {WordAt(seg_q, rseg, roff)}
      /\ ~issue => Read' = Read
      /\ Rank(seg_q, ncount_q, rseg', roff') = Rank(seg_q, ncount_q, rseg, roff) + Bit(issue)
  BY <1>1, <1>2, CursorMoves DEF CopyEdge, Read
<1>4. /\ IsCursor(seg_q, ncount_q, wseg', woff')
      /\ write => Written' = Written \cup {WordAt(seg_q, wseg, woff)}
      /\ ~write => Written' = Written
      /\ Rank(seg_q, ncount_q, wseg', woff') = Rank(seg_q, ncount_q, wseg, woff) + Bit(write)
  BY <1>1, <1>2, CursorMoves DEF CopyEdge, Written
<1>5. CursorsInOrder'
  <2>1. ~Precedes(rseg', roff', wseg', woff')
    BY <1>1, OrderKept DEF CopyEdge
  <2> QED
    BY <1>2, <1>3, <1>4, <2>1 DEF CursorsInOrder
<1>6. /\ fifo_mem' \in [Slot -> Fetched \cup {Unwritten}]
      /\ head' \in Slot /\ tail' \in Slot /\ occ' \in 0 .. BURST /\ fcnt' \in Nat
      /\ flight' \in Seq(Fetched)
      /\ PipelineCounts'
      /\ \A k \in 0 .. occ' - 1 :
           Held(fifo_mem', head', fcnt', flight', k)
             = IF k + Bit(write) < occ
                 THEN Held(fifo_mem, head, fcnt, flight, k + Bit(write)) ELSE addr
  <2>1. BootTypes /\ PipelineCounts /\ PipelineEdge(issue, write, push, addr)
    BY DEF BootInv, PipelineHolds, CopyEdge
  <2> QED
    BY <2>1, PipelineMoves
<1>7. BootTypes'
  <2>1. words_done' \in Nat
    BY <1>1 DEF CopyEdge, Bit
  <2>2. busy' \in BOOLEAN /\ done' \in BOOLEAN
    BY DEF CopyEdge, BootInv, BootTypes
  <2> QED
    BY <1>1, <1>2, <1>6, <2>1, <2>2 DEF BootTypes
<1>8. /\ words_done = Rank(seg_q, ncount_q, wseg, woff)
      /\ words_done + occ = Rank(seg_q, ncount_q, rseg, roff)
      /\ words_done' = words_done + Bit(write) /\ occ' = occ + Bit(issue) - Bit(write)
      /\ Bit(issue) \in 0 .. 1 /\ Bit(write) \in 0 .. 1 /\ (issue <=> Bit(issue) = 1)
  BY DEF BootInv, PipelineHolds, CopyEdge, PipelineEdge, Rank, Read, Written, Bit
<1>9. Cardinality(Written') = words_done' /\ Cardinality(Read') = words_done' + occ'
  <2>1. Rank(seg_q, ncount_q, wseg', woff') = words_done'
    BY <1>4, <1>8
  <2>2. Rank(seg_q, ncount_q, rseg', roff') = words_done + occ + Bit(issue)
    BY <1>3, <1>8
  <2>3. words_done' + occ' = words_done + occ + Bit(issue)
    BY <1>1, <1>8
  <2> QED
    BY <1>2, <2>1, <2>2, <2>3 DEF Rank
<1>10. ASSUME NEW w \in Read' \ Written'
       PROVE  LET k == Rank(seg_q, ncount_q, w.seg, w.off) - words_done'
              IN  /\ k \in 0 .. occ' - 1
                  /\ Held(fifo_mem', head', fcnt', flight', k) = w.word
  <2> DEFINE q == Rank(seg_q, ncount_q, w.seg, w.off)
             k == q - words_done'
             d == words_done'
             b == Bit(write)
             c == occ'
  <2>1. w \in Words(seg_q, ncount_q) /\ w.seg \in Nat /\ w.off \in Nat
    <3>1. w \in Words(seg_q, ncount_q)
      BY <1>2 DEF Passed
    <3> QED
      BY <1>1, <3>1, WordsFacts DEF WordAt
  <2>2. q \in Nat /\ d <= q
    <3>1. ~Precedes(w.seg, w.off, wseg', woff')
      BY <1>2, <2>1 DEF Passed, Precedes
    <3>2. wseg' \in Nat /\ woff' \in Nat
      BY <1>1, <1>4 DEF IsCursor
    <3>3. Rank(seg_q, ncount_q, wseg', woff') <= q
      BY <1>1, <2>1, <3>1, <3>2, RankFacts
    <3> QED
      BY <1>1, <1>2, <1>9, <3>3, RankFacts DEF Rank
  <2>3. /\ d = words_done + b /\ b \in 0 .. 1 /\ c = occ + Bit(issue) - b
        /\ k = q - d
    BY <1>8
  <2>4. \A m \in 0 .. c - 1 :
          Held(fifo_mem', head', fcnt', flight', m)
            = IF m + b < occ THEN Held(fifo_mem, head, fcnt, flight, m + b) ELSE addr
    BY <1>6
  <2> SUFFICES k \in 0 .. c - 1 /\ Held(fifo_mem', head', fcnt', flight', k) = w.word
    OBVIOUS
  <2>5. CASE w \in Read
    <3>1. w \in Read \ Written
      BY <1>4, <2>5
    <3>2. q - words_done \in 0 .. occ - 1 /\ Held(fifo_mem, head, fcnt, flight, q - words_done) = w.word
      BY <3>1 DEF BootInv, PipelineHolds
    <3> HIDE DEF q, d, b, c, k
    <3>3. k \in 0 .. c - 1 /\ k + b < occ /\ k + b = q - words_done
      BY <1>1, <1>8, <2>2, <2>3, <3>2
    <3> QED
      BY <2>4, <3>2, <3>3
  <2>6. CASE w \notin Read
    <3>1. issue /\ w = WordAt(seg_q, rseg, roff)
      BY <1>3, <2>6
    <3>2. w.seg = rseg /\ w.off = roff /\ w.word = addr
      BY <3>1 DEF CopyEdge, WordAt
    <3>3. q = words_done + occ
      BY <1>8, <3>2
    <3> HIDE DEF q, d, b, c, k
    <3>4. Bit(issue) = 1 /\ occ \in Nat /\ words_done \in Nat
      BY <1>1, <1>8, <3>1
    <3>5. c = occ + 1 - b /\ k = occ - b /\ b \in 0 .. 1
      BY <2>2, <2>3, <3>3, <3>4
    <3>6. k \in 0 .. c - 1 /\ ~(k + b < occ)
      BY <2>2, <2>3, <3>3, <3>4, <3>5
    <3> QED
      BY <2>4, <3>2, <3>6
  <2> QED
    BY <2>5, <2>6
<1>11. PipelineHolds'
  BY <1>2, <1>6, <1>9, <1>10 DEF PipelineHolds
<1>12. ASSUME wseg = ncount_q
       PROVE  occ = 0 /\ rseg = wseg /\ woff = 0 /\ ~issue /\ ~write
  <2>1. woff = 0 /\ rseg = ncount_q /\ roff = 0
    BY <1>1, <1>12 DEF IsCursor, IsPlace, Precedes
  <2>2. words_done = words_done + occ
    BY <1>8, <1>12, <2>1
  <2> QED
    BY <1>1, <1>12, <2>1, <2>2 DEF CopyEdge, IsPlace
<1>13. ASSUME wseg = ncount_q
       PROVE  occ' = 0 /\ rseg' = wseg' /\ wseg' = ncount_q' /\ woff' = 0
  <2>1. occ' = 0
    BY <1>1, <1>8, <1>12, <1>13 DEF Bit
  <2>2. wseg' = wseg /\ woff' = woff
    BY <1>1, <1>12, <1>13 DEF CopyEdge, Moves
  <2>3. rseg' = rseg
    BY <1>1, <1>12, <1>13 DEF CopyEdge, Moves
  <2> QED
    BY <1>2, <1>12, <1>13, <2>1, <2>2, <2>3
<1>14. ~busy' => occ' = 0 /\ rseg' = wseg'
  BY <1>13 DEF CopyEdge
<1>15. done' => ~busy' /\ wseg' = ncount_q' /\ woff' = 0
  BY <1>13 DEF CopyEdge, BootInv
<1> QED
  BY <1>5, <1>7, <1>11, <1>14, <1>15 DEF BootInv

LEMMA BootStep == BootInv /\ [Next]_vars => BootInv'
<1> SUFFICES ASSUME BootInv, [Next]_vars PROVE BootInv'
  OBVIOUS
<1>1. /\ SEG_MAX \in Nat /\ 0 \in 0 .. SEG_MAX /\ 0 \in Slot /\ 0 \in 0 .. BURST
      /\ NoSegment \in Segment
  BY LoaderAssumption DEF Slot
<1>2. Empty' => CursorsInOrder' /\ PipelineHolds'
  BY EmptyPipeline, PTL
<1>3. ASSUME Empty', busy' \in BOOLEAN, done' = FALSE,
             fifo_mem' \in [Slot -> Fetched \cup {Unwritten}]
      PROVE  BootInv'
  <2>1. BootTypes'
    <3>1. << >> \in Seq(Fetched)
      OBVIOUS
    <3> QED
      BY <1>1, <1>3, <3>1 DEF BootTypes, Empty
  <2> QED
    BY <1>2, <1>3, <2>1 DEF BootInv, Empty
<1>4. ASSUME NEW d \in Descriptors, Start(d[1], d[2]) PROVE BootInv'
  <2>1. d[1] \in [Index -> Segment] /\ d[2] \in 0 .. SEG_MAX
    BY DEF Descriptors
  <2>2. flight = << >>
    BY <1>4, BootExact DEF PipelineIsExact, QuietWhenIdle, Start
  <2>3. Empty'
    BY <1>4, <2>1, <2>2 DEF Start, Empty
  <2>4. fifo_mem' \in [Slot -> Fetched \cup {Unwritten}]
    BY <1>4 DEF Start, BootInv, BootTypes
  <2> QED
    BY <1>3, <1>4, <2>3, <2>4 DEF Start
<1>5. CASE Reset
  <2>1. Empty'
    BY <1>1, <1>5 DEF Reset, Empty
  <2>2. fifo_mem' \in [Slot -> Fetched \cup {Unwritten}]
    BY <1>5 DEF Reset, BootInv, BootTypes
  <2> QED
    BY <1>3, <1>5, <2>1, <2>2 DEF Reset
<1>6. ASSUME NEW flash_ready \in BOOLEAN, NEW flash_rvalid \in Returns,
             NEW ddr_ready \in BOOLEAN, Copy(flash_ready, flash_rvalid, ddr_ready)
      PROVE  BootInv'
  <2> DEFINE issue == flash_req /\ flash_ready
             write == ddr_we /\ ddr_ready
  <2>1. PICK addr \in Fetched :
          CopyEdge(issue, write, flash_rvalid, addr) /\ flash_rvalid \in BOOLEAN
    BY <1>6, CopyIsEdge
  <2>2. issue \in BOOLEAN /\ write \in BOOLEAN
    BY DEF flash_req, ddr_we
  <2> HIDE DEF issue, write
  <2> QED
    BY <2>1, <2>2, CopyStep
<1>7. CASE Idle \/ UNCHANGED vars
  BY <1>7 DEF Idle, vars, cursors, BootInv, BootTypes, CursorsInOrder, PipelineHolds,
              PipelineCounts, Read, Written
<1> QED
  BY <1>4, <1>5, <1>6, <1>7 DEF Next, Clock

(* src/boot_loader.v: whatever the latency of the Flash and the            *)
(* back-pressure of the DDR5, no FIFO slot is used unreserved, the words   *)
(* counted are the words written, and nothing is left when the copy ends.  *)
THEOREM CopyIsExact == Spec => []PipelineIsExact
<1>1. Spec => []BootInv
  BY BootInit, BootStep, PTL DEF Spec
<1> QED
  BY <1>1, BootExact, PTL

(* The word at the head of the FIFO is the word of the write cursor.       *)
LEMMA HeadIsNext ==
  ASSUME BootInv, fcnt # 0, IsPlace(seg_q, ncount_q, wseg, woff), Precedes(wseg, woff, rseg, roff)
  PROVE  fifo_mem[head] = WordAt(seg_q, wseg, woff).word
<1> DEFINE w == WordAt(seg_q, wseg, woff)
<1>1. /\ seg_q \in [Index -> Segment] /\ ncount_q \in 0 .. SEG_MAX /\ ncount_q \in Nat
      /\ wseg \in Nat /\ woff \in Nat /\ fcnt \in Nat /\ words_done \in Nat
      /\ head \in 0 .. BURST - 1 /\ BURST \in Nat
  BY LoaderAssumption DEF BootInv, BootTypes, CursorsInOrder, IsCursor, Slot
<1>2. w \in Words(seg_q, ncount_q) \ Written
  BY <1>1, PassedFacts DEF Written
<1>3. w.seg = wseg /\ w.off = woff
  BY DEF WordAt
<1> HIDE DEF w
<1>4. w \in Read \ Written
  BY <1>2, <1>3 DEF Read, Passed, Precedes
<1>5. Rank(seg_q, ncount_q, w.seg, w.off) = words_done
  BY <1>3 DEF BootInv, PipelineHolds, Rank, Written
<1>6. Held(fifo_mem, head, fcnt, flight, words_done - words_done) = w.word
  BY <1>4, <1>5 DEF BootInv, PipelineHolds
<1>7. words_done - words_done = 0 /\ 0 < fcnt /\ Ring(head, 0) = head
  BY <1>1 DEF Ring
<1> QED
  BY <1>6, <1>7 DEF Held, w

LEMMA CopierStep == BootInv /\ [Next]_vars => [Copier!Next]_(Copier!vars)
<1> SUFFICES ASSUME BootInv, [Next]_vars PROVE [Copier!Next]_(Copier!vars)
  OBVIOUS
<1>1. /\ seg_q \in [Index -> Segment] /\ ncount_q \in 0 .. SEG_MAX
      /\ IsCursor(seg_q, ncount_q, wseg, woff) /\ SEG_MAX \in Nat
  BY LoaderAssumption DEF BootInv, BootTypes, CursorsInOrder
<1>2. ASSUME NEW d \in Descriptors, Start(d[1], d[2]) PROVE Copier!Begin
  <2>1. d[1] \in [Index -> Segment] /\ d[2] \in 0 .. SEG_MAX
    BY DEF Descriptors
  <2>2. Written' = Passed(d[1], d[2], 0, 0)
    BY <1>2 DEF Start, Written
  <2>3. Remaining' = Words(d[1], d[2])
    BY <1>2, <2>1, <2>2, PassedFacts DEF Start, Remaining
  <2> QED
    BY <1>2, <2>3 DEF Start, Copier!Begin
<1>3. CASE Idle
  BY <1>3 DEF Idle, Copier!Next, Copier!Pause, Remaining, Written, cursors
<1>4. CASE Reset
  BY <1>4 DEF Reset, Copier!Next, Copier!Reset, Remaining
<1>5. CASE UNCHANGED vars
  BY <1>5 DEF vars, cursors, Copier!vars, Remaining, Written
<1>6. ASSUME NEW flash_ready \in BOOLEAN, NEW flash_rvalid \in Returns,
             NEW ddr_ready \in BOOLEAN, Copy(flash_ready, flash_rvalid, ddr_ready)
      PROVE  Copier!Next
  <2> DEFINE issue == flash_req /\ flash_ready
             write == ddr_we /\ ddr_ready
             w == WordAt(seg_q, wseg, woff)
  <2>1. PICK addr \in Fetched : CopyEdge(issue, write, flash_rvalid, addr)
    BY <1>6, CopyIsEdge
  <2>2. /\ wrote' = IF write THEN <<[seg |-> wseg, off |-> woff, addr |-> ddr_addr,
                                    word |-> fifo_mem[head]]>> ELSE << >>
        /\ write => fcnt # 0
    BY <1>6 DEF Copy, ddr_we
  <2>3. /\ busy /\ busy' = (wseg # ncount_q) /\ done' = (wseg = ncount_q) /\ ~done
        /\ Remaining = Words(seg_q, ncount_q) \ Written
        /\ Written' = Passed(seg_q, ncount_q, wseg', woff')
        /\ busy' => Remaining' = Words(seg_q, ncount_q) \ Written'
        /\ ~busy' => Remaining' = {}
    BY <2>1 DEF CopyEdge, BootInv, BootTypes, Remaining, Written
  <2>4. /\ write => w \in Words(seg_q, ncount_q) \ Written /\ Written' = Written \cup {w}
        /\ ~write => Written' = Written
    <3>1. /\ write \in BOOLEAN /\ (write => IsPlace(seg_q, ncount_q, wseg, woff))
          /\ Moves(seg_q, ncount_q, wseg, woff, write, wseg', woff')
      BY <2>1 DEF CopyEdge, ddr_we
    <3> HIDE DEF write
    <3>2. /\ write => /\ w \in Words(seg_q, ncount_q) \ Passed(seg_q, ncount_q, wseg, woff)
                      /\ Passed(seg_q, ncount_q, wseg', woff')
                           = Passed(seg_q, ncount_q, wseg, woff) \cup {w}
          /\ ~write => Passed(seg_q, ncount_q, wseg', woff') = Passed(seg_q, ncount_q, wseg, woff)
      BY <1>1, <3>1, CursorMoves
    <3> QED
      BY <2>3, <3>2 DEF Written
  <2>5. CASE write
    <3>1. /\ IsPlace(seg_q, ncount_q, wseg, woff) /\ Precedes(wseg, woff, rseg, roff)
          /\ wseg \in Nat /\ woff \in Nat /\ ncount_q \in Nat /\ wseg < ncount_q
      BY <1>1, <2>1, <2>5 DEF CopyEdge, IsPlace, IsCursor
    <3>2. wrote' = <<w>>
      BY <2>2, <2>5, <3>1, HeadIsNext DEF ddr_addr, WordAt
    <3>3. \A v \in Remaining \ {w} : Copier!Before(w, v)
      <4>1. w.seg = wseg /\ w.off = woff
        BY DEF WordAt
      <4>2. \A v \in Words(seg_q, ncount_q) \ Written :
              v # w => wseg < v.seg \/ (wseg = v.seg /\ woff < v.off)
        BY <1>1, <3>1, PassedFacts DEF Written
      <4> HIDE DEF w
      <4> QED
        BY <2>3, <4>1, <4>2 DEF Copier!Before
    <3>4. busy' /\ ~done'
      <4>1. wseg # ncount_q
        BY <3>1
      <4> QED
        BY <2>3, <4>1
    <3> HIDE DEF w
    <3>5. w \in Remaining /\ Remaining' = Remaining \ {w}
      BY <2>3, <2>4, <2>5, <3>4
    <3> QED
      BY <2>3, <3>2, <3>3, <3>4, <3>5 DEF Copier!Next, Copier!Write, BootInv, BootTypes
  <2>6. CASE ~write /\ wseg = ncount_q
    <3>1. woff = 0
      BY <1>1, <2>6 DEF IsCursor, IsPlace
    <3>2. Remaining = {}
      BY <1>1, <2>3, <2>6, <3>1, PassedFacts DEF Written
    <3> QED
      BY <2>2, <2>3, <2>6, <3>2 DEF Copier!Next, Copier!Finish
  <2>7. CASE ~write /\ wseg # ncount_q
    BY <2>2, <2>3, <2>4, <2>7 DEF Copier!Next, Copier!Pause, BootInv, BootTypes
  <2> QED
    BY <2>5, <2>6, <2>7
<1> QED
  BY <1>2, <1>3, <1>4, <1>5, <1>6 DEF Next, Clock, Copier!Next

(* src/boot_loader.v: each word of each segment is written once, in order, *)
(* to its address, and done rises after the last of them; no returned word *)
(* is put at the address of another (docs/FORMAL.md, boot_loader).         *)
THEOREM LoaderIsCopy == Spec => ImplementsBlockCopy
<1>1. Init => Copier!Init
  BY DEF Init, Copier!Init, Remaining
<1>2. Spec => []BootInv
  BY BootInit, BootStep, PTL DEF Spec
<1> QED
  BY <1>1, <1>2, CopierStep, PTL DEF Spec, Copier!Spec, ImplementsBlockCopy
-----------------------------------------------------------------------------
(* What a container finds in the volume is nothing or everything, so the   *)
(* presence test, which one shard satisfies, is enough.                    *)
VolumeIsWhole ==
  /\ committed \in {{}, File}
  /\ OnlyCompleteIsLoaded

LEMMA EmptyIsNotPresent == ~_checkpoint_present({})
  BY DEF _checkpoint_present

LEMMA VolumeInit == GateInit => VolumeIsWhole
  BY DEF GateInit, GateReset, VolumeIsWhole, OnlyCompleteIsLoaded

LEMMA VolumeStep == VolumeIsWhole /\ [GateNext]_gateVars => VolumeIsWhole'
<1> SUFFICES ASSUME VolumeIsWhole, [GateNext]_gateVars
             PROVE  VolumeIsWhole'
  OBVIOUS
<1> USE DEF VolumeIsWhole, OnlyCompleteIsLoaded, place, volume
<1>1. CASE Enter
  BY <1>1, EmptyIsNotPresent DEF Enter
<1>2. CASE Fetch
  BY <1>2 DEF Fetch
<1>3. CASE Commit
  BY <1>3 DEF Commit
<1>4. CASE Fail
  BY <1>4 DEF Fail
<1>5. CASE tier1_operator
  BY <1>5 DEF tier1_operator, Leave
<1>6. CASE reference
  BY <1>6 DEF reference, Leave
<1>7. CASE Patch
  BY <1>7 DEF Patch
<1>8. CASE tier2_fullmodel
  BY <1>8 DEF tier2_fullmodel, Leave
<1>9. CASE Summarize
  BY <1>9 DEF Summarize
<1>10. CASE UNCHANGED gateVars
  BY <1>10 DEF gateVars
<1> QED
  BY <1>1, <1>2, <1>3, <1>4, <1>5, <1>6, <1>7, <1>8, <1>9, <1>10 DEF GateNext, main

(* No tier of the gate runs on a checkpoint that is not complete.          *)
THEOREM CompleteCheckpoint == GateSpec => []OnlyCompleteIsLoaded
<1>1. VolumeIsWhole => OnlyCompleteIsLoaded
  BY DEF VolumeIsWhole
<1> QED
  BY <1>1, VolumeInit, VolumeStep, PTL DEF GateSpec

--------------------------------------------------------------------------------

(* All positions hit exactly when the two lists are the same.              *)
LEMMA FullMatchIsEquality ==
  ASSUME NEW n \in Nat, NEW T, NEW g \in [1 .. n -> T], NEW c \in [1 .. n -> T]
  PROVE  FullMatch(g, c) <=> c = g
<1> DEFINE same == {i \in DOMAIN g : g[i] = c[i]}
<1>1. IsFiniteSet(1 .. n) /\ Cardinality(1 .. n) = n
  BY FS_Interval
<1>2. DOMAIN g = 1 .. n /\ DOMAIN c = 1 .. n /\ Len(g) = n
  OBVIOUS
<1>3. same \in SUBSET (1 .. n)
  BY <1>2
<1>4. Cardinality(same) = n => same = 1 .. n
  BY <1>1, <1>3, FS_Subset
<1>5. same = 1 .. n => c = g
  BY <1>2
<1>6. c = g => same = 1 .. n
  BY <1>2
<1>7. g = << >> => c = g
  BY <1>2
<1>8. Hits(g, c) = Cardinality(same)
  BY DEF Hits
<1> QED
  BY <1>1, <1>2, <1>4, <1>5, <1>6, <1>7, <1>8 DEF FullMatch

Answers == [DOMAIN prompts -> Token]
Golden == [tokens : Answers, engine : Engine]

(* From the reference on, the golden answers every prompt; from the full   *)
(* model on, so do its tokens; and a verdict is the last thing that        *)
(* happens.                                                                *)
AnswersAreWhole ==
  /\ prompts \in Seq(STRING)
  /\ native \in [Engine -> Answers]
  /\ fn \in {"tier2", "summary"} => golden \in Golden
  /\ fn = "summary" => tokens \in Answers
  /\ report.verdict # "none" => fn = "done" /\ at = "end"
  /\ PassIsFullMatch

LEMMA AnswersInit == GateInit => AnswersAreWhole
<1> SUFFICES ASSUME GateInit PROVE AnswersAreWhole
  OBVIOUS
<1>1. prompts \in Seq(STRING)
  <2>1. PICK n \in 1 .. Len(Corpus) : prompts = SubSeq(Corpus, 1, n)
    BY DEF GateInit, GateReset
  <2> QED
    BY <2>1, GateAssumption
<1> QED
  BY <1>1 DEF GateInit, GateReset, AnswersAreWhole, Answers, PassIsFullMatch, NoReport, FirstFn

LEMMA AnswersStep == AnswersAreWhole /\ [GateNext]_gateVars => AnswersAreWhole'
<1> SUFFICES ASSUME AnswersAreWhole, [GateNext]_gateVars
             PROVE  AnswersAreWhole'
  OBVIOUS
<1> USE DEF AnswersAreWhole, Answers, Golden, PassIsFullMatch, request, place, volume, outcome
<1>1. CASE Enter
  BY <1>1 DEF Enter
<1>2. CASE Fetch
  BY <1>2 DEF Fetch
<1>3. CASE Commit
  BY <1>3 DEF Commit
<1>4. CASE Fail
  BY <1>4 DEF Fail, Unanswered, NoReport, FirstFn
<1>5. CASE tier1_operator
  BY <1>5 DEF tier1_operator, Leave
<1>6. CASE reference
  <2>1. golden' \in Golden
    BY <1>6 DEF reference
  <2> QED
    BY <1>6, <2>1 DEF reference, Leave
<1>7. CASE Patch
  BY <1>7 DEF Patch
<1>8. CASE tier2_fullmodel
  <2>1. tokens' \in Answers
    BY <1>8 DEF tier2_fullmodel, Engine
  <2> QED
    BY <1>8, <2>1 DEF tier2_fullmodel, Leave
<1>9. CASE Summarize
  <2>1. golden \in Golden /\ tokens \in Answers
    BY <1>9 DEF Summarize
  <2>2. FullMatch(golden.tokens, tokens) <=> tokens = golden.tokens
    <3>1. PICK n \in Nat : DOMAIN prompts = 1 .. n
      OBVIOUS
    <3>2. golden.tokens \in [1 .. n -> Token] /\ tokens \in [1 .. n -> Token]
      BY <2>1, <3>1
    <3> HIDE DEF Answers, Golden
    <3> QED
      BY <3>2, FullMatchIsEquality
  <2>3. report'.verdict = IF FullMatch(golden.tokens, tokens) THEN "PASS" ELSE "PARTIAL/FAIL"
    BY <1>9 DEF Summarize, summarize_gate
  <2>4. PassIsFullMatch'
    BY <1>9, <2>1, <2>2, <2>3 DEF Summarize
  <2> QED
    BY <1>9, <2>1, <2>4 DEF Summarize
<1>10. CASE UNCHANGED gateVars
  BY <1>10 DEF gateVars
<1> QED
  BY <1>1, <1>2, <1>3, <1>4, <1>5, <1>6, <1>7, <1>8, <1>9, <1>10 DEF GateNext, main

(* The gate prints PASS exactly when every prompt got the golden's token.  *)
THEOREM PassMeansMatch == GateSpec => []PassIsFullMatch
<1>1. AnswersAreWhole => PassIsFullMatch
  BY DEF AnswersAreWhole
<1> QED
  BY <1>1, AnswersInit, AnswersStep, PTL DEF GateSpec
-------------------------------------------------------------------------------
(* The replay.  The dict's keys, newest first, are the LRU stack.          *)

(* A sequence, whatever its entries.                                       *)
Listed(q) == Len(q) \in Nat /\ DOMAIN q = 1 .. Len(q) /\ q \in Seq(Range(q))

KeysDistinct(q) == \A i, j \in DOMAIN q : q[i] = q[j] => i = j

DictInv ==
  /\ pos \in Nat /\ slots \in Nat
  /\ Listed(cache) /\ KeysDistinct(cache)
  /\ Len(cache) <= slots

LEMMA ListedIs ==
  ASSUME NEW S, NEW q \in Seq(S)
  PROVE  Listed(q) /\ \A i \in 1 .. Len(q) : q[i] \in S
<1>1. Len(q) \in Nat /\ DOMAIN q = 1 .. Len(q) /\ q \in [1 .. Len(q) -> S]
  BY LenProperties
<1>2. \A i \in 1 .. Len(q) : q[i] \in Range(q)
  BY <1>1 DEF Range
<1>3. q = [i \in 1 .. Len(q) |-> q[i]]
  BY <1>1
<1>4. [i \in 1 .. Len(q) |-> q[i]] \in Seq(Range(q))
  BY <1>1, <1>2, IsASeq
<1> QED
  BY <1>1, <1>3, <1>4 DEF Listed

(* Two sequences with the same entries in the same places.                 *)
LEMMA SamePlaces ==
  ASSUME NEW q, NEW r, Listed(q), Listed(r), Len(q) = Len(r),
         \A i \in 1 .. Len(q) : q[i] = r[i]
  PROVE  q = r
<1>1. q = [i \in 1 .. Len(q) |-> q[i]] /\ r = [i \in 1 .. Len(r) |-> r[i]]
  BY SMT DEF Listed
<1>2. [i \in 1 .. Len(q) |-> q[i]] = [i \in 1 .. Len(r) |-> r[i]]
  OBVIOUS
<1> QED
  BY <1>1, <1>2, Zenon

LEMMA ReversedFacts ==
  ASSUME NEW q, Listed(q)
  PROVE  /\ Listed(Reverse(q)) /\ Len(Reverse(q)) = Len(q)
         /\ \A i \in 1 .. Len(q) : Reverse(q)[i] = q[Len(q) - i + 1]
<1> DEFINE n == Len(q)
           r == [i \in 1 .. n |-> q[(n - i) + 1]]
<1>1. n \in Nat /\ \A i \in 1 .. n : (n - i) + 1 \in 1 .. n
  BY DEF Listed
<1>2. \A i \in 1 .. n : q[(n - i) + 1] \in Range(q)
  BY <1>1 DEF Listed, Range
<1>3. r \in Seq(Range(q))
  BY <1>1, <1>2, IsASeq
<1>4. Len(r) = n
  BY <1>1
<1>5. Listed(r)
  BY <1>3, ListedIs
<1> QED
  BY <1>1, <1>4, <1>5 DEF Reverse

LEMMA PiecesOf ==
  ASSUME NEW q, Listed(q), NEW m \in Nat, NEW n \in Nat, 1 <= m, n <= Len(q), m <= n + 1
  PROVE  /\ SubSeq(q, m, n) \in Seq(Range(q)) /\ Len(SubSeq(q, m, n)) = n + 1 - m
         /\ \A i \in 1 .. n + 1 - m : SubSeq(q, m, n)[i] = q[m + i - 1]
<1> DEFINE s == SubSeq(q, m, n)
<1>1. \A i \in m .. n : q[i] \in Range(q)
  BY DEF Listed, Range
<1>2. /\ s \in Seq(Range(q)) /\ Len(s) = IF m <= n THEN n - m + 1 ELSE 0
      /\ \A i \in 1 .. n - m + 1 : s[i] = q[m + i - 1]
  <2>1. m \in Int /\ n \in Int
    OBVIOUS
  <2> QED
    BY <1>1, <2>1, SubSeqProperties
<1> HIDE DEF s
<1>3. Len(s) = n + 1 - m /\ \A i \in 1 .. n + 1 - m : s[i] = q[m + i - 1]
  BY <1>2
<1> QED
  BY <1>2, <1>3 DEF s

LEMMA RemovedFacts ==
  ASSUME NEW q, Listed(q), NEW k \in 1 .. Len(q)
  PROVE  /\ RemoveAt(q, k) \in Seq(Range(q)) /\ Len(RemoveAt(q, k)) = Len(q) - 1
         /\ \A i \in 1 .. Len(q) - 1 : RemoveAt(q, k)[i] = IF i < k THEN q[i] ELSE q[i + 1]
<1> DEFINE n == Len(q)
           f == SubSeq(q, 1, k - 1)
           g == SubSeq(q, k + 1, n)
           r == f \o g
<1>1. n \in Nat /\ k \in Nat /\ 1 <= k /\ k <= n /\ k - 1 \in Nat
  BY DEF Listed
<1>2. f \in Seq(Range(q)) /\ Len(f) = k - 1 /\ \A i \in 1 .. k - 1 : f[i] = q[i]
  <2>1. /\ f \in Seq(Range(q)) /\ Len(f) = k - 1 + 1 - 1
        /\ \A i \in 1 .. k - 1 + 1 - 1 : f[i] = q[1 + i - 1]
    <3>1. 1 \in Nat /\ 1 <= 1 /\ k - 1 <= Len(q) /\ 1 <= k - 1 + 1
      BY <1>1
    <3> QED
      BY <1>1, <3>1, PiecesOf
  <2> HIDE DEF f, n
  <2> QED
    BY <2>1, <1>1
<1>3. g \in Seq(Range(q)) /\ Len(g) = n - k /\ \A i \in 1 .. n - k : g[i] = q[k + i]
  <2>1. /\ g \in Seq(Range(q)) /\ Len(g) = n + 1 - (k + 1)
        /\ \A i \in 1 .. n + 1 - (k + 1) : g[i] = q[(k + 1) + i - 1]
    <3>1. k + 1 \in Nat /\ 1 <= k + 1 /\ n <= Len(q) /\ k + 1 <= n + 1
      BY <1>1
    <3> QED
      BY <1>1, <3>1, PiecesOf
  <2> HIDE DEF g, n
  <2> QED
    BY <2>1, <1>1
<1>4. /\ r \in Seq(Range(q)) /\ Len(r) = Len(f) + Len(g)
      /\ \A i \in 1 .. Len(f) + Len(g) : r[i] = IF i <= Len(f) THEN f[i] ELSE g[i - Len(f)]
  <2> HIDE DEF f, g
  <2> QED
    BY <1>2, <1>3, ConcatProperties
<1> HIDE DEF f, g, n, r
<1>5. Len(r) = n - 1
  BY <1>1, <1>2, <1>3, <1>4
<1>6. ASSUME NEW i \in 1 .. n - 1
      PROVE  r[i] = IF i < k THEN q[i] ELSE q[i + 1]
  <2>1. CASE i < k
    BY <2>1, <1>1, <1>2, <1>3, <1>4
  <2>2. CASE ~(i < k)
    <3> DEFINE j == i - (k - 1)
    <3>1. j \in 1 .. n - k /\ k + j = i + 1
      BY <2>2, <1>1
    <3>2. r[i] = g[j]
      BY <2>2, <1>1, <1>2, <1>3, <1>4
    <3> HIDE DEF j
    <3> QED
      BY <2>2, <3>1, <3>2, <1>3
  <2> QED
    BY <2>1, <2>2
<1>7. RemoveAt(q, k) = r
  BY DEF RemoveAt, r, f, g, n
<1> QED
  BY <1>4, <1>5, <1>6, <1>7 DEF n

(* e before, and e after, the entries of r.                                *)
LEMMA PutBefore ==
  ASSUME NEW S, NEW r \in Seq(S), NEW e \in S
  PROVE  /\ <<e>> \o r \in Seq(S) /\ Len(<<e>> \o r) = Len(r) + 1
         /\ \A i \in 1 .. Len(r) + 1 : (<<e>> \o r)[i] = IF i = 1 THEN e ELSE r[i - 1]
<1>1. <<e>> \in Seq(S) /\ Len(<<e>>) = 1 /\ <<e>>[1] = e
  OBVIOUS
<1>2. /\ <<e>> \o r \in Seq(S) /\ Len(<<e>> \o r) = 1 + Len(r)
      /\ \A i \in 1 .. 1 + Len(r) : (<<e>> \o r)[i] = IF i <= 1 THEN <<e>>[i] ELSE r[i - 1]
  BY <1>1, ConcatProperties
<1>3. Len(r) \in Nat
  BY LenProperties
<1> QED
  BY <1>1, <1>2, <1>3

LEMMA PutAfter ==
  ASSUME NEW S, NEW r \in Seq(S), NEW e \in S
  PROVE  /\ Append(r, e) \in Seq(S) /\ Len(Append(r, e)) = Len(r) + 1
         /\ \A i \in 1 .. Len(r) + 1 : Append(r, e)[i] = IF i = Len(r) + 1 THEN e ELSE r[i]
<1>1. Len(r) \in Nat /\ r \in [1 .. Len(r) -> S]
  BY LenProperties
<1>2. /\ Append(r, e) \in Seq(S) /\ Len(Append(r, e)) = Len(r) + 1
      /\ \A i \in 1 .. Len(r) : Append(r, e)[i] = r[i]
      /\ Append(r, e)[Len(r) + 1] = e
  BY AppendProperties
<1> QED
  BY <1>1, <1>2

LEMMA ListedIn ==
  ASSUME NEW S, NEW q, Listed(q), \A i \in 1 .. Len(q) : q[i] \in S
  PROVE  q \in Seq(S)
<1>1. q = [i \in 1 .. Len(q) |-> q[i]]
  BY SMT DEF Listed
<1>2. [i \in 1 .. Len(q) |-> q[i]] \in Seq(S)
  BY IsASeq DEF Listed
<1> QED
  BY <1>1, <1>2

(* move_to_end on the dict is a hit on the stack.                          *)
LEMMA MovedIsHit ==
  ASSUME NEW q, Listed(q), KeysDistinct(q), NEW e, Contains(q, e)
  PROVE  /\ Listed(move_to_end(q, e)) /\ KeysDistinct(move_to_end(q, e))
         /\ Len(move_to_end(q, e)) = Len(q)
         /\ \E i \in DOMAIN Reverse(q) :
              Reverse(q)[i] = e /\ Reverse(move_to_end(q, e)) = <<e>> \o RemoveAt(Reverse(q), i)
<1> DEFINE n == Len(q)
           S == Range(q)
           p == CHOOSE i \in DOMAIN q : q[i] = e
           w == RemoveAt(q, p)
           m == Append(w, e)
           k == n - p + 1
           r == Reverse(q)
           v == RemoveAt(r, k)
           u == <<e>> \o v
<1>1. p \in 1 .. n /\ q[p] = e /\ n \in Nat /\ e \in S
  BY DEF Contains, Listed, Range
<1>2. w \in Seq(S) /\ Len(w) = n - 1 /\ \A i \in 1 .. n - 1 : w[i] = IF i < p THEN q[i] ELSE q[i + 1]
  <2> HIDE DEF p
  <2> QED
    BY <1>1, RemovedFacts
<1>3. m \in Seq(S) /\ Len(m) = n /\ \A i \in 1 .. n : m[i] = IF i = n THEN e ELSE w[i]
  <2> HIDE DEF p, w, n
  <2>1. m \in Seq(S) /\ Len(m) = Len(w) + 1
        /\ \A i \in 1 .. Len(w) + 1 : m[i] = IF i = Len(w) + 1 THEN e ELSE w[i]
    BY <1>1, <1>2, PutAfter
  <2> HIDE DEF m
  <2> QED
    BY <1>1, <1>2, <2>1
<1>4. move_to_end(q, e) = m
  BY DEF move_to_end
<1> HIDE DEF p, w, m, n
<1>5. Listed(m)
  BY <1>3, ListedIs
<1>6. \A i \in 1 .. n : m[i] = IF i = n THEN q[p] ELSE IF i < p THEN q[i] ELSE q[i + 1]
  BY <1>1, <1>2, <1>3
<1>7. KeysDistinct(m)
  <2>1. DOMAIN q = 1 .. n /\ DOMAIN m = 1 .. n
    BY <1>3, <1>5 DEF Listed, n
  <2>2. SUFFICES ASSUME NEW i \in 1 .. n, NEW j \in 1 .. n, m[i] = m[j]
                 PROVE  i = j
    BY <2>1, Zenon DEF KeysDistinct
  <2> DEFINE From(d) == IF d = n THEN p ELSE IF d < p THEN d ELSE d + 1
  <2>3. /\ From(i) \in 1 .. n /\ From(j) \in 1 .. n
        /\ From(i) = From(j) => i = j
    BY <1>1
  <2>4. q[From(i)] = q[From(j)]
    BY <1>6, <2>2
  <2> HIDE DEF From
  <2> QED
    BY <2>1, <2>3, <2>4, Zenon DEF KeysDistinct
<1>8. Listed(r) /\ Len(r) = n /\ \A i \in 1 .. n : r[i] = q[n - i + 1]
  BY ReversedFacts DEF n
<1>9. k \in 1 .. n /\ r[k] = e
  <2>1. k \in 1 .. n /\ n - k + 1 = p
    BY <1>1
  <2> HIDE DEF k, r
  <2> QED
    BY <1>1, <1>8, <2>1
<1>10. v \in Seq(Range(r)) /\ Len(v) = n - 1
       /\ \A i \in 1 .. n - 1 : v[i] = IF i < k THEN r[i] ELSE r[i + 1]
  <2>1. k \in 1 .. Len(r)
    BY <1>8, <1>9
  <2> HIDE DEF k, r
  <2>2. RemoveAt(r, k) \in Seq(Range(r)) /\ Len(RemoveAt(r, k)) = Len(r) - 1
        /\ \A i \in 1 .. Len(r) - 1 : RemoveAt(r, k)[i] = IF i < k THEN r[i] ELSE r[i + 1]
    BY <1>8, <2>1, RemovedFacts
  <2> QED
    BY <1>8, <2>2
<1>11. u \in Seq(Range(r)) /\ Len(u) = n
       /\ \A i \in 1 .. n : u[i] = IF i = 1 THEN e ELSE v[i - 1]
  <2>1. e \in Range(r)
    BY <1>8, <1>9 DEF Range, Listed
  <2> HIDE DEF k, r, v
  <2>2. u \in Seq(Range(r)) /\ Len(u) = Len(v) + 1
        /\ \A i \in 1 .. Len(v) + 1 : u[i] = IF i = 1 THEN e ELSE v[i - 1]
    BY <1>10, <2>1, PutBefore
  <2> HIDE DEF u
  <2> QED
    BY <1>1, <1>10, <2>2
<1>12. Reverse(m) = u
  <2>1. Listed(u)
    BY <1>11, ListedIs
  <2>2. /\ Listed(Reverse(m)) /\ Len(Reverse(m)) = n
        /\ \A i \in 1 .. n : Reverse(m)[i] = m[n - i + 1]
    BY <1>3, <1>5, ReversedFacts
  <2>3. ASSUME NEW i \in 1 .. n
        PROVE  m[n - i + 1] = u[i]
    <3>1. CASE i = 1
      BY <3>1, <1>1, <1>3, <1>11
    <3>2. CASE i # 1
      <4> DEFINE d == n - i + 1
      <4>1. d \in 1 .. n - 1 /\ i - 1 \in 1 .. n - 1 /\ (d < p <=> ~(i - 1 < k))
        BY <3>2, <1>1
      <4>2. m[d] = IF d < p THEN q[d] ELSE q[d + 1]
        <5> HIDE DEF d
        <5>1. d \in 1 .. n /\ d # n
          BY <4>1, <1>1
        <5> QED
          BY <5>1, <1>6
      <4>3. u[i] = IF i - 1 < k THEN r[i - 1] ELSE r[i]
        <5> HIDE DEF u, v, k, r, d
        <5>1. u[i] = v[i - 1]
          BY <3>2, <1>11
        <5>2. v[i - 1] = IF i - 1 < k THEN r[i - 1] ELSE r[(i - 1) + 1]
          BY <4>1, <1>10
        <5>3. (i - 1) + 1 = i
          BY <1>1
        <5> QED
          BY <5>1, <5>2, <5>3
      <4>4. r[i] = q[d] /\ r[i - 1] = q[d + 1]
        <5>1. n - (i - 1) + 1 = d + 1
          BY <1>1
        <5> HIDE DEF r
        <5>2. r[i] = q[n - i + 1] /\ r[i - 1] = q[n - (i - 1) + 1]
          BY <1>8, <4>1, <1>1
        <5> QED
          BY <5>1, <5>2
      <4> HIDE DEF u, v, k, r, d
      <4>5. m[d] = u[i]
        BY <4>1, <4>2, <4>3, <4>4
      <4> QED
        BY <4>5 DEF d
    <3> QED
      BY <3>1, <3>2
  <2> HIDE DEF u
  <2> QED
    BY <1>11, <2>1, <2>2, <2>3, SamePlaces
<1>13. k \in DOMAIN r /\ r[k] = e /\ Reverse(m) = <<e>> \o RemoveAt(r, k)
  BY <1>8, <1>9, <1>12 DEF Listed
<1> HIDE DEF k
<1> QED
  BY <1>3, <1>4, <1>5, <1>7, <1>13 DEF n

(* A new key, and the oldest gone when that is one too many, is a miss.    *)
Inserted(q, e) == LET grown == Append(q, e) IN IF Len(grown) > slots THEN popitem(grown) ELSE grown

LEMMA InsertedIsMiss ==
  ASSUME NEW q, Listed(q), KeysDistinct(q), NEW e, ~Contains(q, e),
         slots \in Nat, Len(q) <= slots
  PROVE  /\ Listed(Inserted(q, e)) /\ KeysDistinct(Inserted(q, e)) /\ Len(Inserted(q, e)) <= slots
         /\ Reverse(Inserted(q, e)) = Lru!InFront(e, Reverse(q))
<1> DEFINE n == Len(q)
           S == Range(q) \cup {e}
           grown == Append(q, e)
           z == IF n = slots THEN 1 ELSE 0
           m == Inserted(q, e)
           r == Reverse(q)
           u == <<e>> \o r
           h == n + 1 - z
           t == SubSeq(u, 1, h)
<1>1. /\ n \in Nat /\ slots \in Nat /\ n <= slots
      /\ DOMAIN q = 1 .. n /\ q \in Seq(S) /\ e \in S /\ \A i \in 1 .. n : q[i] # e
  <2>1. \A i \in 1 .. n : q[i] \in S
    BY DEF Listed, Range
  <2>2. q \in Seq(S)
    BY <2>1, ListedIn
  <2> QED
    BY <2>2 DEF Listed, Contains
<1>2. grown \in Seq(S) /\ Len(grown) = n + 1
      /\ \A i \in 1 .. n + 1 : grown[i] = IF i = n + 1 THEN e ELSE q[i]
  <2> HIDE DEF S
  <2> QED
    BY <1>1, PutAfter
<1> HIDE DEF S, grown, n
<1>3. m \in Seq(S) /\ Len(m) = h /\ \A i \in 1 .. h : m[i] = grown[i + z]
  <2>1. CASE n = slots
    <3>1. m = Tail(grown) /\ grown # << >>
      <4>1. Len(grown) > slots /\ Len(grown) # 0
        BY <2>1, <1>1, <1>2
      <4>2. grown # << >>
        BY <4>1, EmptySeq
      <4> QED
        BY <4>1, <4>2 DEF Inserted, popitem, grown
    <3>2. /\ Tail(grown) \in Seq(S) /\ Len(Tail(grown)) = Len(grown) - 1
          /\ \A i \in 1 .. Len(Tail(grown)) : Tail(grown)[i] = grown[i + 1]
      BY <3>1, <1>2, HeadTailProperties
    <3> HIDE DEF m
    <3> QED
      BY <2>1, <3>1, <3>2, <1>1, <1>2
  <2>2. CASE n # slots
    <3>1. m = grown
      <4>1. ~(Len(grown) > slots)
        BY <2>2, <1>1, <1>2
      <4> QED
        BY <4>1 DEF Inserted, grown
    <3> HIDE DEF m
    <3>2. z = 0 /\ h = n + 1
      BY <2>2, <1>1
    <3>3. \A i \in 1 .. h : i + z = i
      BY <3>2, <1>1
    <3> HIDE DEF z, h
    <3> QED
      BY <3>1, <3>2, <3>3, <1>2
  <2> QED
    BY <2>1, <2>2
<1>4. z \in {0, 1} /\ h \in Nat /\ h <= slots /\ h <= n + 1
  BY <1>1
<1> HIDE DEF m
<1>5. Listed(m) /\ Len(m) <= slots
  BY <1>3, <1>4, ListedIs
<1>6. KeysDistinct(m)
  <2>1. DOMAIN m = 1 .. h
    BY <1>3, <1>5 DEF Listed
  <2>2. SUFFICES ASSUME NEW i \in 1 .. h, NEW j \in 1 .. h, m[i] = m[j]
                 PROVE  i = j
    BY <2>1, Zenon DEF KeysDistinct
  <2>3. /\ i + z \in 1 .. n + 1 /\ j + z \in 1 .. n + 1 /\ (i + z = j + z => i = j)
    BY <1>1
  <2>4. grown[i + z] = grown[j + z]
    BY <1>3, <2>2
  <2>5. ASSUME NEW c \in 1 .. n + 1, NEW d \in 1 .. n + 1, grown[c] = grown[d]
        PROVE  c = d
    <3>1. (c = n + 1 <=> d = n + 1) /\ (c = n + 1 \/ (c \in 1 .. n /\ d \in 1 .. n /\ q[c] = q[d]))
      BY <1>1, <1>2, <2>5
    <3> QED
      BY <3>1, <1>1 DEF KeysDistinct
  <2> HIDE DEF z
  <2> QED
    BY <2>3, <2>4, <2>5
<1>7. Listed(r) /\ Len(r) = n /\ \A i \in 1 .. n : r[i] = q[n - i + 1]
  BY ReversedFacts DEF n
<1>8. u \in Seq(S) /\ Len(u) = n + 1 /\ \A i \in 1 .. n + 1 : u[i] = IF i = 1 THEN e ELSE r[i - 1]
  <2>1. \A i \in 1 .. n : r[i] \in S
    BY <1>1, <1>7, ElementOfSeq DEF n
  <2>2. r \in Seq(S)
    BY <2>1, <1>7, ListedIn
  <2> HIDE DEF r
  <2>3. u \in Seq(S) /\ Len(u) = Len(r) + 1 /\ \A i \in 1 .. Len(r) + 1 : u[i] = IF i = 1 THEN e ELSE r[i - 1]
    BY <2>2, <1>1, PutBefore
  <2> QED
    BY <2>3, <1>7
<1> HIDE DEF u, h
<1>9. Listed(t) /\ Len(t) = h /\ \A i \in 1 .. h : t[i] = u[i]
  <2>1. Listed(u)
    BY <1>8, ListedIs
  <2>2. /\ t \in Seq(Range(u)) /\ Len(t) = h + 1 - 1
        /\ \A i \in 1 .. h + 1 - 1 : t[i] = u[1 + i - 1]
    <3>1. 1 \in Nat /\ 1 <= 1 /\ h <= Len(u) /\ 1 <= h + 1
      BY <1>4, <1>8
    <3> QED
      BY <2>1, <3>1, <1>4, PiecesOf
  <2>3. Listed(t)
    BY <2>2, ListedIs
  <2> HIDE DEF t
  <2> QED
    BY <2>2, <2>3, <1>4
<1>10. Lru!InFront(e, r) = t
  <2>1. (IF Len(r) = slots THEN slots ELSE Len(r) + 1) = h
    BY <1>1, <1>7 DEF h
  <2> QED
    BY <2>1 DEF Lru!InFront, u, t
<1> HIDE DEF t
<1>11. Reverse(m) = t
  <2>1. /\ Listed(Reverse(m)) /\ Len(Reverse(m)) = h
        /\ \A i \in 1 .. h : Reverse(m)[i] = m[h - i + 1]
    BY <1>3, <1>5, ReversedFacts
  <2>2. ASSUME NEW i \in 1 .. h
        PROVE  m[h - i + 1] = t[i]
    <3>1. h - i + 1 \in 1 .. h /\ (h - i + 1) + z = (n + 1) - i + 1 /\ (n + 1) - i + 1 \in 1 .. n + 1
      BY <1>1, <1>4 DEF h
    <3>2. m[h - i + 1] = grown[(n + 1) - i + 1]
      <4> HIDE DEF z
      <4> QED
        BY <1>3, <3>1
    <3>3. t[i] = IF i = 1 THEN e ELSE r[i - 1]
      BY <1>4, <1>8, <1>9
    <3>4. CASE i = 1
      <4>1. (n + 1) - i + 1 = n + 1
        BY <3>4, <1>1
      <4> QED
        BY <3>2, <3>3, <3>4, <4>1, <1>1, <1>2
    <3>5. CASE i # 1
      <4>1. i - 1 \in 1 .. n /\ n - (i - 1) + 1 = (n + 1) - i + 1 /\ (n + 1) - i + 1 # n + 1
        BY <3>5, <1>1, <1>4
      <4> HIDE DEF r
      <4>2. r[i - 1] = q[n - (i - 1) + 1]
        BY <4>1, <1>7
      <4>3. grown[(n + 1) - i + 1] = q[(n + 1) - i + 1]
        BY <3>1, <4>1, <1>2
      <4> QED
        BY <3>2, <3>3, <3>5, <4>1, <4>2, <4>3
    <3> QED
      BY <3>4, <3>5
  <2> QED
    BY <1>9, <2>1, <2>2, SamePlaces
<1> QED
  BY <1>5, <1>6, <1>10, <1>11 DEF m, r

(* An access is the stack's hit or its miss.                               *)
LEMMA AccessStep ==
  ASSUME DictInv, lru_hitrate
  PROVE  /\ DictInv'
         /\ pos' = pos + 1 /\ slots' = slots
         /\ Lru!Hit(trace[pos + 1]) \/ Lru!Miss(trace[pos + 1])
<1> DEFINE e == trace[pos + 1]
<1>1. /\ pos' = pos + 1 /\ slots' = slots /\ pos' \in Nat /\ slots' \in Nat
      /\ x' = << e, Contains(cache, e) >>
  BY DEF lru_hitrate, DictInv
<1>2. CASE Contains(cache, e)
  <2>1. cache' = move_to_end(cache, e)
    BY <1>2 DEF lru_hitrate
  <2>2. /\ Listed(move_to_end(cache, e)) /\ KeysDistinct(move_to_end(cache, e))
        /\ Len(move_to_end(cache, e)) = Len(cache)
        /\ \E i \in DOMAIN Reverse(cache) :
             Reverse(cache)[i] = e
             /\ Reverse(move_to_end(cache, e)) = <<e>> \o RemoveAt(Reverse(cache), i)
    <3> HIDE DEF e
    <3> QED
      BY <1>2, MovedIsHit DEF DictInv
  <2>3. x' = << e, TRUE >>
    BY <1>1, <1>2
  <2>4. Listed(cache') /\ KeysDistinct(cache') /\ Len(cache') <= slots'
    BY <1>1, <2>1, <2>2 DEF DictInv
  <2>5. DictInv'
    BY <1>1, <2>4 DEF DictInv, Listed, KeysDistinct
  <2>6. Lru!Hit(e)
    BY <2>1, <2>2, <2>3, Zenon DEF Lru!Hit, Lru!RemoveAt, RemoveAt
  <2> QED
    BY <1>1, <2>5, <2>6
<1>3. CASE ~Contains(cache, e)
  <2>1. cache' = Inserted(cache, e)
    BY <1>3 DEF lru_hitrate, Inserted
  <2>2. /\ Listed(Inserted(cache, e)) /\ KeysDistinct(Inserted(cache, e)) /\ Len(Inserted(cache, e)) <= slots
        /\ Reverse(Inserted(cache, e)) = Lru!InFront(e, Reverse(cache))
    <3> HIDE DEF e
    <3> QED
      BY <1>3, InsertedIsMiss DEF DictInv
  <2>3. x' = << e, FALSE >>
    <3>1. Contains(cache, e) = FALSE
      BY <1>3 DEF Contains
    <3> QED
      BY <1>1, <3>1
  <2>4. Listed(cache') /\ KeysDistinct(cache') /\ Len(cache') <= slots'
    BY <1>1, <2>1, <2>2
  <2>5. DictInv'
    BY <1>1, <2>4 DEF DictInv, Listed, KeysDistinct
  <2>6. ~Lru!Contains(Reverse(cache), e)
    <3> DEFINE r == Reverse(cache)
    <3>1. /\ Len(r) = Len(cache) /\ \A i \in 1 .. Len(cache) : r[i] = cache[Len(cache) - i + 1]
      BY ReversedFacts DEF DictInv
    <3>2. Len(cache) \in Nat
      BY DEF DictInv, Listed
    <3> HIDE DEF r
    <3>3. ASSUME NEW i \in 1 .. Len(r), r[i] = e PROVE FALSE
      <4> HIDE DEF e
      <4>1. Len(cache) - i + 1 \in 1 .. Len(cache) /\ cache[Len(cache) - i + 1] = e
        BY <3>1, <3>2, <3>3
      <4> QED
        BY <4>1, <1>3 DEF Contains
    <3> QED
      BY <3>3 DEF Lru!Contains, r
  <2>7. Lru!Miss(e)
    BY <2>1, <2>2, <2>3, <2>6, Zenon DEF Lru!Miss
  <2> QED
    BY <1>1, <2>5, <2>7
<1> QED
  BY <1>2, <1>3

LEMMA DictStep ==
  ASSUME DictInv, [MCNext]_mcVars
  PROVE  /\ DictInv'
         /\ [pos' = pos + 1 =>
               (Lru!Hit(trace[pos + 1]) \/ Lru!Miss(trace[pos + 1])) /\ UNCHANGED slots]_replayVars
<1>1. CASE UNCHANGED replayVars
  BY <1>1 DEF replayVars, DictInv, Listed, KeysDistinct
<1>2. ASSUME NEW f, NEW n \in Nat, ReplayStart(f, n)
      PROVE  DictInv' /\ pos' # pos + 1
  <2>1. pos' = 0 /\ slots' = n /\ cache' = << >>
    BY <1>2 DEF ReplayStart
  <2>2. Listed(<< >>) /\ Len(<< >>) = 0
    BY EmptySeq, ListedIs
  <2>3. Listed(cache') /\ KeysDistinct(cache') /\ Len(cache') <= slots'
    BY <2>1, <2>2, <1>2 DEF KeysDistinct
  <2> QED
    BY <2>1, <2>3, <1>2 DEF DictInv, Listed, KeysDistinct
<1>3. CASE lru_hitrate
  BY <1>3, AccessStep
<1>4. UNCHANGED replayVars \/ lru_hitrate \/ \E f \in Pattern, n \in Slots : ReplayStart(f, n)
  BY Zenon DEF MCNext, Draw, Choose, Replay, Pack, Measure, mcVars, toolVars, replayVars
<1>5. Slots \subseteq Nat
  BY ReplayAssumption
<1> QED
  BY <1>1, <1>2, <1>3, <1>4, <1>5

(* The replay of route_trace that sizes the expert cache (lru_hitrate of    *)
(* tools/route_trace.py) is the exact-LRU cache, access for access, for     *)
(* every trace, order of flattening and cache size.                         *)
THEOREM ReplayStaysLru == MCSpec => ReplayIsLru
<1>1. MCInit => DictInv
  <2>1. Listed(<< >>) /\ Len(<< >>) = 0
    BY EmptySeq, ListedIs
  <2> QED
    BY <2>1 DEF MCInit, ReplayIdle, DictInv, KeysDistinct
<1>2. DictInv /\ [MCNext]_mcVars => DictInv'
  BY DictStep
<1>3. DictInv /\ [MCNext]_mcVars =>
        [pos' = pos + 1 =>
           (Lru!Hit(trace[pos + 1]) \/ Lru!Miss(trace[pos + 1])) /\ UNCHANGED slots]_replayVars
  BY DictStep
<1> QED
  BY <1>1, <1>2, <1>3, PTL DEF MCSpec, ReplayIsLru

-------------------------------------------------------------------------------
(* Counting.  A sum of naturals is the size of a set of cells, as many for *)
(* each element as its term says.                                          *)
LEMMA NatSets ==
  ASSUME NEW S \in SUBSET Nat, \A n \in Nat : (\A m \in Nat : m < n => m \in S) => n \in S
  PROVE  S = Nat
<1> DEFINE R == {ss \in Nat \X Nat : ss[1] < ss[2]}
           T == Nat \ S
<1>1. IsWellFoundedOn(R, Nat)
  BY NatLessThanWellFounded DEF OpToRel
<1>2. \A p, q \in Nat : <<q, p>> \in R <=> q < p
  OBVIOUS
<1>3. T \subseteq Nat
  OBVIOUS
<1> SUFFICES ASSUME T # {} PROVE FALSE
  OBVIOUS
<1>4. PICK n \in T : \A m \in T : ~(<<m, n>> \in R)
  <2> HIDE DEF R, T
  <2> QED
    BY <1>1, <1>3, WFMin
<1> HIDE DEF R
<1>5. \A m \in Nat : m < n => m \in S
  BY <1>2, <1>4
<1> QED
  BY <1>4, <1>5

LEMMA SameSize ==
  ASSUME NEW S, NEW T, IsFiniteSet(S), NEW f \in [S -> T],
         \A a, b \in S : f[a] = f[b] => a = b, \A t \in T : \E a \in S : f[a] = t
  PROVE  IsFiniteSet(T) /\ Cardinality(T) = Cardinality(S)
<1>1. f \in Bijection(S, T)
  BY DEF Bijection, Injection, Surjection, IsInjective
<1> QED
  BY <1>1, FS_Bijection DEF ExistsBijection

LEMMA AtMostAsMany ==
  ASSUME NEW S, NEW T, IsFiniteSet(T), NEW f \in [S -> T], \A a, b \in S : f[a] = f[b] => a = b
  PROVE  IsFiniteSet(S) /\ Cardinality(S) <= Cardinality(T)
<1>1. f \in Injection(S, T)
  BY DEF Injection, IsInjective
<1> QED
  BY <1>1, FS_Injection

LEMMA ImageIsFinite ==
  ASSUME NEW S, NEW T, IsFiniteSet(S), NEW f \in [S -> T], \A t \in T : \E a \in S : f[a] = t
  PROVE  IsFiniteSet(T)
<1>1. f \in Surjection(S, T)
  BY DEF Surjection
<1> QED
  BY <1>1, FS_Surjection

LEMMA Smaller ==
  ASSUME NEW T, IsFiniteSet(T), NEW i \in T
  PROVE  /\ IsFiniteSet(T \ {i}) /\ Cardinality(T \ {i}) = Cardinality(T) - 1
         /\ Cardinality(T) \in Nat \ {0} /\ Cardinality(T \ {i}) \in Nat
<1>1. Cardinality(T) \in Nat /\ IsFiniteSet(T \ {i}) /\ Cardinality(T \ {i}) = Cardinality(T) - 1
  BY FS_RemoveElement, FS_CardinalityType
<1>2. Cardinality(T \ {i}) \in Nat
  BY <1>1, FS_CardinalityType
<1> QED
  BY <1>1, <1>2

Block(F, i) == {i} \X (1 .. F[i])
Cells(F, S) == UNION {Block(F, i) : i \in S}

LEMMA BlockSize ==
  ASSUME NEW F, NEW i, F[i] \in Nat
  PROVE  IsFiniteSet(Block(F, i)) /\ Cardinality(Block(F, i)) = F[i]
<1>1. IsFiniteSet({i}) /\ Cardinality({i}) = 1
  BY FS_Singleton
<1>2. IsFiniteSet(1 .. F[i]) /\ Cardinality(1 .. F[i]) = F[i]
  BY FS_Interval
<1>3. /\ IsFiniteSet({i} \X (1 .. F[i]))
      /\ Cardinality({i} \X (1 .. F[i])) = Cardinality({i}) * Cardinality(1 .. F[i])
  BY <1>1, <1>2, FS_Product
<1>4. 1 * F[i] = F[i]
  OBVIOUS
<1> QED
  BY <1>1, <1>2, <1>3, <1>4 DEF Block

LEMMA CellsAreFinite ==
  ASSUME NEW S, IsFiniteSet(S), NEW F \in [S -> Nat]
  PROVE  IsFiniteSet(Cells(F, S)) /\ Cardinality(Cells(F, S)) \in Nat
<1> DEFINE T == {Block(F, i) : i \in S}
           f == [i \in S |-> Block(F, i)]
<1>1. f \in [S -> T] /\ \A t \in T : \E a \in S : f[a] = t
  OBVIOUS
<1>2. IsFiniteSet(T)
  <2> HIDE DEF T, f
  <2> QED
    BY <1>1, ImageIsFinite
<1>3. \A t \in T : IsFiniteSet(t)
  BY BlockSize
<1>4. IsFiniteSet(UNION T)
  <2> HIDE DEF T
  <2> QED
    BY <1>2, <1>3, FS_UNION
<1> QED
  BY <1>4, FS_CardinalityType DEF Cells

LEMMA CellsGrow ==
  ASSUME NEW S, IsFiniteSet(S), NEW F \in [S -> Nat], NEW i \in S
  PROVE  Cardinality(Cells(F, S)) = F[i] + Cardinality(Cells(F, S \ {i}))
<1> DEFINE U == S \ {i}
           G == [j \in U |-> F[j]]
<1>1. IsFiniteSet(U) /\ G \in [U -> Nat]
  BY FS_RemoveElement
<1>2. Cells(G, U) = Cells(F, U)
  BY DEF Cells, Block
<1>3. IsFiniteSet(Cells(F, U)) /\ Cardinality(Cells(F, U)) \in Nat
  <2> HIDE DEF U, G
  <2> QED
    BY <1>1, <1>2, CellsAreFinite
<1>4. Cells(F, S) = Block(F, i) \cup Cells(F, U)
  BY DEF Cells
<1>5. Block(F, i) \cap Cells(F, U) = {}
  <2>1. (\A c \in Block(F, i) : c[1] = i) /\ \A c \in Cells(F, U) : c[1] \in U
    BY DEF Cells, Block
  <2> QED
    BY <2>1
<1>6. IsFiniteSet(Block(F, i)) /\ Cardinality(Block(F, i)) = F[i] /\ F[i] \in Nat
  BY BlockSize
<1>7. Cardinality({}) = 0
  BY FS_EmptySet
<1> HIDE DEF U
<1>8. Cardinality(Cells(F, S)) = Cardinality(Block(F, i)) + Cardinality(Cells(F, U)) - 0
  BY <1>3, <1>4, <1>5, <1>6, <1>7, FS_Union
<1> QED
  BY <1>3, <1>6, <1>8 DEF U

(* MapThenSumSet takes one element after another out of the set.           *)
AnyOf(T) == CHOOSE i \in T : TRUE
Unrolled(S, F, g) == [T \in SUBSET S |-> IF T = {} THEN 0 ELSE F[AnyOf(T)] + g[T \ {AnyOf(T)}]]

LEMMA SumsExist ==
  ASSUME NEW S, IsFiniteSet(S), NEW F \in [S -> Nat]
  PROVE  \E g : g = Unrolled(S, F, g)
<1> DEFINE g == [T \in SUBSET S |-> Cardinality(Cells(F, T))]
<1>1. ASSUME NEW T \in SUBSET S
      PROVE  g[T] = IF T = {} THEN 0 ELSE F[AnyOf(T)] + g[T \ {AnyOf(T)}]
  <2>1. CASE T = {}
    <3>1. Cells(F, T) = {}
      BY <2>1 DEF Cells
    <3> QED
      BY <2>1, <3>1, FS_EmptySet
  <2>2. CASE T # {}
    <3> DEFINE i == AnyOf(T)
               G == [j \in T |-> F[j]]
    <3>1. i \in T
      BY <2>2 DEF AnyOf
    <3>2. IsFiniteSet(T) /\ G \in [T -> Nat] /\ G[i] = F[i]
      BY <3>1, FS_Subset
    <3> HIDE DEF i
    <3>3. Cells(G, T) = Cells(F, T) /\ Cells(G, T \ {i}) = Cells(F, T \ {i})
      BY DEF Cells, Block
    <3>4. Cardinality(Cells(G, T)) = G[i] + Cardinality(Cells(G, T \ {i}))
      <4> HIDE DEF G
      <4> QED
        BY <3>1, <3>2, CellsGrow
    <3> QED
      BY <2>2, <3>2, <3>3, <3>4 DEF i
  <2> QED
    BY <2>1, <2>2
<1> HIDE DEF g
<1>2. g = Unrolled(S, F, g)
  <2>1. g = [T \in SUBSET S |-> g[T]]
    BY DEF g
  <2> QED
    BY <1>1, <2>1 DEF Unrolled
<1> QED
  BY <1>2

LEMMA SumIsCells ==
  ASSUME NEW S, IsFiniteSet(S), NEW F \in [S -> Nat], NEW g, g = Unrolled(S, F, g)
  PROVE  g[S] = Cardinality(Cells(F, S))
<1> DEFINE Cs == {c \in Nat : \A T \in SUBSET S : Cardinality(T) = c => g[T] = Cardinality(Cells(F, T))}
<1>1. ASSUME NEW c \in Nat, \A d \in Nat : d < c => d \in Cs PROVE c \in Cs
  <2> SUFFICES ASSUME NEW T \in SUBSET S, Cardinality(T) = c PROVE g[T] = Cardinality(Cells(F, T))
    OBVIOUS
  <2>1. CASE T = {}
    <3>1. Cells(F, T) = {} /\ g[T] = 0
      BY <2>1 DEF Cells, Unrolled
    <3> QED
      BY <3>1, FS_EmptySet
  <2>2. CASE T # {}
    <3> DEFINE i == AnyOf(T)
               U == T \ {i}
               G == [j \in T |-> F[j]]
    <3>1. i \in T
      BY <2>2 DEF AnyOf
    <3>2. g[T] = F[i] + g[U]
      <4>1. Unrolled(S, F, g)[T] = F[i] + g[U]
        BY <2>2 DEF Unrolled
      <4> QED
        BY <4>1
    <3> HIDE DEF i
    <3>3. IsFiniteSet(T) /\ G \in [T -> Nat] /\ G[i] = F[i] /\ U \in SUBSET S
      BY <3>1, FS_Subset
    <3>4. Cardinality(U) = c - 1 /\ c - 1 \in Nat /\ c - 1 < c
      <4>1. Cardinality(T \ {i}) = Cardinality(T) - 1 /\ Cardinality(T \ {i}) \in Nat
        BY <3>1, <3>3, Smaller
      <4> QED
        BY <4>1
    <3>5. g[U] = Cardinality(Cells(F, U))
      <4> HIDE DEF U
      <4>1. c - 1 \in Cs
        BY <1>1, <3>4
      <4> QED
        BY <3>3, <3>4, <4>1
    <3>6. Cells(G, T) = Cells(F, T) /\ Cells(G, U) = Cells(F, U)
      BY DEF Cells, Block
    <3>7. Cardinality(Cells(G, T)) = G[i] + Cardinality(Cells(G, U))
      <4> HIDE DEF G
      <4> QED
        BY <3>1, <3>3, CellsGrow
    <3> QED
      BY <3>2, <3>3, <3>5, <3>6, <3>7
  <2> QED
    BY <2>1, <2>2
<1>2. Cs = Nat
  <2>1. Cs \in SUBSET Nat
    OBVIOUS
  <2> HIDE DEF Cs
  <2> QED
    BY <1>1, <2>1, NatSets
<1>3. Cardinality(S) \in Nat /\ S \in SUBSET S
  BY FS_CardinalityType
<1> QED
  BY <1>2, <1>3

LEMMA TotalIs ==
  ASSUME NEW S, IsFiniteSet(S), NEW F \in [S -> Nat]
  PROVE  SumFunction(F) = Cardinality(Cells(F, S)) /\ SumFunction(F) \in Nat
<1> DEFINE Body(g) == [T \in SUBSET S |-> IF T = {} THEN 0
                         ELSE F[CHOOSE a \in T : TRUE] + g[T \ {CHOOSE a \in T : TRUE}]]
           h == CHOOSE g : g = Body(g)
<1>1. SumFunction(F) = h[S]
  <2>1. DOMAIN F = S
    OBVIOUS
  <2> QED
    BY <2>1 DEF SumFunction, SumFunctionOnSet, FoldFunctionOnSet, MapThenFoldSet
<1>2. \A g : Body(g) = Unrolled(S, F, g)
  BY DEF Unrolled, AnyOf
<1>3. PICK g : g = Unrolled(S, F, g)
  BY SumsExist
<1>4. h = Unrolled(S, F, h)
  <2>1. g = Body(g)
    BY <1>2, <1>3
  <2> HIDE DEF Body
  <2>2. h = Body(h)
    BY <2>1
  <2> QED
    BY <1>2, <2>2
<1> HIDE DEF h
<1>5. h[S] = Cardinality(Cells(F, S)) /\ Cardinality(Cells(F, S)) \in Nat
  BY <1>4, SumIsCells, CellsAreFinite
<1> QED
  BY <1>1, <1>5

(* A set is the sum of its parts, by the value each element has.           *)
On(p, ch) == {e \in DOMAIN p : p[e] = ch}

Splits(X, Y, F, G) ==
  /\ IsFiniteSet(X) /\ IsFiniteSet(Y) /\ F \in [X -> Y] /\ G \in [Y -> Nat]
  /\ \A y \in Y : G[y] = Cardinality(On(F, y))

LEMMA SumOfParts ==
  ASSUME NEW X, NEW Y, NEW F, NEW G, Splits(X, Y, F, G)
  PROVE  SumFunction(G) = Cardinality(X)
<1> USE DEF Splits
<1> DEFINE Of(T) == {a \in X : F[a] \in T}
           Cs == {c \in Nat : \A T \in SUBSET Y : Cardinality(T) = c
                                => Cardinality(Of(T)) = Cardinality(Cells(G, T))}
<1>1. ASSUME NEW c \in Nat, \A d \in Nat : d < c => d \in Cs PROVE c \in Cs
  <2> SUFFICES ASSUME NEW T \in SUBSET Y, Cardinality(T) = c
               PROVE  Cardinality(Of(T)) = Cardinality(Cells(G, T))
    OBVIOUS
  <2>1. CASE T = {}
    <3>1. Cells(G, T) = {} /\ Of(T) = {}
      BY <2>1 DEF Cells
    <3> QED
      BY <3>1
  <2>2. CASE T # {}
    <3>1. PICK y \in T : TRUE
      BY <2>2
    <3> DEFINE U == T \ {y}
               H == [z \in T |-> G[z]]
               A == {a \in X : F[a] = y}
               B == Of(U)
    <3>0. A = On(F, y) /\ G[y] = Cardinality(A)
      BY DEF On
    <3>2. IsFiniteSet(T) /\ H \in [T -> Nat] /\ H[y] = G[y] /\ U \in SUBSET Y
      BY FS_Subset
    <3>3. Cardinality(U) = c - 1 /\ c - 1 \in Nat /\ c - 1 < c
      <4>1. Cardinality(T \ {y}) = Cardinality(T) - 1 /\ Cardinality(T \ {y}) \in Nat
        BY <3>2, Smaller
      <4> QED
        BY <4>1
    <3>4. Cardinality(B) = Cardinality(Cells(G, U))
      <4> HIDE DEF U, Of
      <4>1. c - 1 \in Cs
        BY <1>1, <3>3
      <4> QED
        BY <3>2, <3>3, <4>1
    <3>5. Cells(H, T) = Cells(G, T) /\ Cells(H, U) = Cells(G, U)
      BY DEF Cells, Block
    <3>6. Cardinality(Cells(H, T)) = H[y] + Cardinality(Cells(H, U))
      <4> HIDE DEF H
      <4> QED
        BY <3>2, CellsGrow
    <3>7. Of(T) = A \cup B /\ A \cap B = {} /\ A \in SUBSET X /\ B \in SUBSET X
      OBVIOUS
    <3>8. Cardinality(Of(T)) = Cardinality(A) + Cardinality(B)
      <4> HIDE DEF A, B, Of
      <4>1. IsFiniteSet(A) /\ IsFiniteSet(B) /\ Cardinality(A) \in Nat /\ Cardinality(B) \in Nat
        BY <3>7, FS_Subset, FS_CardinalityType
      <4>2. Cardinality(A \cup B) = Cardinality(A) + Cardinality(B) - Cardinality({})
        BY <3>7, <4>1, FS_Union
      <4> QED
        BY <3>7, <4>1, <4>2, FS_EmptySet
    <3> HIDE DEF U, H, B, Of
    <3> QED
      BY <3>0, <3>2, <3>4, <3>5, <3>6, <3>8
  <2> QED
    BY <2>1, <2>2
<1>2. Cs = Nat
  <2>1. Cs \in SUBSET Nat
    OBVIOUS
  <2> HIDE DEF Cs
  <2> QED
    BY <1>1, <2>1, NatSets
<1>3. Cardinality(Y) \in Nat /\ Y \in SUBSET Y
  BY FS_CardinalityType
<1>4. Cardinality(Of(Y)) = Cardinality(Cells(G, Y))
  <2> HIDE DEF Of
  <2> QED
    BY <1>2, <1>3
<1>5. Of(Y) = X
  OBVIOUS
<1> QED
  BY <1>4, <1>5, TotalIs

(* Of a set of n integers there are n (n - 1) / 2 pairs.                   *)
LEMMA PairsAre ==
  ASSUME NEW D \in SUBSET Int, IsFiniteSet(D)
  PROVE  Cardinality({p \in D \X D : p[1] < p[2]}) = Pairs(Cardinality(D))
<1> DEFINE W == {p \in D \X D : p[1] < p[2]}
           V == {p \in D \X D : p[2] < p[1]}
           Z == {p \in D \X D : p[1] = p[2]}
           n == Cardinality(D)
<1>1. IsFiniteSet(D \X D) /\ Cardinality(D \X D) = n * n /\ n \in Nat
  BY FS_Product, FS_CardinalityType
<1>2. W \in SUBSET (D \X D) /\ V \in SUBSET (D \X D) /\ Z \in SUBSET (D \X D)
  OBVIOUS
<1>3. Cardinality(V) = Cardinality(W)
  <2> DEFINE f == [p \in W |-> << p[2], p[1] >>]
  <2>1. f \in [W -> V] /\ \A p, q \in W : f[p] = f[q] => p = q
    OBVIOUS
  <2>2. ASSUME NEW q \in V PROVE \E p \in W : f[p] = q
    <3>1. << q[2], q[1] >> \in W /\ f[<< q[2], q[1] >>] = q
      OBVIOUS
    <3> QED
      BY <3>1
  <2>3. IsFiniteSet(W)
    BY <1>1, <1>2, FS_Subset
  <2> HIDE DEF f, V, W
  <2> QED
    BY <2>1, <2>2, <2>3, SameSize
<1>4. Cardinality(Z) = n
  <2> DEFINE f == [d \in D |-> << d, d >>]
  <2>1. f \in [D -> Z] /\ \A p, q \in D : f[p] = f[q] => p = q
    OBVIOUS
  <2>2. \A q \in Z : \E d \in D : f[d] = q
    <3>1. \A q \in Z : q[1] \in D /\ f[q[1]] = q
      OBVIOUS
    <3> QED
      BY <3>1
  <2> HIDE DEF f, Z
  <2> QED
    BY <2>1, <2>2, SameSize
<1>5. /\ IsFiniteSet(W) /\ IsFiniteSet(V) /\ IsFiniteSet(Z)
      /\ Cardinality(W) \in Nat /\ Cardinality(V) \in Nat /\ Cardinality(Z) \in Nat
  <2> HIDE DEF W, V, Z
  <2> QED
    BY <1>1, <1>2, FS_Subset, FS_CardinalityType
<1>6. W \cap V = {} /\ (W \cup V) \cap Z = {} /\ D \X D = (W \cup V) \cup Z
  <2>1. \A p \in D \X D : p[1] \in Int /\ p[2] \in Int
    OBVIOUS
  <2>2. \A a, b \in Int : (a < b \/ b < a \/ a = b) /\ ~(a < b /\ b < a) /\ ~(a < b /\ a = b) /\ ~(b < a /\ a = b)
    OBVIOUS
  <2> QED
    BY <2>1, <2>2
<1> HIDE DEF W, V, Z
<1>7. IsFiniteSet(W \cup V) /\ Cardinality(W \cup V) = Cardinality(W) + Cardinality(V) - Cardinality(W \cap V)
  BY <1>5, FS_Union
<1>8. Cardinality((W \cup V) \cup Z) = Cardinality(W \cup V) + Cardinality(Z) - Cardinality((W \cup V) \cap Z)
  BY <1>5, <1>7, FS_Union
<1>9. Cardinality({}) = 0
  BY FS_EmptySet
<1> DEFINE sq == n * n
<1> HIDE DEF n
<1>10. sq = 2 * Cardinality(W) + n
  <2>1. sq = Cardinality((W \cup V) \cup Z)
    BY <1>1, <1>6
  <2> HIDE DEF sq
  <2>2. Cardinality(W \cap V) = 0 /\ Cardinality((W \cup V) \cap Z) = 0
    BY <1>6, <1>9
  <2>3. Cardinality(W \cup V) = 2 * Cardinality(W)
    BY <2>2, <1>3, <1>5, <1>7
  <2> QED
    BY <2>1, <2>2, <2>3, <1>1, <1>4, <1>5, <1>8
<1>11. n * (n - 1) = 2 * Cardinality(W)
  <2>1. \A k \in Nat : k * (k - 1) = k * k - k
    OBVIOUS
  <2> QED
    BY <1>1, <1>5, <1>10, <2>1
<1>12. (n * (n - 1)) \div 2 = Cardinality(W)
  <2>1. \A w \in Nat : (2 * w) \div 2 = w
    OBVIOUS
  <2> QED
    BY <1>5, <1>11, <2>1
<1> QED
  BY <1>12 DEF Pairs, n, W

-------------------------------------------------------------------------------
(* The placement.  The packer goes through a permutation of the experts,   *)
(* and while one is left a channel has room.                               *)
LEMMA ExpertsAre ==
  /\ {L, E, K, TOKENS} \subseteq Nat \ {0} /\ K <= E
  /\ IsFiniteSet(Experts) /\ Cardinality(Experts) = E
<1>1. {L, E, K, TOKENS} \subseteq Nat \ {0} /\ K <= E
  BY RouterAssumption
<1>2. IsFiniteSet(0 .. E - 1) /\ Cardinality(0 .. E - 1) = E
  <2>1. 0 \in Int /\ E - 1 \in Int /\ ~(0 > E - 1) /\ (E - 1) - 0 + 1 = E
    BY <1>1
  <2> QED
    BY <2>1, FS_Interval
<1> QED
  BY <1>1, <1>2 DEF Experts

Before(freq, d, e) == freq[d] > freq[e] \/ (freq[d] = freq[e] /\ d < e)
Ahead(freq, e) == {d \in Experts : Before(freq, d, e)}

LEMMA FewerAhead ==
  ASSUME NEW freq \in [Experts -> Nat], NEW d \in Experts, NEW e \in Experts, Before(freq, d, e)
  PROVE  Cardinality(Ahead(freq, d)) < Cardinality(Ahead(freq, e))
<1> DEFINE A == Ahead(freq, d)
           B == Ahead(freq, e)
<1>1. A \in SUBSET Experts /\ B \in SUBSET Experts
  BY DEF Ahead
<1>2. IsFiniteSet(A) /\ IsFiniteSet(B) /\ Cardinality(A) \in Nat /\ Cardinality(B) \in Nat
  <2> HIDE DEF A, B
  <2> QED
    BY <1>1, ExpertsAre, FS_Subset, FS_CardinalityType
<1>3. Experts \subseteq Nat
  BY DEF Experts
<1>4. d \notin A /\ A \cup {d} \subseteq B
  <2>1. freq[d] \in Nat /\ freq[e] \in Nat /\ d \in Nat /\ e \in Nat
    BY <1>3
  <2>2. ASSUME NEW c \in A PROVE c \in B
    <3>1. c \in Experts /\ c \in Nat /\ freq[c] \in Nat /\ Before(freq, c, d)
      BY <1>3 DEF Ahead
    <3>2. Before(freq, c, e)
      BY <2>1, <3>1 DEF Before
    <3> QED
      BY <3>1, <3>2 DEF Ahead
  <2>3. d \notin A
    BY <2>1 DEF Ahead, Before
  <2>4. d \in B
    BY DEF Ahead
  <2> HIDE DEF A, B
  <2> QED
    BY <2>2, <2>3, <2>4
<1> HIDE DEF A, B
<1>5. Cardinality(A \cup {d}) = Cardinality(A) + 1
  BY <1>2, <1>4, FS_AddElement
<1>6. Cardinality(A \cup {d}) <= Cardinality(B)
  BY <1>2, <1>4, FS_Subset
<1> QED
  BY <1>2, <1>5, <1>6 DEF A, B

LEMMA OrderIs ==
  ASSUME NEW freq \in [Experts -> Nat]
  PROVE  /\ ByFrequency(freq) \in [1 .. E -> Experts]
         /\ \A i, j \in 1 .. E : ByFrequency(freq)[i] = ByFrequency(freq)[j] => i = j
<1> DEFINE rank == [e \in Experts |-> Cardinality(Ahead(freq, e))]
           T == 0 .. E - 1
<1>1. E \in Nat \ {0} /\ Experts \subseteq Nat
  BY ExpertsAre DEF Experts
<1>2. \A e \in Experts : rank[e] \in T
  <2> SUFFICES ASSUME NEW e \in Experts PROVE Cardinality(Ahead(freq, e)) \in 0 .. E - 1
    OBVIOUS
  <2>1. IsFiniteSet(Experts \ {e}) /\ Cardinality(Experts \ {e}) = E - 1
    BY ExpertsAre, FS_RemoveElement
  <2>2. Ahead(freq, e) \subseteq Experts \ {e}
    BY <1>1 DEF Ahead, Before
  <2> QED
    BY <1>1, <2>1, <2>2, FS_Subset, FS_CardinalityType
<1>3. \A d, e \in Experts : rank[d] = rank[e] => d = e
  <2> SUFFICES ASSUME NEW d \in Experts, NEW e \in Experts, d # e PROVE rank[d] # rank[e]
    OBVIOUS
  <2>1. Before(freq, d, e) \/ Before(freq, e, d)
    BY <1>1 DEF Before
  <2>2. rank[d] \in Int /\ rank[e] \in Int
    BY <1>2
  <2>3. Before(freq, d, e) => rank[d] < rank[e]
    BY FewerAhead
  <2>4. Before(freq, e, d) => rank[e] < rank[d]
    BY FewerAhead
  <2> HIDE DEF rank
  <2> QED
    BY <2>1, <2>2, <2>3, <2>4
<1>4. IsFiniteSet(T) /\ Cardinality(T) = E
  BY <1>1, FS_Interval
<1>5. \A t \in T : \E e \in Experts : rank[e] = t
  <2>1. rank \in [Experts -> T]
    BY <1>2
  <2> HIDE DEF rank, T
  <2>2. rank \in Injection(Experts, T)
    BY <1>3, <2>1 DEF Injection, IsInjective
  <2>3. rank \in Surjection(Experts, T)
    BY <2>2, <1>4, ExpertsAre, FS_Injection
  <2> QED
    BY <2>3 DEF Surjection
<1>6. ASSUME NEW i \in 1 .. E
      PROVE  ByFrequency(freq)[i] \in Experts /\ rank[ByFrequency(freq)[i]] = i - 1
  <2>1. i - 1 \in T
    BY <1>1
  <2>2. \E e \in Experts : Cardinality(Ahead(freq, e)) = i - 1
    BY <1>5, <2>1
  <2>3. ByFrequency(freq)[i] = CHOOSE e \in Experts : Cardinality(Ahead(freq, e)) = i - 1
    BY DEF ByFrequency, Ahead, Before
  <2> QED
    BY <2>2, <2>3
<1> DEFINE order == [i \in 1 .. E |-> CHOOSE e \in Experts : Cardinality(Ahead(freq, e)) = i - 1]
<1>7. ByFrequency(freq) = order
  BY DEF ByFrequency, Ahead, Before
<1>8. ByFrequency(freq) \in [1 .. E -> Experts]
  <2>1. \A i \in 1 .. E : order[i] \in Experts
    <3> HIDE DEF order
    <3> QED
      BY <1>6, <1>7
  <2>2. order \in [1 .. E -> Experts]
    BY <2>1
  <2> HIDE DEF order
  <2> QED
    BY <1>7, <2>2
<1> HIDE DEF rank
<1> QED
  BY <1>6, <1>8

(* Rounding up to a multiple of the channels.                              *)
LEMMA CapIs ==
  ASSUME NEW n \in Nat \ {0}, NEW e \in Nat
  PROVE  /\ (e + n - 1) \div n \in Nat
         /\ n * ((e + n - 1) \div n) >= e
         /\ \A d \in Nat : d < e => d % n \in 0 .. n - 1 /\ d \div n \in 0 .. (e + n - 1) \div n - 1
<1> DEFINE m == e + n - 1
           q == m \div n
           r == m % n
<1>1. m \in Nat /\ q \in Int /\ r \in 0 .. n - 1 /\ m = n * q + r
  OBVIOUS
<1>2. n * q >= e
  <2> HIDE DEF q, r
  <2> QED
    BY <1>1
<1>3. q >= 0
  <2> HIDE DEF q, r
  <2>1. ~(q <= -1)
    <3> SUFFICES ASSUME q <= -1 PROVE FALSE
      OBVIOUS
    <3>1. n * q <= -n
      BY <1>1
    <3> QED
      BY <1>1, <1>2, <3>1
  <2> QED
    BY <1>1, <2>1
<1>4. ASSUME NEW d \in Nat, d < e PROVE d % n \in 0 .. n - 1 /\ d \div n \in 0 .. q - 1
  <2> DEFINE p == d \div n
             s == d % n
  <2>1. p \in Int /\ s \in 0 .. n - 1 /\ d = n * p + s
    OBVIOUS
  <2> HIDE DEF p, s, q, r
  <2>2. ~(p <= -1)
    <3> SUFFICES ASSUME p <= -1 PROVE FALSE
      OBVIOUS
    <3>1. n * p <= -n
      BY <2>1
    <3> QED
      BY <2>1, <3>1
  <2>3. ~(p >= q)
    <3> SUFFICES ASSUME p >= q PROVE FALSE
      OBVIOUS
    <3>1. n * p >= n * q
      BY <1>1, <2>1
    <3> QED
      BY <1>1, <1>2, <1>4, <2>1, <3>1
  <2>4. p \in 0 .. q - 1
    BY <1>1, <2>1, <2>2, <2>3
  <2> QED
    BY <2>1, <2>4 DEF p, s
<1> QED
  BY <1>1, <1>2, <1>3, <1>4

(* With a channel for every expert and no room on any, all are placed.     *)
LEMMA RoomIsLeft ==
  ASSUME NEW n \in Nat \ {0}, NEW c \in Nat, NEW A, IsFiniteSet(A), NEW p \in [A -> 0 .. n - 1],
         Cardinality(A) < n * c
  PROVE  \E ch \in 0 .. n - 1 : Cardinality(On(p, ch)) < c
<1> DEFINE N == 0 .. n - 1
           S == N \X (1 .. c)
<1>1. \A ch \in N : IsFiniteSet(On(p, ch)) /\ Cardinality(On(p, ch)) \in Nat
  <2> SUFFICES ASSUME NEW ch \in N PROVE IsFiniteSet(On(p, ch)) /\ Cardinality(On(p, ch)) \in Nat
    OBVIOUS
  <2>1. On(p, ch) \in SUBSET A
    BY DEF On
  <2> QED
    BY <2>1, FS_Subset, FS_CardinalityType
<1> SUFFICES ASSUME \A ch \in N : Cardinality(On(p, ch)) >= c PROVE FALSE
  BY <1>1
<1> DEFINE Bs(ch) == Bijection(1 .. Cardinality(On(p, ch)), On(p, ch))
           b == [ch \in N |-> CHOOSE f \in Bs(ch) : TRUE]
<1>2. ASSUME NEW ch \in N PROVE b[ch] \in Bs(ch)
  <2>1. Bs(ch) # {}
    BY <1>1, FS_CardinalityType DEF ExistsBijection
  <2> HIDE DEF Bs
  <2> QED
    BY <2>1
<1>3. ASSUME NEW ch \in N, NEW k \in 1 .. c
      PROVE  /\ b[ch][k] \in On(p, ch)
             /\ \A l \in 1 .. c : b[ch][k] = b[ch][l] => k = l
  <2> HIDE DEF b
  <2>1. 1 .. c \subseteq 1 .. Cardinality(On(p, ch))
    BY <1>1
  <2> QED
    BY <1>2, <2>1 DEF Bijection, Injection, IsInjective
<1> HIDE DEF b
<1> DEFINE g == [s \in S |-> b[s[1]][s[2]]]
<1>4. g \in [S -> A]
  BY <1>3 DEF On
<1>5. \A s, t \in S : g[s] = g[t] => s = t
  <2> SUFFICES ASSUME NEW s \in S, NEW t \in S, g[s] = g[t] PROVE s = t
    OBVIOUS
  <2>1. s = << s[1], s[2] >> /\ t = << t[1], t[2] >> /\ s[1] \in N /\ t[1] \in N /\ s[2] \in 1 .. c /\ t[2] \in 1 .. c
    OBVIOUS
  <2>2. b[s[1]][s[2]] = b[t[1]][t[2]]
    OBVIOUS
  <2>3. p[b[s[1]][s[2]]] = s[1] /\ p[b[t[1]][t[2]]] = t[1]
    BY <1>3, <2>1 DEF On
  <2>4. s[1] = t[1]
    BY <2>2, <2>3
  <2>5. s[2] = t[2]
    BY <1>3, <2>1, <2>2, <2>4
  <2> QED
    BY <2>1, <2>4, <2>5
<1>6. IsFiniteSet(N) /\ Cardinality(N) = n /\ IsFiniteSet(1 .. c) /\ Cardinality(1 .. c) = c
  BY FS_Interval
<1>7. IsFiniteSet(S) /\ Cardinality(S) = n * c
  <2>1. IsFiniteSet(N \X (1 .. c)) /\ Cardinality(N \X (1 .. c)) = Cardinality(N) * Cardinality(1 .. c)
    <3> HIDE DEF N
    <3> QED
      BY <1>6, FS_Product
  <2> QED
    BY <1>6, <2>1
<1>8. Cardinality(S) <= Cardinality(A)
  <2> HIDE DEF S, g
  <2> QED
    BY <1>4, <1>5, AtMostAsMany
<1>9. Cardinality(A) \in Nat
  BY FS_CardinalityType
<1> DEFINE nc == n * c
<1>10. nc \in Int
  OBVIOUS
<1> QED
  BY <1>7, <1>8, <1>9, <1>10

LEMMA LeastNumber ==
  ASSUME NEW T \in SUBSET Nat, T # {}
  PROVE  \E t \in T : \A u \in T : t <= u
<1> SUFFICES ASSUME \A t \in T : \E u \in T : u < t PROVE FALSE
  OBVIOUS
<1>1. ASSUME NEW n \in Nat, \A m \in Nat : m < n => m \in Nat \ T PROVE n \in Nat \ T
  BY <1>1
<1>2. Nat \ T = Nat
  BY <1>1, NatSets
<1> QED
  BY <1>2

(* The channel with the least key: least conflict first, then least load,  *)
(* then the least number.                                                  *)
LEMMA LeastKey ==
  ASSUME NEW S \in SUBSET Nat, S # {}, NEW f \in [S -> Nat], NEW g \in [S -> Nat]
  PROVE  \E c \in S : \A d \in S \ {c} :
           f[c] < f[d] \/ (f[c] = f[d] /\ (g[c] < g[d] \/ (g[c] = g[d] /\ c < d)))
<1> DEFINE F == {f[c] : c \in S}
<1>1. PICK m \in F : \A u \in F : m <= u
  <2>1. F \in SUBSET Nat /\ F # {}
    OBVIOUS
  <2> HIDE DEF F
  <2> QED
    BY <2>1, LeastNumber
<1> DEFINE G == {g[c] : c \in {d \in S : f[d] = m}}
<1>2. PICK l \in G : \A u \in G : l <= u
  <2>1. G \in SUBSET Nat /\ G # {}
    OBVIOUS
  <2> HIDE DEF G, F
  <2> QED
    BY <2>1, LeastNumber
<1> DEFINE C == {c \in S : f[c] = m /\ g[c] = l}
<1>3. PICK c \in C : \A u \in C : c <= u
  <2>1. C \in SUBSET Nat /\ C # {}
    OBVIOUS
  <2> HIDE DEF C, G, F
  <2> QED
    BY <2>1, LeastNumber
<1>4. c \in S /\ f[c] = m /\ g[c] = l
  OBVIOUS
<1>5. ASSUME NEW d \in S \ {c}
      PROVE  f[c] < f[d] \/ (f[c] = f[d] /\ (g[c] < g[d] \/ (g[c] = g[d] /\ c < d)))
  <2>1. m <= f[d] /\ f[d] \in Nat /\ m \in Nat /\ g[d] \in Nat /\ l \in Nat
    BY <1>1, <1>4
  <2>2. f[d] = m => l <= g[d]
    BY <1>2
  <2>3. f[d] = m /\ g[d] = l => c <= d
    BY <1>3
  <2> HIDE DEF C, G, F
  <2> QED
    BY <1>4, <2>1, <2>2, <2>3
<1> QED
  BY <1>4, <1>5

LEMMA ConflictIs ==
  ASSUME IsFiniteSet(DOMAIN assign), DOMAIN assign \subseteq Experts,
         NEW co \in [Experts \X Experts -> Nat], NEW e \in Experts, NEW ch
  PROVE  Conflict(co, e, ch) \in Nat
<1> DEFINE S == {d \in DOMAIN assign \ {e} : assign[d] = ch}
           F == [d \in S |-> co[<< d, e >>]]
<1>1. Conflict(co, e, ch) = SumFunction(F)
  BY DEF Conflict
<1>2. F \in [S -> Nat]
  OBVIOUS
<1>3. IsFiniteSet(S)
  BY FS_Subset
<1> HIDE DEF F, S
<1> QED
  BY <1>1, <1>2, <1>3, TotalIs

LEMMA BestIsOpen ==
  ASSUME IsFiniteSet(DOMAIN assign), DOMAIN assign \subseteq Experts,
         NEW n \in Nat, load \in [0 .. n - 1 -> Nat], Open # {},
         NEW co \in [Experts \X Experts -> Nat], NEW e \in Experts
  PROVE  BestChannel(co, e) \in Open
<1> DEFINE f == [c \in Open |-> Conflict(co, e, c)]
           g == [c \in Open |-> load[c]]
<1>1. Open \in SUBSET Nat /\ g \in [Open -> Nat]
  BY DEF Open
<1>2. f \in [Open -> Nat]
  BY ConflictIs
<1>3. PICK c \in Open : \A d \in Open \ {c} :
           f[c] < f[d] \/ (f[c] = f[d] /\ (g[c] < g[d] \/ (g[c] = g[d] /\ c < d)))
  <2> HIDE DEF f, g
  <2> QED
    BY <1>1, <1>2, LeastKey
<1> DEFINE Key(a, b) == \/ Conflict(co, e, a) < Conflict(co, e, b)
                        \/ /\ Conflict(co, e, a) = Conflict(co, e, b)
                           /\ load[a] < load[b] \/ (load[a] = load[b] /\ a < b)
<1>4. \A d \in Open \ {c} : Key(c, d)
  BY <1>3
<1>5. BestChannel(co, e) = CHOOSE a \in Open : \A d \in Open \ {a} : Key(a, d)
  BY DEF BestChannel
<1> HIDE DEF Key
<1> QED
  BY <1>4, <1>5

(* Fetch counts are naturals, whatever was drawn.                          *)
LEMMA CountsAre ==
  ASSUME NEW l \in Layers
  PROVE  LET stats == coactivation(build_selection(TOKENS))[l]
         IN  stats.freq \in [Experts -> Nat] /\ stats.co \in [Experts \X Experts -> Nat]
<1> DEFINE s == build_selection(TOKENS)
           stats == coactivation(s)[l]
           D == DOMAIN s
<1>1. IsFiniteSet(D)
  <2>1. TOKENS \in Nat
    BY ExpertsAre
  <2>2. D = 1 .. TOKENS
    <3> DEFINE V == {sel[i] : i \in 1 .. TOKENS}
    <3>1. \A i \in 1 .. TOKENS : sel[i] \in V
      OBVIOUS
    <3>2. 1 \in Int /\ TOKENS \in Int
      BY <2>1
    <3> HIDE DEF V
    <3>3. SubSeq(sel, 1, TOKENS) \in Seq(V) /\ Len(SubSeq(sel, 1, TOKENS)) = IF 1 <= TOKENS THEN TOKENS - 1 + 1 ELSE 0
      BY <3>1, <3>2, SubSeqProperties
    <3> QED
      BY <2>1, <3>3 DEF build_selection
  <2> QED
    BY <2>1, <2>2, FS_Interval
<1>2. \A T \in SUBSET D : Cardinality(T) \in Nat
  <2> HIDE DEF D
  <2> QED
    BY <1>1, FS_Subset, FS_CardinalityType
<1> HIDE DEF s
<1>3. /\ stats.freq = [e \in Experts |-> Cardinality({t \in D : Contains(s[t][l], e)})]
      /\ stats.co = [p \in Experts \X Experts |->
                       Cardinality({t \in D : Contains(s[t][l], p[1]) /\ Contains(s[t][l], p[2])})]
  BY Zenon DEF coactivation
<1>4. \A e \in Experts : Cardinality({t \in D : Contains(s[t][l], e)}) \in Nat
  <2> HIDE DEF D
  <2> QED
    BY <1>2
<1>5. \A p \in Experts \X Experts :
        Cardinality({t \in D : Contains(s[t][l], p[1]) /\ Contains(s[t][l], p[2])}) \in Nat
  <2> HIDE DEF D
  <2> QED
    BY <1>2
<1> HIDE DEF D, stats
<1> QED
  BY <1>3, <1>4, <1>5 DEF s, stats

Placements == {p \in [Experts -> 0 .. n_ch - 1] : \A ch \in 0 .. n_ch - 1 : Cardinality(On(p, ch)) <= cap}
Ranking == ByFrequency(coactivation(build_selection(TOKENS))[Len(layout)].freq)

(* Finished layers are placements; the loads count what is placed of the   *)
(* layer under way, which is the first part of its ranking.                *)
LayoutInv ==
  /\ n_ch \in Nat \ {0}
  /\ layout \in Seq(Placements)
  /\ DOMAIN assign \in SUBSET Experts /\ assign \in [DOMAIN assign -> 0 .. n_ch - 1]
  /\ Cardinality(DOMAIN assign) < E
  /\ load \in [0 .. n_ch - 1 -> Nat]
  /\ \A ch \in 0 .. n_ch - 1 : load[ch] = Cardinality(On(assign, ch)) /\ load[ch] <= cap
  /\ DOMAIN assign = {Ranking[i] : i \in 1 .. Cardinality(DOMAIN assign)}
  /\ DOMAIN assign # {} => job = "pack" /\ packer = "optimized"

LEMMA LayoutIsSound == LayoutInv => LayoutIsBalanced
<1> SUFFICES ASSUME LayoutInv PROVE LayoutIsBalanced
  OBVIOUS
<1>1. ASSUME NEW i \in DOMAIN layout
      PROVE  /\ DOMAIN layout[i] = Experts
             /\ \A ch \in 0 .. n_ch - 1 : Cardinality({e \in Experts : layout[i][e] = ch}) <= cap
             /\ Range(layout[i]) \subseteq 0 .. n_ch - 1
  <2>1. layout[i] \in Placements
    BY DEF LayoutInv
  <2> QED
    BY <2>1 DEF Placements, On, Range
<1>2. DOMAIN load = 0 .. n_ch - 1
  BY DEF LayoutInv
<1>3. \A ch \in DOMAIN load : load[ch] = Cardinality({e \in DOMAIN assign : assign[e] = ch})
  BY <1>2 DEF LayoutInv, On
<1> QED
  BY <1>1, <1>3 DEF LayoutIsBalanced

(* Nothing is placed yet.                                                  *)
LEMMA NothingPlaced ==
  ASSUME NEW n \in Nat \ {0}
  PROVE  /\ DOMAIN Nobody = {} /\ Cardinality({}) = 0 /\ 0 < E
         /\ NoLoad(n) \in [0 .. n - 1 -> Nat]
         /\ \A ch \in 0 .. n - 1 : NoLoad(n)[ch] = 0 /\ On(Nobody, ch) = {}
         /\ (E + n - 1) \div n \in Nat
<1>1. DOMAIN Nobody = {}
  BY DEF Nobody
<1>2. Cardinality({}) = 0
  BY FS_EmptySet
<1>3. E \in Nat \ {0}
  BY ExpertsAre
<1>4. (E + n - 1) \div n \in Nat
  BY <1>3, CapIs
<1> QED
  BY <1>1, <1>2, <1>3, <1>4 DEF NoLoad, On

LEMMA ChannelCounts == Channels \subseteq Nat \ {0}
<1>1. \A n \in Nat : 2^n \in Nat \ {0}
  <2> SUFFICES ASSUME NEW n \in Nat PROVE 2^n \in Nat \ {0}
    OBVIOUS
  <2>1. IsFiniteSet(1 .. n) /\ Cardinality(1 .. n) = n
    BY FS_Interval
  <2>2. IsFiniteSet(SUBSET (1 .. n)) /\ Cardinality(SUBSET (1 .. n)) = 2^n
    BY <2>1, FS_SUBSET
  <2>3. SUBSET (1 .. n) # {}
    OBVIOUS
  <2>4. Cardinality(SUBSET (1 .. n)) \in Nat /\ Cardinality(SUBSET (1 .. n)) # 0
    BY <2>2, <2>3, FS_CardinalityType, FS_EmptySet
  <2> QED
    BY <2>2, <2>4
<1>2. 0 .. 6 \subseteq Nat
  OBVIOUS
<1> QED
  BY <1>1, <1>2, FabricAssumption

(* The expert packed next is new, and the channel chosen for it has room.  *)
LEMMA NextPlaced ==
  ASSUME LayoutInv, Len(layout) < L
  PROVE  LET stats == coactivation(build_selection(TOKENS))[Len(layout)]
             e == ByFrequency(stats.freq)[Cardinality(DOMAIN assign) + 1]
             ch == BestChannel(stats.co, e)
         IN  /\ e \in Experts /\ e \notin DOMAIN assign
             /\ ch \in 0 .. n_ch - 1 /\ load[ch] < cap
             /\ e = Ranking[Cardinality(DOMAIN assign) + 1]
<1> DEFINE l == Len(layout)
           stats == coactivation(build_selection(TOKENS))[l]
           m == Cardinality(DOMAIN assign)
           e == ByFrequency(stats.freq)[m + 1]
           ch == BestChannel(stats.co, e)
           A == DOMAIN assign
<1>1. l \in Layers
  <2>1. Len(layout) \in Nat /\ L \in Nat
    BY ExpertsAre DEF LayoutInv
  <2> QED
    BY <2>1 DEF Layers
<1>2. stats.freq \in [Experts -> Nat] /\ stats.co \in [Experts \X Experts -> Nat]
  <2> HIDE DEF l
  <2> QED
    BY <1>1, CountsAre
<1>3. IsFiniteSet(A) /\ m \in Nat /\ m < E /\ E \in Nat /\ A \subseteq Experts
  <2>1. IsFiniteSet(A)
    BY ExpertsAre, FS_Subset DEF LayoutInv
  <2> QED
    BY <2>1, ExpertsAre, FS_CardinalityType DEF LayoutInv
<1>4. Ranking = ByFrequency(stats.freq)
  BY DEF Ranking
<1>5. Ranking \in [1 .. E -> Experts] /\ \A i, j \in 1 .. E : Ranking[i] = Ranking[j] => i = j
  <2> HIDE DEF stats
  <2> QED
    BY <1>2, <1>4, OrderIs
<1>6. A = {Ranking[i] : i \in 1 .. m}
  BY DEF LayoutInv
<1> HIDE DEF A, m
<1>7. e = Ranking[m + 1] /\ m + 1 \in 1 .. E /\ \A i \in 1 .. m : i \in 1 .. E /\ i # m + 1
  BY <1>3, <1>4
<1> HIDE DEF e
<1>8. e \in Experts /\ e \notin A
  BY <1>5, <1>6, <1>7
<1>9. Open # {}
  <2>1. n_ch \in Nat \ {0} /\ assign \in [A -> 0 .. n_ch - 1]
    BY DEF LayoutInv, A
  <2>2. cap \in Nat /\ n_ch * cap >= E
    BY <1>3, <2>1, CapIs DEF cap
  <2> DEFINE nc == n_ch * cap
  <2>3. nc \in Int
    BY <2>1, <2>2
  <2>4. m < nc
    <3> HIDE DEF nc
    <3>1. nc >= E
      BY <2>2 DEF nc
    <3> QED
      BY <1>3, <2>3, <3>1
  <2>5. \E d \in 0 .. n_ch - 1 : Cardinality(On(assign, d)) < cap
    BY <1>3, <2>1, <2>2, <2>4, RoomIsLeft DEF m, A
  <2>6. load \in [0 .. n_ch - 1 -> Nat] /\ \A d \in 0 .. n_ch - 1 : load[d] = Cardinality(On(assign, d))
    BY DEF LayoutInv
  <2> QED
    BY <2>5, <2>6 DEF Open
<1>10. ch \in Open
  <2>1. n_ch \in Nat /\ load \in [0 .. n_ch - 1 -> Nat]
    BY DEF LayoutInv
  <2> HIDE DEF stats
  <2> QED
    BY <1>2, <1>3, <1>8, <1>9, <2>1, BestIsOpen DEF A
<1>11. ch \in 0 .. n_ch - 1 /\ load[ch] < cap
  <2> HIDE DEF ch
  <2> QED
    BY <1>10 DEF Open, LayoutInv
<1> QED
  BY <1>7, <1>8, <1>11 DEF e, m, A

(* One more of the layer under way, or its last.                           *)
LEMMA OneMorePlaced ==
  ASSUME LayoutInv, NEW e \in Experts, e \notin DOMAIN assign,
         NEW ch \in 0 .. n_ch - 1, load[ch] < cap,
         NEW p, p = [d \in DOMAIN assign \cup {e} |-> IF d = e THEN ch ELSE assign[d]]
  PROVE  /\ DOMAIN p = DOMAIN assign \cup {e} /\ DOMAIN p \subseteq Experts
         /\ p \in [DOMAIN p -> 0 .. n_ch - 1]
         /\ Cardinality(DOMAIN p) = Cardinality(DOMAIN assign) + 1
         /\ Cardinality(DOMAIN assign) \in Nat
         /\ \A c \in 0 .. n_ch - 1 : /\ Cardinality(On(p, c)) = load[c] + (IF c = ch THEN 1 ELSE 0)
                                     /\ Cardinality(On(p, c)) <= cap
<1> DEFINE A == DOMAIN assign
<1>1. IsFiniteSet(A) /\ A \subseteq Experts /\ Cardinality(A) \in Nat
  BY ExpertsAre, FS_Subset, FS_CardinalityType DEF LayoutInv
<1>2. assign \in [A -> 0 .. n_ch - 1] /\ load \in [0 .. n_ch - 1 -> Nat] /\ cap \in Nat
  <2>1. n_ch \in Nat \ {0} /\ E \in Nat
    BY ExpertsAre DEF LayoutInv
  <2> QED
    BY <2>1, CapIs DEF LayoutInv, cap
<1>3. DOMAIN p = A \cup {e}
  OBVIOUS
<1>4. Cardinality(A \cup {e}) = Cardinality(A) + 1
  BY <1>1, FS_AddElement
<1>5. p \in [A \cup {e} -> 0 .. n_ch - 1]
  BY <1>2
<1>6. ASSUME NEW c \in 0 .. n_ch - 1
      PROVE  /\ Cardinality(On(p, c)) = load[c] + (IF c = ch THEN 1 ELSE 0)
             /\ Cardinality(On(p, c)) <= cap
  <2>1. On(assign, c) \in SUBSET A /\ e \notin On(assign, c)
    BY DEF On
  <2>2. IsFiniteSet(On(assign, c)) /\ Cardinality(On(assign, c)) = load[c] /\ load[c] <= cap /\ load[c] \in Nat
    BY <1>1, <1>2, <2>1, FS_Subset DEF LayoutInv
  <2>3. On(p, c) = IF c = ch THEN On(assign, c) \cup {e} ELSE On(assign, c)
    BY <1>3 DEF On
  <2>4. Cardinality(On(assign, c) \cup {e}) = load[c] + 1
    BY <2>1, <2>2, FS_AddElement
  <2> QED
    BY <1>2, <2>2, <2>3, <2>4
<1> QED
  BY <1>1, <1>3, <1>4, <1>5, <1>6

LEMMA PackOptimized ==
  ASSUME LayoutInv, job = "pack", pack_optimized, sel' = sel, job' = job
  PROVE  LayoutInv'
<1> DEFINE stats == coactivation(build_selection(TOKENS))[Len(layout)]
           m == Cardinality(DOMAIN assign)
           e == ByFrequency(stats.freq)[m + 1]
           ch == BestChannel(stats.co, e)
           p == [d \in DOMAIN assign \cup {e} |-> IF d = e THEN ch ELSE assign[d]]
<1>1. Len(layout) < L /\ n_ch' = n_ch /\ packer = "optimized" /\ packer' = packer
  BY DEF pack_optimized
<1>2. IF Cardinality(DOMAIN p) < E
      THEN assign' = p /\ load' = [load EXCEPT ![ch] = @ + 1] /\ layout' = layout
      ELSE layout' = Append(layout, p) /\ assign' = Nobody /\ load' = NoLoad(n_ch)
  BY Zenon DEF pack_optimized
<1>3. /\ e \in Experts /\ e \notin DOMAIN assign
      /\ ch \in 0 .. n_ch - 1 /\ load[ch] < cap
      /\ e = Ranking[m + 1]
  BY <1>1, NextPlaced
<1> HIDE DEF ch, e
<1>4. /\ DOMAIN p = DOMAIN assign \cup {e} /\ DOMAIN p \subseteq Experts
      /\ p \in [DOMAIN p -> 0 .. n_ch - 1]
      /\ Cardinality(DOMAIN p) = m + 1 /\ m \in Nat
      /\ \A c \in 0 .. n_ch - 1 : /\ Cardinality(On(p, c)) = load[c] + (IF c = ch THEN 1 ELSE 0)
                                  /\ Cardinality(On(p, c)) <= cap
  BY <1>3, OneMorePlaced
<1> HIDE DEF p
<1>5. /\ n_ch \in Nat \ {0} /\ layout \in Seq(Placements) /\ load \in [0 .. n_ch - 1 -> Nat] /\ m < E /\ E \in Nat
      /\ DOMAIN assign = {Ranking[i] : i \in 1 .. m}
      /\ Placements' = Placements /\ cap' = cap
  BY <1>1, ExpertsAre DEF LayoutInv, Placements, cap, m
<1>6. CASE Cardinality(DOMAIN p) < E
  <2>1. assign' = p /\ load' = [load EXCEPT ![ch] = @ + 1] /\ layout' = layout
    BY <1>2, <1>6
  <2>2. Ranking' = Ranking
    BY <2>1 DEF Ranking, coactivation, build_selection
  <2>3. load' \in [0 .. n_ch - 1 -> Nat] /\ \A c \in 0 .. n_ch - 1 : load'[c] = load[c] + (IF c = ch THEN 1 ELSE 0)
    BY <1>3, <1>5, <2>1
  <2>4. \A c \in 0 .. n_ch - 1 : load'[c] = Cardinality(On(assign', c)) /\ load'[c] <= cap
    BY <1>4, <2>1, <2>3
  <2>5. DOMAIN p = {Ranking[i] : i \in 1 .. m + 1}
    <3>1. 1 .. m + 1 = (1 .. m) \cup {m + 1}
      BY <1>4
    <3> HIDE DEF m
    <3> QED
      BY <1>3, <1>4, <1>5, <3>1
  <2> HIDE DEF m
  <2>6. Cardinality(DOMAIN assign') = m + 1 /\ DOMAIN assign' = {Ranking'[i] : i \in 1 .. m + 1}
    BY <1>4, <2>1, <2>2, <2>5
  <2>7. DOMAIN assign' \in SUBSET Experts /\ assign' \in [DOMAIN assign' -> 0 .. n_ch - 1] /\ m + 1 < E
    BY <1>4, <1>6, <2>1
  <2> QED
    BY <1>1, <1>5, <2>1, <2>3, <2>4, <2>6, <2>7 DEF LayoutInv, On
<1>7. CASE ~(Cardinality(DOMAIN p) < E)
  <2>1. layout' = Append(layout, p) /\ assign' = Nobody /\ load' = NoLoad(n_ch)
    BY <1>2, <1>7
  <2>2. DOMAIN p = Experts
    <3>1. Cardinality(DOMAIN p) = E
      BY <1>4, <1>5, <1>7
    <3> QED
      BY <3>1, <1>4, ExpertsAre, FS_Subset
  <2>3. p \in Placements
    BY <1>4, <2>2 DEF Placements
  <2>4. layout' \in Seq(Placements)
    BY <1>5, <2>1, <2>3
  <2>5. /\ DOMAIN Nobody = {} /\ Cardinality({}) = 0 /\ 0 < E
        /\ NoLoad(n_ch) \in [0 .. n_ch - 1 -> Nat]
        /\ \A c \in 0 .. n_ch - 1 : NoLoad(n_ch)[c] = 0 /\ On(Nobody, c) = {}
        /\ (E + n_ch - 1) \div n_ch \in Nat
    BY <1>5, NothingPlaced
  <2>6. Nobody \in [{} -> 0 .. n_ch - 1] /\ cap \in Nat
    BY <2>5 DEF Nobody, cap
  <2>7. \A c \in 0 .. n_ch - 1 : load'[c] = Cardinality(On(assign', c)) /\ load'[c] <= cap
    <3> SUFFICES ASSUME NEW c \in 0 .. n_ch - 1 PROVE load'[c] = Cardinality(On(assign', c)) /\ load'[c] <= cap
      OBVIOUS
    <3>1. load'[c] = 0 /\ On(Nobody, c) = {}
      BY <2>1, <2>5
    <3>2. On(assign', c) = On(Nobody, c)
      BY <2>1
    <3> QED
      BY <3>1, <3>2, <2>5, <2>6
  <2>8. {Ranking'[i] : i \in 1 .. 0} = {}
    OBVIOUS
  <2> QED
    BY <1>1, <1>5, <2>1, <2>4, <2>5, <2>6, <2>7, <2>8 DEF LayoutInv, On
<1> QED
  BY <1>6, <1>7

(* The two naive layouts keep within the cap as well.                      *)
LEMMA RoundRobinIs ==
  ASSUME n_ch \in Nat \ {0}
  PROVE  RoundRobin \in Placements
<1>1. E \in Nat /\ cap \in Nat /\ \A d \in Nat : d < E => d % n_ch \in 0 .. n_ch - 1 /\ d \div n_ch \in 0 .. cap - 1
  BY ExpertsAre, CapIs DEF cap
<1>2. RoundRobin \in [Experts -> 0 .. n_ch - 1] /\ DOMAIN RoundRobin = Experts
  BY <1>1 DEF RoundRobin, Experts
<1>3. ASSUME NEW ch \in 0 .. n_ch - 1 PROVE Cardinality(On(RoundRobin, ch)) <= cap
  <2> DEFINE S == On(RoundRobin, ch)
             T == 0 .. cap - 1
             f == [d \in S |-> d \div n_ch]
  <2>1. S \subseteq Experts /\ \A d \in S : d \in Nat /\ d < E /\ d % n_ch = ch
    BY <1>1, <1>2 DEF On, RoundRobin, Experts
  <2>2. f \in [S -> T]
    BY <1>1, <2>1
  <2>3. \A a, b \in S : f[a] = f[b] => a = b
    <3> SUFFICES ASSUME NEW a \in S, NEW b \in S, f[a] = f[b] PROVE a = b
      OBVIOUS
    <3>1. a \in Nat /\ b \in Nat /\ a % n_ch = ch /\ b % n_ch = ch /\ a \div n_ch = b \div n_ch
      BY <2>1
    <3>2. \A d \in Nat : d = n_ch * (d \div n_ch) + (d % n_ch)
      OBVIOUS
    <3> QED
      BY <3>1, <3>2
  <2>4. IsFiniteSet(T) /\ Cardinality(T) = cap
    <3>1. 0 \in Int /\ cap - 1 \in Int /\ (IF 0 > cap - 1 THEN 0 ELSE cap - 1 - 0 + 1) = cap
      BY <1>1
    <3> QED
      BY <3>1, FS_Interval
  <2> HIDE DEF S, T, f
  <2>5. Cardinality(S) <= cap
    BY <2>2, <2>3, <2>4, AtMostAsMany
  <2> QED
    BY <2>5 DEF S
<1> QED
  BY <1>2, <1>3 DEF Placements

LEMMA ShuffledIs ==
  ASSUME n_ch \in Nat \ {0}, NEW deal \in Shuffles
  PROVE  [e \in Experts |-> RoundRobin[deal[e]]] \in Placements
<1> DEFINE p == [e \in Experts |-> RoundRobin[deal[e]]]
           q == [e \in Experts |-> deal[e]]
<1>1. DOMAIN deal = Experts /\ Range(deal) = Experts
  BY FabricAssumption
<1>2. q \in [Experts -> Experts] /\ \A d \in Experts : \E e \in Experts : q[e] = d
  BY <1>1 DEF Range
<1>3. \A a, b \in Experts : q[a] = q[b] => a = b
  <2> HIDE DEF q
  <2>1. q \in Surjection(Experts, Experts)
    BY <1>2 DEF Surjection
  <2>2. q \in Injection(Experts, Experts)
    BY <2>1, ExpertsAre, FS_Surjection
  <2> QED
    BY <2>2 DEF Injection, IsInjective
<1>4. RoundRobin \in [Experts -> 0 .. n_ch - 1] /\ \A ch \in 0 .. n_ch - 1 : Cardinality(On(RoundRobin, ch)) <= cap
  BY RoundRobinIs DEF Placements
<1>5. p \in [Experts -> 0 .. n_ch - 1]
  BY <1>2, <1>4
<1>6. ASSUME NEW ch \in 0 .. n_ch - 1 PROVE Cardinality(On(p, ch)) <= cap
  <2> DEFINE S == On(p, ch)
             T == On(RoundRobin, ch)
             f == [e \in S |-> q[e]]
  <2>1. f \in [S -> T] /\ \A a, b \in S : f[a] = f[b] => a = b
    BY <1>2, <1>3, <1>4 DEF On
  <2>2. T \in SUBSET Experts
    BY <1>4 DEF On
  <2> HIDE DEF S, T, f
  <2>3. IsFiniteSet(T) /\ Cardinality(T) \in Nat /\ Cardinality(T) <= cap
    BY <1>4, <2>2, ExpertsAre, FS_Subset, FS_CardinalityType DEF T
  <2>4. IsFiniteSet(S) /\ Cardinality(S) <= Cardinality(T)
    BY <2>1, <2>3, AtMostAsMany
  <2>5. Cardinality(S) \in Nat /\ cap \in Int
    BY <2>4, ExpertsAre, FS_CardinalityType DEF cap
  <2>6. Cardinality(S) <= cap
    BY <2>3, <2>4, <2>5
  <2> QED
    BY <2>6 DEF S
<1> QED
  BY <1>5, <1>6 DEF Placements

LEMMA PackWhole ==
  ASSUME LayoutInv, NEW p \in Placements, layout' = Append(layout, p),
         DOMAIN assign = {}, UNCHANGED << n_ch, assign, load >>
  PROVE  LayoutInv'
<1>1. Placements' = Placements /\ cap' = cap
  BY DEF Placements, cap
<1>2. layout' \in Seq(Placements)
  BY DEF LayoutInv
<1>3. Cardinality({}) = 0
  BY FS_EmptySet
<1>4. {Ranking'[i] : i \in 1 .. 0} = {}
  OBVIOUS
<1> QED
  BY <1>1, <1>2, <1>3, <1>4 DEF LayoutInv, On

LEMMA LayoutStarts ==
  ASSUME NEW name, NEW n \in Channels, LayoutStart(name, n)
  PROVE  LayoutInv'
<1>1. n \in Nat \ {0} /\ n_ch' = n /\ layout' = << >> /\ assign' = Nobody /\ load' = NoLoad(n)
  BY ChannelCounts DEF LayoutStart
<1>2. /\ DOMAIN Nobody = {} /\ Cardinality({}) = 0 /\ 0 < E
      /\ NoLoad(n) \in [0 .. n - 1 -> Nat]
      /\ \A ch \in 0 .. n - 1 : NoLoad(n)[ch] = 0 /\ On(Nobody, ch) = {}
      /\ (E + n - 1) \div n \in Nat
  BY <1>1, NothingPlaced
<1>3. cap' \in Nat /\ Nobody \in [{} -> 0 .. n - 1] /\ layout' \in Seq(Placements')
  BY <1>1, <1>2 DEF cap, Nobody
<1>4. {Ranking'[i] : i \in 1 .. 0} = {}
  OBVIOUS
<1>5. ASSUME NEW ch \in 0 .. n - 1 PROVE load'[ch] = Cardinality(On(assign', ch)) /\ load'[ch] <= cap'
  <2>1. load'[ch] = 0 /\ On(Nobody, ch) = {}
    BY <1>1, <1>2
  <2>2. On(assign', ch) = On(Nobody, ch)
    BY <1>1
  <2> QED
    BY <2>1, <2>2, <1>2, <1>3
<1> QED
  BY <1>1, <1>2, <1>3, <1>4, <1>5 DEF LayoutInv, On

LEMMA LayoutInit == MCInit => LayoutInv
<1> SUFFICES ASSUME MCInit PROVE LayoutInv
  OBVIOUS
<1>1. n_ch = 1 /\ layout = << >> /\ assign = Nobody /\ load = NoLoad(1)
  BY DEF MCInit, LayoutIdle
<1>2. /\ DOMAIN Nobody = {} /\ Cardinality({}) = 0 /\ 0 < E
      /\ NoLoad(1) \in [0 .. 1 - 1 -> Nat]
      /\ \A ch \in 0 .. 1 - 1 : NoLoad(1)[ch] = 0 /\ On(Nobody, ch) = {}
      /\ (E + 1 - 1) \div 1 \in Nat
  <2>1. 1 \in Nat \ {0}
    OBVIOUS
  <2> QED
    BY <2>1, NothingPlaced
<1>3. cap \in Nat /\ Nobody \in [{} -> 0 .. n_ch - 1] /\ layout \in Seq(Placements)
  BY <1>1, <1>2 DEF cap, Nobody
<1>4. {Ranking[i] : i \in 1 .. 0} = {}
  OBVIOUS
<1>5. ASSUME NEW ch \in 0 .. n_ch - 1 PROVE load[ch] = Cardinality(On(assign, ch)) /\ load[ch] <= cap
  <2>1. load[ch] = 0 /\ On(Nobody, ch) = {}
    BY <1>1, <1>2
  <2>2. On(assign, ch) = On(Nobody, ch)
    BY <1>1
  <2> QED
    BY <2>1, <2>2, <1>2, <1>3
<1> QED
  BY <1>1, <1>2, <1>3, <1>4, <1>5 DEF LayoutInv

LEMMA LayoutStep == LayoutInv /\ [MCNext]_mcVars => LayoutInv'
<1> SUFFICES ASSUME LayoutInv, [MCNext]_mcVars PROVE LayoutInv'
  OBVIOUS
<1>1. ASSUME UNCHANGED layoutVars, DOMAIN assign = {} PROVE LayoutInv'
  <2>1. UNCHANGED << n_ch, layout, assign, load, packer >> /\ Placements' = Placements /\ cap' = cap
    BY <1>1 DEF layoutVars, Placements, cap
  <2>2. {Ranking'[i] : i \in 1 .. 0} = {} /\ Cardinality({}) = 0
    BY FS_EmptySet
  <2> QED
    BY <1>1, <2>1, <2>2 DEF LayoutInv, On
<1>2. ASSUME UNCHANGED << layoutVars, sel, job >> PROVE LayoutInv'
  <2>1. UNCHANGED << n_ch, layout, assign, load, packer, sel, job >>
    BY <1>2 DEF layoutVars
  <2>2. Ranking' = Ranking /\ Placements' = Placements /\ cap' = cap
    BY <2>1 DEF Ranking, Placements, cap, coactivation, build_selection
  <2> QED
    BY <2>1, <2>2 DEF LayoutInv, On
<1>3. job # "pack" => DOMAIN assign = {}
  BY DEF LayoutInv
<1>4. CASE Draw
  BY <1>1, <1>3, <1>4 DEF Draw
<1>5. CASE Choose
  <2>1. CASE UNCHANGED layoutVars
    BY <1>1, <1>3, <1>5, <2>1 DEF Choose
  <2>2. CASE \E n \in Channels, name \in {"optimized", "roundrobin", "random"} : LayoutStart(name, n)
    BY <2>2, LayoutStarts
  <2> QED
    BY <1>5, <2>1, <2>2 DEF Choose
<1>6. CASE Replay \/ Measure
  BY <1>2, <1>6 DEF Replay, Measure
<1>7. CASE Pack
  <2>1. job = "pack" /\ sel' = sel /\ job' = job
    BY <1>7 DEF Pack
  <2>2. CASE pack_optimized
    BY <2>1, <2>2, PackOptimized
  <2>3. ASSUME NEW name, name # "optimized", NEW p \in Placements, PackLayer(name, p) PROVE LayoutInv'
    <3>1. layout' = Append(layout, p) /\ UNCHANGED << n_ch, assign, load >> /\ packer # "optimized"
      BY <2>3 DEF PackLayer
    <3> QED
      BY <3>1, PackWhole DEF LayoutInv
  <2>4. n_ch \in Nat \ {0}
    BY DEF LayoutInv
  <2>5. CASE pack_roundrobin
    BY <2>3, <2>4, <2>5, RoundRobinIs DEF pack_roundrobin
  <2>6. CASE pack_random
    <3>1. PICK deal \in Shuffles : PackLayer("random", [e \in Experts |-> RoundRobin[deal[e]]])
      BY <2>6 DEF pack_random
    <3>2. [e \in Experts |-> RoundRobin[deal[e]]] \in Placements
      BY <2>4, ShuffledIs
    <3> QED
      BY <2>3, <3>1, <3>2
  <2> QED
    BY <1>7, <2>2, <2>5, <2>6 DEF Pack
<1>8. CASE UNCHANGED << job, toolVars >>
  BY <1>2, <1>8 DEF toolVars
<1> QED
  BY <1>4, <1>5, <1>6, <1>7, <1>8 DEF MCNext, mcVars

(* Every layout flash_layout makes, the packed one and the two naive ones   *)
(* (tools/flash_layout.py), gives every expert a channel of the fabric and  *)
(* no channel more than its cap, for every number of experts and channels   *)
(* and whatever was fetched together: the packer's default channel 0, taken *)
(* without a look at its load, is never what it takes.                      *)
THEOREM PackingIsBalanced == MCSpec => []LayoutIsBalanced
<1> QED
  BY LayoutInit, LayoutStep, LayoutIsSound, PTL DEF MCSpec

-------------------------------------------------------------------------------
(* The operator tier's figures.                                            *)

LEMMA MaxIs ==
  ASSUME NEW S, IsFiniteSet(S), S # {}, S \subseteq Nat
  PROVE  Max(S) \in S /\ \A k \in S : k <= Max(S)
<1> DEFINE Cs == {c \in Nat : \A T \in SUBSET S : T # {} /\ Cardinality(T) = c => \E t \in T : \A k \in T : t >= k}
<1>1. ASSUME NEW c \in Nat, \A d \in Nat : d < c => d \in Cs PROVE c \in Cs
  <2> SUFFICES ASSUME NEW T \in SUBSET S, T # {}, Cardinality(T) = c PROVE \E t \in T : \A k \in T : t >= k
    OBVIOUS
  <2>1. PICK i : i \in T
    OBVIOUS
  <2> DEFINE U == T \ {i}
  <2>2. IsFiniteSet(T)
    BY FS_Subset
  <2>3. Cardinality(U) = c - 1 /\ c - 1 \in Nat /\ c - 1 < c
    <3>1. Cardinality(T \ {i}) = Cardinality(T) - 1 /\ Cardinality(T \ {i}) \in Nat
      BY <2>1, <2>2, Smaller
    <3> QED
      BY <3>1
  <2>4. CASE U = {}
    <3>1. T = {i} /\ i \in Nat
      BY <2>1, <2>4
    <3> QED
      BY <3>1
  <2>5. CASE U # {}
    <3>1. PICK t \in U : \A k \in U : t >= k
      <4> HIDE DEF U
      <4>1. c - 1 \in Cs
        BY <1>1, <2>3
      <4>2. U \in SUBSET S
        BY DEF U
      <4> QED
        BY <2>3, <2>5, <4>1, <4>2
    <3>2. t \in Nat /\ i \in Nat /\ t \in T /\ \A k \in T : k \in Nat /\ (k = i \/ k \in U)
      BY <2>1
    <3> HIDE DEF U
    <3> QED
      BY <2>1, <3>1, <3>2
  <2> QED
    BY <2>4, <2>5
<1>2. Cs = Nat
  <2>1. Cs \in SUBSET Nat
    OBVIOUS
  <2> HIDE DEF Cs
  <2> QED
    BY <1>1, <2>1, NatSets
<1>3. Cardinality(S) \in Nat /\ S \in SUBSET S
  BY FS_CardinalityType
<1>4. \E t \in S : \A k \in S : t >= k
  BY <1>2, <1>3
<1>5. Max(S) \in S /\ \A k \in S : Max(S) >= k
  BY <1>4 DEF Max
<1> QED
  BY <1>5

(* How floats compare: but for NaN they are in one order; a difference is  *)
(* a natural, infinite or undefined.                                       *)
LEMMA AboveIsOrder ==
  ASSUME NEW u \in Float \ {NaN}, NEW v \in Float \ {NaN}
  PROVE  /\ Above(u, v) \/ Above(v, u) \/ u = v
         /\ ~(Above(u, v) /\ Above(v, u)) /\ ~Above(u, u)
         /\ \A w \in Float \ {NaN} : Above(u, v) /\ Above(v, w) => Above(u, w)
  BY FloatAssumption DEF Above, Float

LEMMA DiffIs ==
  ASSUME NEW u \in Float, NEW v \in Float
  PROVE  /\ AbsDiff(u, v) \in Nat \cup {NaN, Inf}
         /\ AbsDiff(u, v) # NaN => (AbsDiff(u, v) = 0 <=> Equal(u, v))
         /\ Equal(u, v) => AbsDiff(u, v) # Inf
  BY FloatAssumption DEF AbsDiff, Equal, Float

LEMMA LargestIs ==
  ASSUME NEW S, IsFiniteSet(S), S # {}, S \subseteq Nat
  PROVE  Largest(S) \in S /\ \A k \in S : k <= Largest(S)
<1>1. \A v, w \in S : ~Above(w, v) <=> w <= v
  BY FloatAssumption DEF Above
<1>2. Max(S) \in S /\ \A w \in S : ~Above(w, Max(S))
  BY <1>1, MaxIs
<1>3. Largest(S) \in S /\ \A w \in S : ~Above(w, Largest(S))
  BY <1>2 DEF Largest
<1> QED
  BY <1>1, <1>3

LEMMA LargestIsInf ==
  ASSUME NEW S, Inf \in S, NaN \notin S
  PROVE  Largest(S) = Inf
<1>1. \A w \in S : ~Above(w, Inf)
  BY FloatAssumption DEF Above
<1>2. Largest(S) \in S /\ ~Above(Inf, Largest(S))
  BY <1>1 DEF Largest
<1> QED
  BY <1>2, FloatAssumption DEF Above

(* The figures of error_stats, by what the differences are.                *)
Differences(g, c) == [i \in DOMAIN g |-> AbsDiff(g[i], c[i])]

StatsOf(g, c, n) ==
  LET stats == error_stats(g, c)
      D == 1 .. n
      d == Differences(g, c)
  IN  /\ stats.n = n
      /\ stats.exact = Cardinality({i \in D : Equal(g[i], c[i])})
      /\ d \in [D -> Nat \cup {NaN, Inf}]
      /\ stats.max_abs = Largest({0} \cup {d[i] : i \in {l \in D : d[l] # NaN}})
      /\ stats.sum_sq = IF \E i \in D : d[i] = NaN THEN NaN
                        ELSE IF \E i \in D : d[i] = Inf THEN Inf
                        ELSE SumFunction([i \in D |-> d[i] * d[i]])
      /\ (\A i \in D : d[i] = 0) => stats.max_rel[1] = 0

LEMMA StatsAre ==
  ASSUME NEW n \in Nat \ {0}, NEW g \in [1 .. n -> Float], NEW c \in [1 .. n -> Float]
  PROVE  StatsOf(g, c, n)
<1> DEFINE stats == error_stats(g, c)
           D == 1 .. n
           d == Differences(g, c)
           dd(i) == AbsDiff(g[i], c[i])
           mag(i) == AbsDiff(g[i], 0)
           undefined == {i \in DOMAIN g : dd(i) = NaN}
           infinite == {i \in DOMAIN g : dd(i) = Inf}
           rated == {i \in (DOMAIN g) \ undefined : g[i] \in Int /\ g[i] # 0}
           exceeds(l, i) == dd(i) # Inf /\ (dd(l) = Inf \/ dd(l) * mag(i) > dd(i) * mag(l))
           w == CHOOSE i \in rated : \A l \in rated : ~exceeds(l, i)
<1>1. DOMAIN g = D /\ Len(g) = n
  OBVIOUS
<1>2. /\ stats.n = Len(g)
      /\ stats.exact = Cardinality({i \in DOMAIN g : Equal(g[i], c[i])})
      /\ stats.max_abs = Largest({0} \cup {dd(i) : i \in (DOMAIN g) \ undefined})
      /\ stats.sum_sq = IF undefined # {} THEN NaN ELSE IF infinite # {} THEN Inf
                        ELSE SumFunction([i \in DOMAIN g |-> dd(i) * dd(i)])
  BY DEF error_stats
<1>3. stats.max_rel = IF rated = {} THEN << 0, 1 >> ELSE << dd(w), mag(w) >>
  BY DEF error_stats
<1>4. d = [i \in D |-> dd(i)] /\ \A i \in D : dd(i) \in Nat \cup {NaN, Inf}
  BY <1>1, DiffIs DEF Differences
<1>5. d \in [D -> Nat \cup {NaN, Inf}] /\ \A i \in D : d[i] = dd(i)
  BY <1>4
<1>6. {dd(i) : i \in (DOMAIN g) \ undefined} = {d[i] : i \in {l \in D : d[l] # NaN}}
  BY <1>1, <1>5
<1>7. /\ (undefined # {} <=> \E i \in D : d[i] = NaN)
      /\ (infinite # {} <=> \E i \in D : d[i] = Inf)
      /\ [i \in DOMAIN g |-> dd(i) * dd(i)] = [i \in D |-> d[i] * d[i]]
  BY <1>1, <1>5
<1>8. ASSUME \A i \in D : d[i] = 0 PROVE stats.max_rel[1] = 0
  <2>1. CASE rated = {}
    BY <1>3, <2>1
  <2>2. CASE rated # {}
    <3>1. PICK i : i \in rated
      BY <2>2
    <3>2. \A l \in rated : dd(l) = 0 /\ mag(l) \in Int
      <4>1. \A l \in rated : g[l] \in Int /\ l \in D
        BY <1>1
      <4>2. \A u \in Int : AbsDiff(u, 0) \in Int
        BY DEF AbsDiff
      <4> HIDE DEF rated
      <4> QED
        BY <1>5, <1>8, <4>1, <4>2
    <3>3. \A l \in rated : ~exceeds(l, i)
      <4> SUFFICES ASSUME NEW l \in rated PROVE ~exceeds(l, i)
        OBVIOUS
      <4>1. dd(l) = 0 /\ dd(i) = 0 /\ mag(i) \in Int /\ mag(l) \in Int /\ 0 # Inf
        BY <3>1, <3>2, FloatAssumption
      <4> HIDE DEF dd, mag
      <4> QED
        BY <4>1
    <3> HIDE DEF dd, mag, rated
    <3>4. w \in rated
      <4> HIDE DEF exceeds
      <4> QED
        BY <3>1, <3>3
    <3> HIDE DEF w
    <3> QED
      BY <1>3, <2>2, <3>2, <3>4
  <2> QED
    BY <2>1, <2>2
<1> HIDE DEF stats, d, dd, w, undefined, infinite
<1> QED
  BY <1>1, <1>2, <1>5, <1>6, <1>7, <1>8 DEF stats, d, StatsOf

(* No element differs exactly when none is far off and no square is left;  *)
(* the largest square is one of the sum, which has one for each that       *)
(* differs.                                                                *)
ErrorFigures(stats) ==
  /\ stats.exact = stats.n <=> stats.max_abs = 0
  /\ stats.max_abs = 0 <=> stats.sum_sq = 0
  /\ stats.max_abs = Inf <=> stats.sum_sq = Inf
  /\ stats.max_abs # Inf =>
       /\ stats.max_abs * stats.max_abs <= stats.sum_sq
       /\ stats.sum_sq <= (stats.n - stats.exact) * stats.max_abs * stats.max_abs

LEMMA FiniteErrors ==
  ASSUME NEW n \in Nat \ {0}, NEW g \in [1 .. n -> Float], NEW c \in [1 .. n -> Float],
         Differences(g, c) \in [1 .. n -> Nat]
  PROVE  LET stats == error_stats(g, c)
         IN  /\ stats.sum_sq # NaN
             /\ ErrorFigures(stats)
             /\ stats.max_abs = 0 => stats.max_rel[1] = 0 /\ \A i \in 1 .. n : g[i] = c[i]
<1> DEFINE stats == error_stats(g, c)
           D == 1 .. n
           d == Differences(g, c)
           sq == [i \in D |-> d[i] * d[i]]
           same == {i \in D : Equal(g[i], c[i])}
           All == \A i \in D : Equal(g[i], c[i])
           M == stats.max_abs
           Q == stats.sum_sq
           X == {0} \cup {d[i] : i \in D}
<1>0. IsFiniteSet(D) /\ Cardinality(D) = n
  BY FS_Interval
<1>2. \A i \in D : (d[i] = 0 <=> Equal(g[i], c[i])) /\ sq[i] = d[i] * d[i]
  <2> SUFFICES ASSUME NEW i \in D PROVE d[i] = 0 <=> Equal(g[i], c[i])
    OBVIOUS
  <2>1. d[i] = AbsDiff(g[i], c[i]) /\ d[i] \in Nat
    BY DEF Differences
  <2> HIDE DEF d
  <2> QED
    BY <2>1, DiffIs, FloatAssumption
<1>1. /\ stats.n = n
      /\ stats.exact = Cardinality(same)
      /\ M = Largest(X)
      /\ Q = Cardinality(Cells(sq, D))
      /\ sq \in [D -> Nat] /\ d \in [D -> Nat]
      /\ All => stats.max_rel[1] = 0
  <2>1. /\ stats.n = n
        /\ stats.exact = Cardinality(same)
        /\ M = Largest({0} \cup {d[i] : i \in {l \in D : d[l] # NaN}})
        /\ Q = IF \E i \in D : d[i] = NaN THEN NaN
               ELSE IF \E i \in D : d[i] = Inf THEN Inf
               ELSE SumFunction(sq)
        /\ (\A i \in D : d[i] = 0) => stats.max_rel[1] = 0
    <3>1. StatsOf(g, c, n)
      BY StatsAre
    <3> QED
      BY <3>1 DEF StatsOf
  <2>2. d \in [D -> Nat]
    OBVIOUS
  <2>3. \A i \in D : d[i] # NaN /\ d[i] # Inf
    BY <2>2, FloatAssumption
  <2>4. sq \in [D -> Nat]
    <3> HIDE DEF d
    <3> QED
      BY <2>2
  <2> HIDE DEF stats, d, sq, D, same, M, Q
  <2>5. {i \in D : d[i] # NaN} = D
    BY <2>3
  <2>6. Q = Cardinality(Cells(sq, D))
    BY <1>0, <2>1, <2>3, <2>4, TotalIs
  <2>7. M = Largest(X)
    BY <2>1, <2>5
  <2> HIDE DEF X
  <2>8. All => stats.max_rel[1] = 0
    BY <1>2, <2>1
  <2> HIDE DEF All
  <2> QED
    BY <2>1, <2>2, <2>4, <2>6, <2>7, <2>8
<1>3. IsFiniteSet(D) /\ Cardinality(D) = n
  BY <1>0
<1> HIDE DEF stats, d, sq, D
<1>4. M \in X /\ M \in Nat /\ (\A i \in D : d[i] <= M)
  <2>1. X \subseteq Nat /\ X # {}
    BY <1>1
  <2>2. IsFiniteSet(X)
    <3> DEFINE Y == {d[i] : i \in D}
    <3>1. d \in [D -> Y] /\ \A t \in Y : \E i \in D : d[i] = t
      BY <1>1
    <3> HIDE DEF Y
    <3>2. IsFiniteSet(Y)
      BY <1>3, <3>1, ImageIsFinite
    <3>3. X = Y \cup {0}
      BY DEF Y
    <3> HIDE DEF X
    <3> QED
      BY <3>2, <3>3, FS_AddElement
  <2>3. \A i \in D : d[i] \in X
    OBVIOUS
  <2> HIDE DEF X, M
  <2> QED
    BY <1>1, <2>1, <2>2, <2>3, LargestIs
<1>5. M = 0 \/ \E i \in D : d[i] = M
  BY <1>4
<1>6. IsFiniteSet(Cells(sq, D)) /\ Q \in Nat
  BY <1>1, <1>3, CellsAreFinite
<1> HIDE DEF M, Q, X
<1>7. All <=> M = 0
  BY <1>1, <1>2, <1>4, <1>5
<1>8. stats.exact = stats.n <=> All
  <2>1. same \in SUBSET D /\ (same = D <=> All)
    OBVIOUS
  <2> HIDE DEF same, All
  <2>2. Cardinality(same) = Cardinality(D) <=> same = D
    BY <1>3, <2>1, FS_Subset
  <2> QED
    BY <1>1, <1>3, <2>1, <2>2
<1>9. M * M <= Q
  <2>1. CASE M = 0
    BY <1>6, <2>1
  <2>2. CASE M # 0
    <3>1. PICK i \in D : d[i] = M
      BY <1>5, <2>2
    <3>2. sq[i] = M * M /\ sq[i] \in Nat
      BY <1>1, <1>2, <3>1
    <3>3. Block(sq, i) \in SUBSET Cells(sq, D)
      BY DEF Cells
    <3>4. Cardinality(Block(sq, i)) = sq[i]
      BY <3>2, BlockSize
    <3>5. Cardinality(Block(sq, i)) <= Cardinality(Cells(sq, D))
      BY <1>6, <3>3, FS_Subset
    <3> QED
      BY <1>1, <3>2, <3>4, <3>5
  <2> QED
    BY <2>1, <2>2
<1>10. /\ Q <= (stats.n - stats.exact) * M * M
       /\ M = 0 => Q = 0
  <2> DEFINE R == D \ same
             S == R \X (1 .. M * M)
  <2>1. IsFiniteSet(R) /\ Cardinality(R) = n - Cardinality(same)
    <3>1. same \in SUBSET D /\ D \cap same = same
      OBVIOUS
    <3> HIDE DEF same
    <3> QED
      BY <1>3, <3>1, FS_Difference
  <2>2. IsFiniteSet(1 .. M * M) /\ Cardinality(1 .. M * M) = M * M
    <3>1. M * M \in Nat
      BY <1>4
    <3> QED
      BY <3>1, FS_Interval
  <2>3. IsFiniteSet(S) /\ Cardinality(S) = Cardinality(R) * Cardinality(1 .. M * M)
    <3> HIDE DEF R
    <3> QED
      BY <2>1, <2>2, FS_Product
  <2>4. Cells(sq, D) \subseteq S
    <3> SUFFICES ASSUME NEW i \in D, NEW k \in Block(sq, i) PROVE k \in S
      BY DEF Cells
    <3>1. k = << i, k[2] >> /\ k[2] \in 1 .. sq[i]
      BY DEF Block
    <3>2. sq[i] = d[i] * d[i] /\ d[i] \in Nat /\ d[i] <= M
      BY <1>1, <1>2, <1>4
    <3>3. d[i] * d[i] <= M * M
      <4> DEFINE a == d[i]
      <4>1. a \in Nat /\ M \in Nat /\ a <= M
        BY <1>4, <3>2
      <4> HIDE DEF a
      <4>2. a * a <= a * M /\ a * M <= M * M
        BY <4>1
      <4>3. a * a \in Nat /\ a * M \in Nat /\ M * M \in Nat
        BY <4>1
      <4>4. a * a <= M * M
        BY <4>2, <4>3
      <4> QED
        BY <4>4 DEF a
    <3>4. d[i] # 0
      <4> SUFFICES ASSUME d[i] = 0 PROVE FALSE
        OBVIOUS
      <4> QED
        BY <3>1, <3>2
    <3>5. i \notin same
      BY <1>2, <3>4
    <3>6. k[2] \in 1 .. M * M
      <4>1. d[i] * d[i] \in Nat /\ M * M \in Nat
        BY <1>4, <3>2
      <4> QED
        BY <3>1, <3>2, <3>3, <4>1
    <3> QED
      BY <3>1, <3>5, <3>6
  <2>5. Q <= Cardinality(S)
    <3> HIDE DEF S
    <3> QED
      BY <1>1, <2>3, <2>4, FS_Subset
  <2> DEFINE k == Cardinality(R)
  <2>6. k \in Nat /\ stats.n - stats.exact = k
    BY <1>1, <2>1, FS_CardinalityType
  <2>7. Cardinality(S) = k * (M * M)
    BY <2>2, <2>3
  <2> HIDE DEF k, S
  <2>8. k * (M * M) = k * M * M
    BY <1>4, <2>6
  <2>9. M = 0 => k * (M * M) = 0
    BY <2>6
  <2> QED
    BY <1>6, <2>5, <2>6, <2>7, <2>8, <2>9
<1>11. M = 0 <=> Q = 0
  <2>1. Q = 0 => M = 0
    <3> SUFFICES ASSUME M # 0 PROVE Q # 0
      OBVIOUS
    <3>1. M * M >= 1
      BY <1>4
    <3> QED
      BY <1>4, <1>6, <1>9, <3>1
  <2> QED
    BY <1>10, <2>1
<1>12. Q # NaN /\ Q # Inf /\ M # Inf /\ M # NaN
  BY <1>4, <1>6, FloatAssumption
<1>13. All => \A i \in D : g[i] = c[i]
  BY DEF Equal
<1> QED
  BY <1>1, <1>7, <1>8, <1>9, <1>10, <1>11, <1>12, <1>13 DEF M, Q, stats, D, ErrorFigures

LEMMA ErrorsAgree ==
  ASSUME NEW n \in Nat \ {0}, NEW g \in [1 .. n -> Float], NEW c \in [1 .. n -> Float]
  PROVE  LET stats == error_stats(g, c)
         IN  /\ stats.sum_sq = NaN <=> \E i \in 1 .. n : AbsDiff(g[i], c[i]) = NaN
             /\ stats.sum_sq # NaN => ErrorFigures(stats)
             /\ stats.sum_sq # NaN /\ stats.max_abs = 0
                  => stats.max_rel[1] = 0 /\ \A i \in 1 .. n : g[i] = c[i]
<1> DEFINE stats == error_stats(g, c)
           D == 1 .. n
           d == Differences(g, c)
           same == {i \in D : Equal(g[i], c[i])}
<1>1. \A i \in D : d[i] = AbsDiff(g[i], c[i])
  BY DEF Differences
<1>2. /\ stats.n = n /\ stats.exact = Cardinality(same)
      /\ d \in [D -> Nat \cup {NaN, Inf}]
      /\ stats.max_abs = Largest({0} \cup {d[i] : i \in {l \in D : d[l] # NaN}})
      /\ stats.sum_sq = IF \E i \in D : d[i] = NaN THEN NaN
                        ELSE IF \E i \in D : d[i] = Inf THEN Inf
                        ELSE SumFunction([i \in D |-> d[i] * d[i]])
  <2>1. StatsOf(g, c, n)
    BY StatsAre
  <2> QED
    BY <2>1 DEF StatsOf
<1>3. CASE \E i \in D : d[i] = NaN
  <2> HIDE DEF stats, d, D
  <2>1. stats.sum_sq = NaN
    BY <1>2, <1>3
  <2> QED
    BY <1>1, <1>3, <2>1 DEF stats, D
<1>4. CASE (\A i \in D : d[i] # NaN) /\ \E i \in D : d[i] = Inf
  <2>1. PICK i \in D : d[i] = Inf
    BY <1>4
  <2>2. stats.sum_sq = Inf
    <3> HIDE DEF stats, d, D
    <3> QED
      BY <1>2, <1>4
  <2>3. stats.max_abs = Inf
    <3> DEFINE S == {0} \cup {d[l] : l \in {m \in D : d[m] # NaN}}
    <3> HIDE DEF stats, d, D
    <3>1. Inf \in S /\ NaN \notin S
      BY <1>4, <2>1, FloatAssumption
    <3> HIDE DEF S
    <3>2. Largest(S) = Inf
      BY <3>1, LargestIsInf
    <3> QED
      BY <1>2, <3>2 DEF S
  <2>4. stats.exact # stats.n
    <3>1. IsFiniteSet(D) /\ Cardinality(D) = n
      BY FS_Interval
    <3>2. ~Equal(g[i], c[i])
      BY <1>1, <2>1, DiffIs
    <3>3. same \in SUBSET D /\ same # D
      BY <3>2
    <3> HIDE DEF same, D
    <3>4. Cardinality(same) # Cardinality(D)
      BY <3>1, <3>3, FS_Subset
    <3> QED
      BY <1>2, <3>1, <3>4
  <2>5. Inf # NaN /\ Inf # 0 /\ \A l \in D : AbsDiff(g[l], c[l]) # NaN
    BY <1>1, <1>4, FloatAssumption
  <2> HIDE DEF stats, d, D
  <2> QED
    BY <2>2, <2>3, <2>4, <2>5 DEF ErrorFigures, stats, D
<1>5. CASE \A i \in D : d[i] # NaN /\ d[i] # Inf
  <2>1. d \in [D -> Nat]
    <3> HIDE DEF d, D
    <3> QED
      BY <1>2, <1>5
  <2>2. /\ stats.sum_sq # NaN /\ ErrorFigures(stats)
        /\ stats.max_abs = 0 => stats.max_rel[1] = 0 /\ \A i \in 1 .. n : g[i] = c[i]
    BY <2>1, FiniteErrors
  <2>3. \A l \in D : AbsDiff(g[l], c[l]) # NaN
    BY <1>1, <1>5
  <2> HIDE DEF stats, d
  <2> QED
    BY <2>2, <2>3 DEF stats
<1> QED
  BY <1>3, <1>4, <1>5

(* The first of the largest, which argmax finds going along the row and    *)
(* topk_idx by counting what comes before.                                 *)
Ordinary == Float \ {NaN}
FirstLargest(row, n, i) == i \in 1 .. n /\ \A l \in 1 .. n : Above(row[i], row[l]) \/ (row[l] = row[i] /\ i <= l)

LEMMA FirstIsUnique ==
  ASSUME NEW n \in Nat \ {0}, NEW row \in [1 .. n -> Ordinary], NEW i, NEW l,
         FirstLargest(row, n, i), FirstLargest(row, n, l)
  PROVE  i = l
<1>1. i \in 1 .. n /\ l \in 1 .. n /\ row[i] \in Ordinary /\ row[l] \in Ordinary
  BY DEF FirstLargest
<1>2. Above(row[i], row[l]) \/ (row[l] = row[i] /\ i <= l)
  BY <1>1 DEF FirstLargest
<1>3. Above(row[l], row[i]) \/ (row[i] = row[l] /\ l <= i)
  BY <1>1 DEF FirstLargest
<1>4. ~(Above(row[i], row[l]) /\ Above(row[l], row[i])) /\ ~Above(row[i], row[i]) /\ ~Above(row[l], row[l])
  BY <1>1, AboveIsOrder DEF Ordinary
<1> QED
  BY <1>1, <1>2, <1>3, <1>4

LEMMA FirstAlong ==
  ASSUME NEW n \in Nat \ {0}, NEW row \in [1 .. n -> Ordinary], NEW k \in 2 .. n,
         NEW i, FirstLargest(row, k - 1, i)
  PROVE  FirstLargest(row, k, IF Above(row[k], row[i]) THEN k ELSE i)
<1>1. i \in 1 .. k - 1 /\ k \in 1 .. n /\ i \in 1 .. n /\ row[i] \in Ordinary /\ row[k] \in Ordinary
  BY DEF FirstLargest
<1>2. ASSUME NEW l \in 1 .. k
      PROVE  IF Above(row[k], row[i]) THEN Above(row[k], row[l]) \/ (row[l] = row[k] /\ k <= l)
             ELSE Above(row[i], row[l]) \/ (row[l] = row[i] /\ i <= l)
  <2>1. row[l] \in Ordinary
    OBVIOUS
  <2>2. CASE l = k
    <3>1. Above(row[k], row[i]) \/ Above(row[i], row[k]) \/ row[k] = row[i]
      BY <1>1, AboveIsOrder DEF Ordinary
    <3> QED
      BY <1>1, <2>2, <3>1
  <2>3. CASE l # k
    <3>1. Above(row[i], row[l]) \/ (row[l] = row[i] /\ i <= l)
      BY <2>3 DEF FirstLargest
    <3>2. Above(row[k], row[i]) /\ Above(row[i], row[l]) => Above(row[k], row[l])
      BY <1>1, <2>1, AboveIsOrder DEF Ordinary
    <3> QED
      BY <1>1, <2>1, <3>1, <3>2
  <2> QED
    BY <2>2, <2>3
<1> QED
  BY <1>1, <1>2 DEF FirstLargest

LEMMA ArgmaxIs ==
  ASSUME NEW n \in Nat \ {0}, NEW row \in [1 .. n -> Ordinary]
  PROVE  FirstLargest(row, n, argmax(row))
<1> DEFINE Body(f) == [i \in 1 .. n |-> IF i = 1 THEN 1 ELSE IF Above(row[i], row[f[i - 1]]) THEN i ELSE f[i - 1]]
           best == CHOOSE f : f = Body(f)
           F == [k \in 1 .. n |-> CHOOSE i : FirstLargest(row, k, i)]
           As == {k \in Nat : k \in 1 .. n => \E i : FirstLargest(row, k, i)}
           Bs == {k \in Nat : k \in 1 .. n => FirstLargest(row, k, best[k])}
<1>1. argmax(row) = best[n]
  <2>1. Len(row) = n
    OBVIOUS
  <2> QED
    BY <2>1 DEF argmax
<1>2. FirstLargest(row, 1, 1)
  BY DEF FirstLargest
<1>3. As = Nat
  <2>1. ASSUME NEW k \in Nat, \A m \in Nat : m < k => m \in As PROVE k \in As
    <3> SUFFICES ASSUME k \in 1 .. n, k # 1 PROVE \E i : FirstLargest(row, k, i)
      BY <1>2
    <3>1. k - 1 \in Nat /\ k - 1 < k /\ k - 1 \in 1 .. n /\ k \in 2 .. n
      OBVIOUS
    <3>2. PICK i : FirstLargest(row, k - 1, i)
      BY <2>1, <3>1
    <3> QED
      BY <3>1, <3>2, FirstAlong
  <2>2. As \in SUBSET Nat
    OBVIOUS
  <2> HIDE DEF As
  <2> QED
    BY <2>1, <2>2, NatSets
<1>4. ASSUME NEW k \in 1 .. n PROVE FirstLargest(row, k, F[k])
  <2>1. k \in As
    <3> HIDE DEF As
    <3> QED
      BY <1>3
  <2>2. \E i : FirstLargest(row, k, i)
    BY <2>1
  <2> QED
    BY <2>2
<1>5. F = Body(F)
  <2>1. ASSUME NEW k \in 1 .. n PROVE F[k] = Body(F)[k]
    <3>1. CASE k = 1
      <4>1. FirstLargest(row, 1, F[1])
        BY <1>4
      <4>2. 1 \in Nat \ {0} /\ [i \in 1 .. 1 |-> row[i]] \in [1 .. 1 -> Ordinary]
        OBVIOUS
      <4>3. F[1] = 1
        <5> HIDE DEF F
        <5> QED
          BY <4>1 DEF FirstLargest
      <4> HIDE DEF F
      <4> QED
        BY <3>1, <4>3
    <3>2. CASE k # 1
      <4> DEFINE i == IF Above(row[k], row[F[k - 1]]) THEN k ELSE F[k - 1]
                 r == [l \in 1 .. k |-> row[l]]
      <4>1. k \in 2 .. n /\ k - 1 \in 1 .. n /\ k \in Nat \ {0} /\ r \in [1 .. k -> Ordinary]
        BY <3>2
      <4> HIDE DEF F
      <4>2. FirstLargest(row, k, i)
        BY <1>4, <4>1, FirstAlong
      <4>3. FirstLargest(r, k, i) /\ FirstLargest(r, k, F[k])
        BY <1>4, <4>2 DEF FirstLargest
      <4>4. i = F[k]
        <5> HIDE DEF i, r
        <5> QED
          BY <4>1, <4>3, FirstIsUnique
      <4> QED
        BY <3>2, <4>4
    <3> QED
      BY <3>1, <3>2
  <2> HIDE DEF Body
  <2>2. F = [k \in 1 .. n |-> F[k]] /\ Body(F) = [k \in 1 .. n |-> Body(F)[k]]
    BY DEF Body
  <2> HIDE DEF F
  <2>3. [k \in 1 .. n |-> F[k]] = [k \in 1 .. n |-> Body(F)[k]]
    BY <2>1
  <2> QED
    BY <2>2, <2>3
<1>6. best = Body(best)
  <2> HIDE DEF Body, F
  <2> QED
    BY <1>5
<1>7. Bs = Nat
  <2> HIDE DEF best, F
  <2>1. ASSUME NEW k \in Nat, \A m \in Nat : m < k => m \in Bs PROVE k \in Bs
    <3> SUFFICES ASSUME k \in 1 .. n PROVE FirstLargest(row, k, best[k])
      OBVIOUS
    <3>1. best[k] = IF k = 1 THEN 1 ELSE IF Above(row[k], row[best[k - 1]]) THEN k ELSE best[k - 1]
      <4>1. Body(best)[k] = IF k = 1 THEN 1 ELSE IF Above(row[k], row[best[k - 1]]) THEN k ELSE best[k - 1]
        OBVIOUS
      <4> HIDE DEF Body
      <4> QED
        BY <1>6, <4>1
    <3>2. CASE k = 1
      BY <1>2, <3>1, <3>2
    <3>3. CASE k # 1
      <4>1. k - 1 \in Nat /\ k - 1 < k /\ k - 1 \in 1 .. n /\ k \in 2 .. n
        BY <3>3
      <4>2. FirstLargest(row, k - 1, best[k - 1])
        BY <2>1, <4>1
      <4> QED
        BY <3>1, <3>3, <4>1, <4>2, FirstAlong
    <3> QED
      BY <3>2, <3>3
  <2>2. Bs \in SUBSET Nat
    OBVIOUS
  <2> HIDE DEF Bs
  <2> QED
    BY <2>1, <2>2, NatSets
<1>8. n \in Bs
  <2> HIDE DEF Bs
  <2> QED
    BY <1>7
<1>9. FirstLargest(row, n, best[n])
  <2> HIDE DEF best
  <2> QED
    BY <1>8
<1> HIDE DEF best
<1> QED
  BY <1>1, <1>9

LEMMA TopOneIs ==
  ASSUME NEW n \in Nat \ {0}, NEW row \in [1 .. n -> Ordinary]
  PROVE  topk_idx(row, 1) = {argmax(row)}
<1> DEFINE Ahd(i) == {l \in 1 .. n : Above(row[l], row[i]) \/ (row[l] = row[i] /\ l < i)}
<1>1. topk_idx(row, 1) = {i \in 1 .. n : Cardinality(Ahd(i)) < 1}
  <2>1. DOMAIN row = 1 .. n
    OBVIOUS
  <2> QED
    BY <2>1 DEF topk_idx
<1>2. ASSUME NEW i \in 1 .. n PROVE Cardinality(Ahd(i)) < 1 <=> FirstLargest(row, n, i)
  <2>1. Ahd(i) \in SUBSET (1 .. n) /\ IsFiniteSet(1 .. n)
    BY FS_Interval
  <2>2. Cardinality(Ahd(i)) \in Nat /\ (Cardinality(Ahd(i)) = 0 <=> Ahd(i) = {})
    <3> HIDE DEF Ahd
    <3> QED
      BY <2>1, FS_Subset, FS_CardinalityType, FS_EmptySet
  <2>3. Ahd(i) = {} <=> FirstLargest(row, n, i)
    <3>1. \A l \in 1 .. n : row[l] \in Ordinary
      OBVIOUS
    <3>2. \A l \in 1 .. n : ~(Above(row[l], row[i]) \/ (row[l] = row[i] /\ l < i))
                             <=> Above(row[i], row[l]) \/ (row[l] = row[i] /\ i <= l)
      <4> TAKE l \in 1 .. n
      <4>1. /\ Above(row[l], row[i]) \/ Above(row[i], row[l]) \/ row[l] = row[i]
            /\ ~(Above(row[l], row[i]) /\ Above(row[i], row[l])) /\ ~Above(row[i], row[i])
        BY <3>1, AboveIsOrder DEF Ordinary
      <4> QED
        BY <4>1
    <3> QED
      BY <3>2 DEF FirstLargest
  <2> HIDE DEF Ahd
  <2> QED
    BY <2>2, <2>3
<1>3. FirstLargest(row, n, argmax(row)) /\ argmax(row) \in 1 .. n
  BY ArgmaxIs DEF FirstLargest
<1>4. \A i \in 1 .. n : Cardinality(Ahd(i)) < 1 <=> i = argmax(row)
  <2> HIDE DEF Ahd
  <2> QED
    BY <1>2, <1>3, FirstIsUnique
<1> HIDE DEF Ahd
<1> QED
  BY <1>1, <1>3, <1>4

LEMMA OverlapIs ==
  ASSUME NEW n \in Nat \ {0}, NEW g \in [1 .. n -> Ordinary], NEW c \in [1 .. n -> Ordinary]
  PROVE  topk_overlap(g, c, 1) = IF argmax(c) = argmax(g) THEN 1 ELSE 0
<1>1. TopkDepth(g, c, 1) = 1
  <2>1. Len(g) = n /\ Len(c) = n
    OBVIOUS
  <2>2. TopkDepth(g, c, 1) = CHOOSE k \in {1, n} : \A l \in {1, n} : k =< l
    <3>1. {1, n, n} = {1, n}
      OBVIOUS
    <3> QED
      BY <2>1, <3>1 DEF TopkDepth, Min
  <2> QED
    BY <2>2
<1>2. topk_overlap(g, c, 1) = Cardinality({argmax(g)} \cap {argmax(c)})
  BY <1>1, TopOneIs DEF topk_overlap
<1>3. {argmax(g)} \cap {argmax(c)} = IF argmax(c) = argmax(g) THEN {argmax(g)} ELSE {}
  OBVIOUS
<1>4. Cardinality({argmax(g)}) = 1 /\ Cardinality({}) = 0
  BY FS_Singleton, FS_EmptySet
<1> QED
  BY <1>2, <1>3, <1>4

(* The rows of a matrix one after the other: every element has a place.    *)
Flat(rows) ==
  [i \in 1 .. Len(rows) * Len(rows[1]) |->
     rows[(i - 1) \div Len(rows[1]) + 1][((i - 1) % Len(rows[1])) + 1]]
Matrix(m, n) == [1 .. m -> [1 .. n -> Float]]
RowOf(i, n) == (i - 1) \div n + 1
ColumnOf(i, n) == ((i - 1) % n) + 1

Places(m, n, N) ==
  /\ N \in Nat \ {0}
  /\ \A i \in 1 .. N : RowOf(i, n) \in 1 .. m /\ ColumnOf(i, n) \in 1 .. n
  /\ \A r \in 1 .. m : \A k \in 1 .. n : \E i \in 1 .. N : RowOf(i, n) = r /\ ColumnOf(i, n) = k

LEMMA PlacesAre ==
  ASSUME NEW m \in Nat \ {0}, NEW n \in Nat \ {0}, NEW N, N = m * n
  PROVE  Places(m, n, N)
<1>1. N \in Nat \ {0}
  <2>1. m * n >= m /\ m * n \in Int
    OBVIOUS
  <2> QED
    BY <2>1
<1>2. \A i \in 1 .. N : RowOf(i, n) \in 1 .. m /\ ColumnOf(i, n) \in 1 .. n
  <2> SUFFICES ASSUME NEW i \in 1 .. N
               PROVE  (i - 1) \div n + 1 \in 1 .. m /\ ((i - 1) % n) + 1 \in 1 .. n
    BY DEF RowOf, ColumnOf
  <2> DEFINE q == (i - 1) \div n
             s == (i - 1) % n
  <2>1. q \in Int /\ s \in 0 .. n - 1 /\ i - 1 = n * q + s
    <3>1. i - 1 \in Int
      OBVIOUS
    <3> QED
      BY <3>1
  <2> HIDE DEF q, s
  <2>2. i >= 1 /\ i <= m * n /\ i \in Int /\ m * n \in Int
    BY <1>1
  <2>3. ~(q <= -1)
    <3> SUFFICES ASSUME q <= -1 PROVE FALSE
      OBVIOUS
    <3>1. n * q <= -n /\ n * q \in Int
      BY <2>1
    <3> QED
      BY <2>1, <2>2, <3>1
  <2>4. ~(q >= m)
    <3> SUFFICES ASSUME q >= m PROVE FALSE
      OBVIOUS
    <3>1. n * q >= m * n /\ n * q \in Int
      BY <2>1
    <3> QED
      BY <2>1, <2>2, <3>1
  <2>5. q + 1 \in 1 .. m /\ s + 1 \in 1 .. n
    BY <2>1, <2>3, <2>4
  <2> QED
    BY <2>5 DEF q, s
<1>3. ASSUME NEW r \in 1 .. m, NEW k \in 1 .. n
      PROVE  \E i \in 1 .. N : RowOf(i, n) = r /\ ColumnOf(i, n) = k
  <2> DEFINE i == n * (r - 1) + k
             q == (i - 1) \div n
             s == (i - 1) % n
  <2>1. i \in 1 .. N /\ i - 1 = n * (r - 1) + (k - 1) /\ i - 1 \in Int
    <3>1. n * (r - 1) >= 0 /\ n * (r - 1) \in Int
      OBVIOUS
    <3>2. n * (r - 1) <= n * (m - 1) /\ n * (m - 1) = m * n - n /\ m * n \in Int
      OBVIOUS
    <3> DEFINE u == n * (r - 1)
               v == m * n
    <3>3. u \in Nat /\ v \in Int /\ u <= v - n
      <4>1. u \in Nat
        BY <3>1
      <4>2. v \in Int
        BY <3>2
      <4>3. n * (m - 1) = v - n
        BY <3>2
      <4> HIDE DEF v
      <4> QED
        BY <3>2, <4>1, <4>2, <4>3
    <3> HIDE DEF u, v
    <3>4. u + k \in 1 .. v /\ (u + k) - 1 = u + (k - 1) /\ (u + k) - 1 \in Int
      BY <3>3
    <3> QED
      BY <3>4 DEF u, v
  <2> HIDE DEF i
  <2>2. q \in Int /\ s \in 0 .. n - 1 /\ i - 1 = n * q + s
    BY <2>1
  <2> HIDE DEF q, s
  <2>3. q = r - 1 /\ s = k - 1
    <3> DEFINE w == q - (r - 1)
    <3>1. w \in Int /\ n * w = n * q - n * (r - 1)
      BY <2>2
    <3>2. n * q \in Int /\ n * (r - 1) \in Int
      BY <2>2
    <3>3. n * w = (k - 1) - s
      BY <2>1, <2>2, <3>1, <3>2
    <3> HIDE DEF w
    <3>4. (w >= 1 => n * w >= n) /\ (w <= -1 => n * w <= -n) /\ n * w \in Int
      BY <3>1
    <3>5. w = 0
      BY <2>2, <3>1, <3>3, <3>4
    <3>6. s = k - 1
      BY <2>2, <3>3, <3>5
    <3> QED
      BY <2>2, <3>5, <3>6 DEF w
  <2>4. q + 1 = r /\ s + 1 = k
    BY <2>3
  <2> QED
    BY <2>1, <2>4 DEF q, s, RowOf, ColumnOf
<1> QED
  BY <1>1, <1>2, <1>3 DEF Places

LEMMA FlatIs ==
  ASSUME NEW m \in Nat \ {0}, NEW n \in Nat \ {0}, NEW a \in Matrix(m, n), NEW N, N = m * n
  PROVE  /\ Flat(a) \in [1 .. N -> Float]
         /\ \A i \in 1 .. N : Flat(a)[i] = a[RowOf(i, n)][ColumnOf(i, n)]
<1>1. Len(a) = m /\ Len(a[1]) = n
  BY DEF Matrix
<1>2. Flat(a) = [i \in 1 .. N |-> a[RowOf(i, n)][ColumnOf(i, n)]]
  BY <1>1 DEF Flat, RowOf, ColumnOf
<1>3. ASSUME NEW i \in 1 .. N PROVE a[RowOf(i, n)][ColumnOf(i, n)] \in Float
  <2>1. RowOf(i, n) \in 1 .. m /\ ColumnOf(i, n) \in 1 .. n
    <3>1. Places(m, n, N)
      BY PlacesAre
    <3> QED
      BY <3>1 DEF Places
  <2> QED
    BY <2>1 DEF Matrix
<1> QED
  BY <1>2, <1>3

(* The sum of the overlaps counts the rows that agree.                     *)
Overlaps(a, b, R) == SumFunction([i \in R |-> topk_overlap(a[i], b[i], 1)])

LEMMA OverlapsAre ==
  ASSUME NEW n \in Nat \ {0}, NEW a, NEW b, NEW R, IsFiniteSet(R),
         \A i \in R : a[i] \in [1 .. n -> Ordinary], \A i \in R : b[i] \in [1 .. n -> Ordinary]
  PROVE  Overlaps(a, b, R) = Cardinality({r \in R : argmax(b[r]) = argmax(a[r])})
<1> DEFINE F == [i \in R |-> topk_overlap(a[i], b[i], 1)]
           A == {r \in R : argmax(b[r]) = argmax(a[r])}
<1>1. Overlaps(a, b, R) = SumFunction(F)
  BY DEF Overlaps
<1>2. A \subseteq R
  OBVIOUS
<1>3. \A i \in R : F[i] = IF i \in A THEN 1 ELSE 0
  BY OverlapIs
<1>4. F \in [R -> Nat]
  <2>1. F = [i \in R |-> F[i]]
    OBVIOUS
  <2> HIDE DEF F, A
  <2>2. \A i \in R : F[i] \in Nat
    BY <1>3
  <2> QED
    BY <2>1, <2>2
<1> HIDE DEF F, A
<1>5. SumFunction(F) = Cardinality(Cells(F, R))
  BY <1>4, TotalIs
<1>6. Cells(F, R) = A \X {1}
  <2>1. ASSUME NEW i \in R PROVE Block(F, i) = IF i \in A THEN {<< i, 1 >>} ELSE {}
    <3>1. 1 .. 1 = {1} /\ 1 .. 0 = {}
      OBVIOUS
    <3> QED
      BY <1>3, <3>1 DEF Block
  <2>2. ASSUME NEW c \in Cells(F, R) PROVE c \in A \X {1}
    <3>1. PICK i \in R : c \in Block(F, i)
      BY DEF Cells
    <3> QED
      BY <2>1, <3>1
  <2>3. ASSUME NEW i \in A PROVE << i, 1 >> \in Cells(F, R)
    <3>1. i \in R /\ << i, 1 >> \in Block(F, i)
      BY <1>2, <2>1
    <3> QED
      BY <3>1 DEF Cells
  <2> QED
    BY <2>2, <2>3
<1>7. Cardinality(A \X {1}) = Cardinality(A)
  <2> DEFINE T == A \X {1}
             f2 == [r \in A |-> << r, 1 >>]
  <2>1. f2 \in [A -> T] /\ (\A r, s \in A : f2[r] = f2[s] => r = s) /\ \A t \in T : \E r \in A : f2[r] = t
    OBVIOUS
  <2>2. IsFiniteSet(A)
    BY <1>2, FS_Subset
  <2> HIDE DEF T, f2
  <2>3. Cardinality(T) = Cardinality(A)
    BY <2>1, <2>2, SameSize
  <2> QED
    BY <2>3 DEF T
<1> QED
  BY <1>1, <1>5, <1>6, <1>7 DEF A

Figures(r) ==
  /\ r.stats.sum_sq = NaN <=> Undefined(r.product)
  /\ r.stats.sum_sq # NaN =>
       /\ ErrorFigures(r.stats)
       /\ r.stats.max_abs = 0 => r.hits = r.rows /\ r.stats.max_rel[1] = 0
  /\ Ordered(r.product) => r.hits = Overlaps(r.product.ref, r.product.ours, r.product.live)

LEMMA MeasuredIs ==
  ASSUME NEW l, NEW p \in Product
  PROVE  Figures(Measured(l, p))
<1> DEFINE m == Len(p.ref)
           n == Len(p.ref[1])
           N == m * n
           a == p.ref
           b == p.ours
           fa == Flat(a)
           fb == Flat(b)
           stats == error_stats(fa, fb)
           agree == {r \in p.live : argmax(b[r]) = argmax(a[r])}
           r0 == Measured(l, p)
<1>1. m \in Nat \ {0} /\ n \in Nat \ {0} /\ a \in Matrix(m, n) /\ b \in Matrix(m, n) /\ p.live \in SUBSET (1 .. m)
  <2>1. {m, n} \subseteq Nat \ {0} /\ {p.ours, p.ref} \subseteq [1 .. m -> [1 .. n -> Float]] /\ p.live \subseteq 1 .. m
    BY GateAssumption
  <2> QED
    BY <2>1 DEF Matrix
<1>2. r0.product = p /\ r0.stats = stats /\ r0.hits = Cardinality(agree) /\ r0.rows = Cardinality(p.live)
  BY DEF Measured, Flat
<1>3. p.ref = a /\ p.ours = b /\ N = m * n
  OBVIOUS
<1> HIDE DEF m, n, N, a, b, stats, r0, fa, fb
<1>4. /\ N \in Nat \ {0} /\ fa \in [1 .. N -> Float] /\ fb \in [1 .. N -> Float]
      /\ \A i \in 1 .. N : /\ RowOf(i, n) \in 1 .. m /\ ColumnOf(i, n) \in 1 .. n
                           /\ fa[i] = a[RowOf(i, n)][ColumnOf(i, n)]
                           /\ fb[i] = b[RowOf(i, n)][ColumnOf(i, n)]
      /\ \A r \in 1 .. m : \A k \in 1 .. n : \E i \in 1 .. N : fa[i] = a[r][k] /\ fb[i] = b[r][k]
  <2>1. /\ N \in Nat \ {0}
        /\ \A i \in 1 .. N : RowOf(i, n) \in 1 .. m /\ ColumnOf(i, n) \in 1 .. n
        /\ \A r \in 1 .. m : \A k \in 1 .. n : \E i \in 1 .. N : RowOf(i, n) = r /\ ColumnOf(i, n) = k
    <3>1. Places(m, n, N)
      BY <1>1, <1>3, PlacesAre
    <3> QED
      BY <3>1 DEF Places
  <2>2. fa \in [1 .. N -> Float] /\ \A i \in 1 .. N : fa[i] = a[RowOf(i, n)][ColumnOf(i, n)]
    BY <1>1, <1>3, FlatIs DEF fa
  <2>3. fb \in [1 .. N -> Float] /\ \A i \in 1 .. N : fb[i] = b[RowOf(i, n)][ColumnOf(i, n)]
    BY <1>1, <1>3, FlatIs DEF fb
  <2>4. ASSUME NEW r \in 1 .. m, NEW k \in 1 .. n
        PROVE  \E i \in 1 .. N : fa[i] = a[r][k] /\ fb[i] = b[r][k]
    <3>1. PICK i \in 1 .. N : RowOf(i, n) = r /\ ColumnOf(i, n) = k
      BY <2>1
    <3> QED
      BY <2>2, <2>3, <3>1
  <2> QED
    BY <2>1, <2>2, <2>3, <2>4
<1>5. /\ stats.sum_sq = NaN <=> \E i \in 1 .. N : AbsDiff(fa[i], fb[i]) = NaN
      /\ stats.sum_sq # NaN => ErrorFigures(stats)
      /\ stats.sum_sq # NaN /\ stats.max_abs = 0
           => stats.max_rel[1] = 0 /\ \A i \in 1 .. N : fa[i] = fb[i]
  BY <1>4, ErrorsAgree DEF stats
<1>6. (\E i \in 1 .. N : AbsDiff(fa[i], fb[i]) = NaN) <=> Undefined(p)
  <2>1. DOMAIN a = 1 .. m /\ \A r \in 1 .. m : DOMAIN a[r] = 1 .. n
    BY <1>1 DEF Matrix
  <2>2. Undefined(p) <=> \E r \in 1 .. m : \E k \in 1 .. n : AbsDiff(a[r][k], b[r][k]) = NaN
    BY <1>3, <2>1 DEF Undefined
  <2>3. ASSUME NEW i \in 1 .. N, AbsDiff(fa[i], fb[i]) = NaN PROVE Undefined(p)
    BY <1>4, <2>2, <2>3
  <2>4. ASSUME Undefined(p) PROVE \E i \in 1 .. N : AbsDiff(fa[i], fb[i]) = NaN
    <3>1. PICK r \in 1 .. m : \E k \in 1 .. n : AbsDiff(a[r][k], b[r][k]) = NaN
      BY <2>2, <2>4
    <3>2. PICK k \in 1 .. n : AbsDiff(a[r][k], b[r][k]) = NaN
      BY <3>1
    <3>3. PICK i \in 1 .. N : fa[i] = a[r][k] /\ fb[i] = b[r][k]
      BY <1>4
    <3>4. AbsDiff(fa[i], fb[i]) = NaN
      BY <3>2, <3>3
    <3> QED
      BY <3>4
  <2> QED
    BY <2>3, <2>4
<1>7. ASSUME \A i \in 1 .. N : fa[i] = fb[i] PROVE agree = p.live
  <2>1. ASSUME NEW r \in p.live PROVE a[r] = b[r]
    <3>1. a[r] \in [1 .. n -> Float] /\ b[r] \in [1 .. n -> Float] /\ r \in 1 .. m
      BY <1>1 DEF Matrix
    <3>2. \A k \in 1 .. n : a[r][k] = b[r][k]
      BY <1>4, <1>7, <3>1
    <3>3. a[r] = [k \in 1 .. n |-> a[r][k]] /\ b[r] = [k \in 1 .. n |-> b[r][k]]
      BY <3>1
    <3> QED
      BY <3>2, <3>3
  <2> QED
    BY <2>1
<1>8. ASSUME Ordered(p) PROVE Overlaps(a, b, p.live) = Cardinality(agree)
  <2>1. ASSUME NEW i \in p.live
        PROVE  a[i] \in [1 .. n -> Ordinary] /\ b[i] \in [1 .. n -> Ordinary]
    <3>1. a[i] \in [1 .. n -> Float] /\ b[i] \in [1 .. n -> Float]
      BY <1>1 DEF Matrix
    <3>2. \A k \in 1 .. n : a[i][k] # NaN /\ b[i][k] # NaN
      BY <1>3, <1>8, <3>1 DEF Ordered
    <3>3. \A k \in 1 .. n : a[i][k] \in Ordinary /\ b[i][k] \in Ordinary
      BY <3>1, <3>2 DEF Ordinary
    <3> QED
      BY <3>1, <3>3
  <2>2. IsFiniteSet(p.live)
    <3>1. IsFiniteSet(1 .. m)
      BY <1>1, FS_Interval
    <3> QED
      BY <1>1, <3>1, FS_Subset
  <2> QED
    BY <1>1, <2>1, <2>2, OverlapsAre
<1> HIDE DEF agree
<1> QED
  BY <1>2, <1>3, <1>5, <1>6, <1>7, <1>8 DEF Figures, r0

AllMeasured == \A r \in results : \E l : \E p \in Product : r = Measured(l, p)

LEMMA MeasuredStep == AllMeasured /\ [GateNext]_gateVars => AllMeasured'
<1> SUFFICES ASSUME AllMeasured, [GateNext]_gateVars
             PROVE  AllMeasured'
  OBVIOUS
<1>1. results' \in {results, {}} => AllMeasured'
  BY DEF AllMeasured
<1>2. CASE tier1_operator
  <2>1. PICK picked \in Sample : \E p \in [picked -> Product] : results' = {Measured(l, p[l]) : l \in picked}
    BY <1>2 DEF tier1_operator
  <2>2. PICK p \in [picked -> Product] : results' = {Measured(l, p[l]) : l \in picked}
    BY <2>1
  <2> QED
    BY <2>2 DEF AllMeasured
<1>3. CASE main /\ ~tier1_operator
  BY <1>1, <1>3 DEF main, Enter, Fetch, Commit, reference, Patch, tier2_fullmodel, Summarize
<1>4. CASE Fail
  BY <1>1, <1>4 DEF Fail, Unanswered
<1>5. CASE UNCHANGED gateVars
  BY <1>1, <1>5 DEF gateVars
<1> QED
  BY <1>2, <1>3, <1>4, <1>5 DEF GateNext

(* The figures of the operator tier (error_stats, argmax and topk_overlap   *)
(* of tools/modal_validate.py) tell one story, for every size of matrix and *)
(* every outcome, NaN and infinities included.  The root mean square is NaN *)
(* exactly when a difference is undefined; when it is not, no element       *)
(* differs exactly when the largest error and the root mean square are      *)
(* zero, the one bounds the other, and then every row keeps its largest     *)
(* element.  Without NaN the overlap of the best counts the rows that do.   *)
THEOREM FiguresAlwaysAgree == GateSpec => []FiguresAgree
<1>1. GateInit => AllMeasured
  BY DEF GateInit, GateReset, AllMeasured
<1>2. AllMeasured => FiguresAgree
  <2> SUFFICES ASSUME AllMeasured, NEW r \in results PROVE Figures(r)
    BY DEF FiguresAgree, Figures, ErrorFigures, Overlaps
  <2> QED
    BY MeasuredIs DEF AllMeasured
<1> QED
  BY <1>1, <1>2, MeasuredStep, PTL DEF GateSpec
-------------------------------------------------------------------------------
(* The report on a layout.  A token's fetch of a layer is of K different   *)
(* experts, so an expert is read by as many fetches as contain it.         *)
Selections == {q \in [1 .. K -> Experts] : \A i, j \in 1 .. K : q[i] = q[j] => i = j}

LEMMA TriplesAreFinite ==
  ASSUME NEW A, NEW B, NEW C, IsFiniteSet(A), IsFiniteSet(B), IsFiniteSet(C)
  PROVE  IsFiniteSet(A \X B \X C)
<1> DEFINE S == (A \X B) \X C
           T == A \X B \X C
           f == [p \in S |-> << p[1][1], p[1][2], p[2] >>]
<1>1. IsFiniteSet(A \X B)
  BY FS_Product
<1>2. IsFiniteSet(S)
  BY <1>1, FS_Product
<1>3. f \in [S -> T]
  OBVIOUS
<1>4. ASSUME NEW t \in T PROVE \E p \in S : f[p] = t
  <2>1. << << t[1], t[2] >>, t[3] >> \in S /\ f[<< << t[1], t[2] >>, t[3] >>] = t
    OBVIOUS
  <2> QED
    BY <2>1
<1> HIDE DEF S, T, f
<1>5. IsFiniteSet(T)
  BY <1>2, <1>3, <1>4, ImageIsFinite
<1> QED
  BY <1>5 DEF T

LEMMA LayersAre == L \in Nat \ {0} /\ IsFiniteSet(Layers) /\ Cardinality(Layers) = L /\ Layers # {}
<1>1. L \in Nat \ {0}
  BY ExpertsAre
<1>2. 0 \in Int /\ L - 1 \in Int /\ ~(0 > L - 1) /\ (L - 1) - 0 + 1 = L /\ 0 \in Layers
  BY <1>1 DEF Layers
<1> QED
  BY <1>1, <1>2, FS_Interval DEF Layers

LEMMA ContainsIs ==
  ASSUME NEW q \in Selections, NEW e
  PROVE  Contains(q, e) <=> \E i \in 1 .. K : q[i] = e
<1>1. K \in Nat /\ q \in [1 .. K -> Experts]
  BY ExpertsAre DEF Selections
<1>2. Len(q) = K
  BY <1>1
<1> QED
  BY <1>2 DEF Contains

(* Of a fetch q under the placement p: the places and the experts that are *)
(* read from channel ch.                                                   *)
PlacesOn(q, p, ch) == {i \in 1 .. K : p[q[i]] = ch}
FetchedOn(q, p, ch) == {e \in Experts : Contains(q, e) /\ p[e] = ch}

LEMMA ReadOnce ==
  ASSUME NEW q \in Selections, NEW p, NEW ch
  PROVE  /\ IsFiniteSet(FetchedOn(q, p, ch))
         /\ Cardinality(PlacesOn(q, p, ch)) = Cardinality(FetchedOn(q, p, ch))
         /\ Cardinality(PlacesOn(q, p, ch)) \in 0 .. K
<1> DEFINE A == PlacesOn(q, p, ch)
           B == FetchedOn(q, p, ch)
           f == [i \in A |-> q[i]]
<1>1. K \in Nat /\ q \in [1 .. K -> Experts] /\ \A i, j \in 1 .. K : q[i] = q[j] => i = j
  BY ExpertsAre DEF Selections
<1>2. IsFiniteSet(1 .. K) /\ Cardinality(1 .. K) = K
  BY <1>1, FS_Interval
<1>3. A \in SUBSET (1 .. K)
  BY DEF PlacesOn
<1>4. f \in [A -> B] /\ \A i, j \in A : f[i] = f[j] => i = j
  BY <1>1, ContainsIs DEF PlacesOn, FetchedOn
<1>5. \A e \in B : \E i \in A : f[i] = e
  BY <1>1, ContainsIs DEF PlacesOn, FetchedOn
<1> DEFINE Ks == 1 .. K
<1> HIDE DEF A, B, f
<1>6. IsFiniteSet(A) /\ Cardinality(A) \in Nat /\ Cardinality(A) <= K
  <2>1. IsFiniteSet(Ks) /\ Cardinality(Ks) = K /\ A \in SUBSET Ks
    BY <1>2, <1>3
  <2> HIDE DEF Ks
  <2> QED
    BY <2>1, FS_Subset, FS_CardinalityType
<1>7. IsFiniteSet(B) /\ Cardinality(B) = Cardinality(A)
  BY <1>4, <1>5, <1>6, SameSize
<1> QED
  BY <1>1, <1>6, <1>7 DEF A, B

Reads(s) == {r \in (DOMAIN s) \X (Layers \X Experts) : Contains(s[r[1]][r[2][1]], r[2][2])}

LEMMA ReadsAre ==
  ASSUME NEW N \in Nat \ {0}, NEW s \in [1 .. N -> [Layers -> Selections]]
  PROVE  /\ IsFiniteSet((DOMAIN s) \X Layers) /\ Cardinality((DOMAIN s) \X Layers) \in Nat
         /\ (DOMAIN s) \X Layers # {}
         /\ IsFiniteSet(Reads(s)) /\ Cardinality(Reads(s)) = K * Cardinality((DOMAIN s) \X Layers)
<1> DEFINE Fs == (DOMAIN s) \X Layers
           Ks == 1 .. K
           R == Reads(s)
           f == [p \in Fs \X Ks |-> << p[1][1], << p[1][2], s[p[1][1]][p[1][2]][p[2]] >> >>]
<1>1. K \in Nat /\ \A t \in 1 .. N, l \in Layers :
                     /\ s[t][l] \in Selections /\ s[t][l] \in [Ks -> Experts]
                     /\ \A i, j \in Ks : s[t][l][i] = s[t][l][j] => i = j
  BY ExpertsAre DEF Selections
<1>2. IsFiniteSet(DOMAIN s) /\ 1 \in DOMAIN s
  <2>1. IsFiniteSet(1 .. N) /\ 1 \in 1 .. N /\ DOMAIN s = 1 .. N
    BY FS_Interval
  <2> QED
    BY <2>1
<1>3. IsFiniteSet(Fs) /\ Cardinality(Fs) \in Nat /\ Fs # {}
  <2>1. IsFiniteSet(Fs)
    BY <1>2, LayersAre, FS_Product
  <2>2. \E l \in Layers : << 1, l >> \in Fs
    BY <1>2, LayersAre
  <2> QED
    BY <2>1, <2>2, FS_CardinalityType
<1>4. IsFiniteSet(Ks) /\ Cardinality(Ks) = K
  BY <1>1, FS_Interval
<1>5. IsFiniteSet(Fs \X Ks) /\ Cardinality(Fs \X Ks) = Cardinality(Fs) * K
  <2> HIDE DEF Fs, Ks
  <2> QED
    BY <1>3, <1>4, FS_Product
<1>6. f \in [Fs \X Ks -> R]
  <2> SUFFICES ASSUME NEW p \in Fs \X Ks
               PROVE  << p[1][1], << p[1][2], s[p[1][1]][p[1][2]][p[2]] >> >> \in R
    OBVIOUS
  <2>1. PICK t \in 1 .. N, l \in Layers, i \in Ks : p = << << t, l >>, i >>
    OBVIOUS
  <2>2. s[t][l][i] \in Experts /\ Contains(s[t][l], s[t][l][i])
    BY <1>1, ContainsIs
  <2> QED
    BY <2>1, <2>2 DEF Reads
<1>7. \A p, q \in Fs \X Ks : f[p] = f[q] => p = q
  <2> SUFFICES ASSUME NEW p \in Fs \X Ks, NEW q \in Fs \X Ks, f[p] = f[q] PROVE p = q
    OBVIOUS
  <2>1. PICK t \in 1 .. N, l \in Layers, i \in Ks : p = << << t, l >>, i >>
    OBVIOUS
  <2>2. PICK u \in 1 .. N, m \in Layers, j \in Ks : q = << << u, m >>, j >>
    OBVIOUS
  <2>3. t = u /\ l = m /\ s[t][l][i] = s[u][m][j]
    BY <2>1, <2>2
  <2> QED
    BY <1>1, <2>1, <2>2, <2>3
<1>8. ASSUME NEW r \in R PROVE \E p \in Fs \X Ks : f[p] = r
  <2>1. PICK t \in 1 .. N, l \in Layers, e \in Experts : r = << t, << l, e >> >> /\ Contains(s[t][l], e)
    BY DEF Reads
  <2>2. PICK i \in Ks : s[t][l][i] = e
    BY <1>1, <2>1, ContainsIs
  <2>3. << << t, l >>, i >> \in Fs \X Ks /\ f[<< << t, l >>, i >>] = r
    BY <2>1, <2>2
  <2> QED
    BY <2>3
<1> HIDE DEF f, R
<1>9. IsFiniteSet(R) /\ Cardinality(R) = Cardinality(Fs \X Ks)
  <2> DEFINE S == Fs \X Ks
  <2>1. IsFiniteSet(S) /\ f \in [S -> R] /\ (\A p, q \in S : f[p] = f[q] => p = q) /\ \A r \in R : \E p \in S : f[p] = r
    BY <1>5, <1>6, <1>7, <1>8
  <2> HIDE DEF S
  <2>2. IsFiniteSet(R) /\ Cardinality(R) = Cardinality(S)
    BY <2>1, SameSize
  <2> QED
    BY <2>2 DEF S
<1>10. Cardinality(Fs) * K = K * Cardinality(Fs)
  BY <1>1, <1>3
<1> QED
  BY <1>3, <1>5, <1>9, <1>10 DEF R

(* The traffic of the channels is the reads of all fetches.                *)
LEMMA TrafficIs ==
  ASSUME NEW N \in Nat \ {0}, NEW s \in [1 .. N -> [Layers -> Selections]],
         NEW n \in Nat \ {0}, NEW lay \in [1 .. L -> [Experts -> 0 .. n - 1]]
  PROVE  SumFunction(load_balance(lay, coactivation(s), n)) = K * Cardinality((DOMAIN s) \X Layers)
<1> DEFINE stats == coactivation(s)
           Chs == 0 .. n - 1
           On1(ch) == {p \in Layers \X Experts : lay[p[1] + 1][p[2]] = ch}
           Freq(ch) == [p \in On1(ch) |-> stats[p[1]].freq[p[2]]]
           Through(ch) == {r \in Reads(s) : r[2] \in On1(ch)}
           G == [ch \in Chs |-> Cardinality(Through(ch))]
<1>1. /\ IsFiniteSet(Reads(s)) /\ Cardinality(Reads(s)) = K * Cardinality((DOMAIN s) \X Layers)
      /\ IsFiniteSet(Layers \X Experts) /\ IsFiniteSet(DOMAIN s) /\ DOMAIN s = 1 .. N
      /\ IsFiniteSet(Chs)
  <2>1. IsFiniteSet(Layers \X Experts)
    BY LayersAre, ExpertsAre, FS_Product
  <2>2. DOMAIN s = 1 .. N /\ IsFiniteSet(1 .. N) /\ IsFiniteSet(Chs)
    BY FS_Interval
  <2>3. IsFiniteSet(DOMAIN s)
    BY <2>2
  <2> QED
    BY <2>1, <2>2, <2>3, ReadsAre
<1>2. \A p \in Layers \X Experts :
        stats[p[1]].freq[p[2]] = Cardinality({t \in DOMAIN s : Contains(s[t][p[1]], p[2])})
  BY DEF coactivation
<1>3. ASSUME NEW ch \in Chs
      PROVE  Cardinality(Through(ch)) \in Nat /\ SumFunction(Freq(ch)) = Cardinality(Through(ch))
  <2> DEFINE X == Through(ch)
             Y == On1(ch)
             H == Freq(ch)
             F == [r \in X |-> r[2]]
  <2>1. X \in SUBSET Reads(s) /\ Y \in SUBSET (Layers \X Experts)
    OBVIOUS
  <2>2. IsFiniteSet(X) /\ IsFiniteSet(Y) /\ Cardinality(X) \in Nat
    <3> HIDE DEF X, Y
    <3> QED
      BY <1>1, <2>1, FS_Subset, FS_CardinalityType
  <2>3. F \in [X -> Y]
    OBVIOUS
  <2>4. ASSUME NEW p \in Y PROVE H[p] \in Nat /\ H[p] = Cardinality(On(F, p))
    <3> DEFINE A == {t \in DOMAIN s : Contains(s[t][p[1]], p[2])}
               B == {r \in X : F[r] = p}
               f == [t \in A |-> << t, p >>]
    <3>1. H[p] = Cardinality(A)
      BY <1>2
    <3>2. f \in [A -> B] /\ \A t, u \in A : f[t] = f[u] => t = u
      BY DEF Reads
    <3>3. ASSUME NEW r \in B PROVE \E t \in A : f[t] = r
      <4>1. r[1] \in A /\ f[r[1]] = r
        BY DEF Reads
      <4> QED
        BY <4>1
    <3>4. A \in SUBSET DOMAIN s
      OBVIOUS
    <3> HIDE DEF A, B, f, H
    <3>5. IsFiniteSet(A) /\ Cardinality(A) \in Nat
      BY <1>1, <3>4, FS_Subset, FS_CardinalityType
    <3>6. Cardinality(B) = Cardinality(A)
      BY <3>2, <3>3, <3>5, SameSize
    <3> QED
      BY <3>1, <3>5, <3>6 DEF B, On
  <2>5. H \in [Y -> Nat]
    <3>1. H = [p \in Y |-> H[p]]
      OBVIOUS
    <3> HIDE DEF H, Y
    <3> QED
      BY <2>4, <3>1
  <2> HIDE DEF X, Y, H, F
  <2>6. SumFunction(H) = Cardinality(X)
    BY <2>2, <2>3, <2>4, <2>5, SumOfParts DEF Splits
  <2> QED
    BY <2>2, <2>6 DEF H, X
<1>4. load_balance(lay, stats, n) = G
  <2>1. load_balance(lay, stats, n) = [ch \in Chs |-> SumFunction(Freq(ch))]
    BY DEF load_balance
  <2> HIDE DEF stats, Chs, Freq, Through
  <2> QED
    BY <1>3, <2>1
<1>5. SumFunction(G) = Cardinality(Reads(s))
  <2> DEFINE F == [r \in Reads(s) |-> lay[r[2][1] + 1][r[2][2]]]
  <2>1. F \in [Reads(s) -> Chs]
    <3>1. \A l \in Layers, e \in Experts : lay[l + 1][e] \in Chs
      BY LayersAre DEF Layers
    <3>2. \A r \in Reads(s) : r[2][1] \in Layers /\ r[2][2] \in Experts
      BY DEF Reads
    <3> HIDE DEF Chs
    <3> QED
      BY <3>1, <3>2
  <2>2. \A ch \in Chs : G[ch] = Cardinality(On(F, ch))
    <3> SUFFICES ASSUME NEW ch \in Chs PROVE Through(ch) = On(F, ch)
      OBVIOUS
    <3>1. \A r \in Reads(s) : r[2] \in Layers \X Experts
      BY DEF Reads
    <3> QED
      BY <3>1 DEF On
  <2>3. G \in [Chs -> Nat]
    <3> HIDE DEF Through, Chs
    <3> QED
      BY <1>3
  <2> HIDE DEF F, G, Chs
  <2> QED
    BY <1>1, <2>1, <2>2, <2>3, SumOfParts DEF Splits
<1> QED
  BY <1>1, <1>4, <1>5

(* Two experts on one channel, read by the same fetch.                     *)
Met(s) ==
  {m \in (DOMAIN s) \X (Layers \X Experts \X Experts) :
     /\ m[2][2] < m[2][3]
     /\ Contains(s[m[1]][m[2][1]], m[2][2]) /\ Contains(s[m[1]][m[2][1]], m[2][3])
     /\ layout[m[2][1] + 1][m[2][2]] = layout[m[2][1] + 1][m[2][3]]}

LEMMA SharedIs ==
  ASSUME NEW N \in Nat \ {0}, NEW s \in [1 .. N -> [Layers -> Selections]]
  PROVE  IsFiniteSet(Met(s)) /\ SumFunction(Shared(coactivation(s))) = Cardinality(Met(s))
<1> DEFINE stats == coactivation(s)
           X == Met(s)
           All == Layers \X Experts \X Experts
           Y == {p \in All : p[2] < p[3] /\ layout[p[1] + 1][p[2]] = layout[p[1] + 1][p[3]]}
           H == [p \in Y |-> stats[p[1]].co[<< p[2], p[3] >>]]
           F == [m \in X |-> m[2]]
<1>1. IsFiniteSet(All) /\ IsFiniteSet(DOMAIN s)
  <2>1. IsFiniteSet(1 .. N) /\ DOMAIN s = 1 .. N
    BY FS_Interval
  <2>2. IsFiniteSet(All)
    BY LayersAre, ExpertsAre, TriplesAreFinite
  <2> QED
    BY <2>1, <2>2
<1>2. IsFiniteSet(X) /\ IsFiniteSet(Y)
  <2>1. X \in SUBSET ((DOMAIN s) \X All) /\ Y \in SUBSET All
    BY DEF Met
  <2> HIDE DEF X, Y, All
  <2>2. IsFiniteSet((DOMAIN s) \X All)
    BY <1>1, FS_Product
  <2> QED
    BY <1>1, <2>1, <2>2, FS_Subset
<1>3. F \in [X -> Y]
  BY DEF Met
<1>4. ASSUME NEW p \in Y PROVE H[p] \in Nat /\ H[p] = Cardinality(On(F, p))
  <2> DEFINE A == {t \in DOMAIN s : Contains(s[t][p[1]], p[2]) /\ Contains(s[t][p[1]], p[3])}
             B == {m \in X : F[m] = p}
             f == [t \in A |-> << t, p >>]
  <2>1. H[p] = Cardinality(A)
    <3>1. p[1] \in Layers /\ << p[2], p[3] >> \in Experts \X Experts
      OBVIOUS
    <3>2. H[p] = stats[p[1]].co[<< p[2], p[3] >>]
      OBVIOUS
    <3> QED
      BY <3>1, <3>2 DEF coactivation
  <2>2. f \in [A -> B] /\ \A t, u \in A : f[t] = f[u] => t = u
    BY DEF Met
  <2>3. ASSUME NEW m \in B PROVE \E t \in A : f[t] = m
    <3>1. m[1] \in A /\ f[m[1]] = m
      BY DEF Met
    <3> QED
      BY <3>1
  <2>4. A \in SUBSET DOMAIN s
    OBVIOUS
  <2> HIDE DEF A, B, f, H
  <2>5. IsFiniteSet(A) /\ Cardinality(A) \in Nat
    BY <1>1, <2>4, FS_Subset, FS_CardinalityType
  <2>6. Cardinality(B) = Cardinality(A)
    BY <2>2, <2>3, <2>5, SameSize
  <2> QED
    BY <2>1, <2>5, <2>6 DEF B, On
<1>5. H \in [Y -> Nat]
  <2>1. H = [p \in Y |-> H[p]]
    OBVIOUS
  <2> HIDE DEF H, Y
  <2> QED
    BY <1>4, <2>1
<1>6. Shared(stats) = H
  BY DEF Shared
<1> HIDE DEF X, Y, H, F
<1>7. SumFunction(H) = Cardinality(X)
  BY <1>2, <1>3, <1>4, <1>5, SumOfParts DEF Splits
<1> QED
  BY <1>2, <1>6, <1>7 DEF X

LEMMA MeetingsAre ==
  ASSUME NEW N \in Nat \ {0}, NEW s \in [1 .. N -> [Layers -> Selections]],
         n_ch \in Nat \ {0}, layout \in [1 .. L -> [Experts -> 0 .. n_ch - 1]]
  PROVE  SumFunction(Meetings(s)) = Cardinality(Met(s))
<1> DEFINE X == Met(s)
           Chs == 0 .. n_ch - 1
           Y == (DOMAIN s) \X Layers \X Chs
           F == [m \in X |-> << m[1], m[2][1], layout[m[2][1] + 1][m[2][2]] >>]
           G == Meetings(s)
<1>1. /\ \A t \in DOMAIN s, l \in Layers : s[t][l] \in Selections
      /\ \A l \in Layers, e \in Experts : layout[l + 1][e] \in Chs
  BY LayersAre DEF Layers
<1>2. IsFiniteSet(X) /\ IsFiniteSet(Y)
  <2>1. IsFiniteSet(1 .. N) /\ DOMAIN s = 1 .. N /\ IsFiniteSet(Chs)
    BY FS_Interval
  <2>2. IsFiniteSet(DOMAIN s)
    BY <2>1
  <2> HIDE DEF Chs
  <2> QED
    BY <2>1, <2>2, LayersAre, TriplesAreFinite, SharedIs
<1>3. F \in [X -> Y]
  BY <1>1 DEF Met
<1>4. ASSUME NEW f \in Y PROVE G[f] \in Nat /\ G[f] = Cardinality(On(F, f))
  <2> DEFINE t == f[1]
             l == f[2]
             ch == f[3]
             A == {i \in 1 .. K : layout[l + 1][s[t][l][i]] = ch}
             D == {e \in Experts : Contains(s[t][l], e) /\ layout[l + 1][e] = ch}
             W == {p \in D \X D : p[1] < p[2]}
             B == On(F, f)
             g == [p \in W |-> << t, << l, p[1], p[2] >> >>]
  <2>1. t \in DOMAIN s /\ l \in Layers /\ ch \in Chs /\ f = << t, l, ch >>
    OBVIOUS
  <2>2. IsFiniteSet(D) /\ Cardinality(A) = Cardinality(D)
    <3>1. s[t][l] \in Selections
      BY <1>1, <2>1
    <3>2. A = PlacesOn(s[t][l], layout[l + 1], ch) /\ D = FetchedOn(s[t][l], layout[l + 1], ch)
      BY DEF PlacesOn, FetchedOn
    <3> HIDE DEF A, D
    <3> QED
      BY <3>1, <3>2, ReadOnce
  <2>3. G[f] = Pairs(Cardinality(A))
    <3>1. G[f] = Pairs(Chans(s, layout, n_ch, t, l)[ch])
      BY DEF Meetings
    <3>2. Chans(s, layout, n_ch, t, l)[ch] = Cardinality(A)
      BY <2>1 DEF Chans
    <3> QED
      BY <3>1, <3>2
  <2>4. D \in SUBSET Int
    BY DEF Experts
  <2>5. Cardinality(W) = G[f]
    <3> HIDE DEF D, A, G
    <3> QED
      BY <2>2, <2>3, <2>4, PairsAre
  <2>6. IsFiniteSet(W) /\ Cardinality(W) \in Nat
    <3>1. W \in SUBSET (D \X D)
      OBVIOUS
    <3> HIDE DEF W, D
    <3>2. IsFiniteSet(D \X D)
      BY <2>2, FS_Product
    <3> QED
      BY <3>1, <3>2, FS_Subset, FS_CardinalityType
  <2> HIDE DEF t, l, ch
  <2>7. g \in [W -> B] /\ \A p, q \in W : g[p] = g[q] => p = q
    <3>1. ASSUME NEW p \in W PROVE << t, << l, p[1], p[2] >> >> \in B
      <4>1. p[1] \in D /\ p[2] \in D /\ p[1] < p[2]
        OBVIOUS
      <4>2. << t, << l, p[1], p[2] >> >> \in X
        BY <2>1, <4>1 DEF Met
      <4>3. F[<< t, << l, p[1], p[2] >> >>] = f
        BY <2>1, <4>1, <4>2
      <4> QED
        BY <4>2, <4>3 DEF On
    <3>2. \A p, q \in W : p = << p[1], p[2] >> /\ q = << q[1], q[2] >>
      OBVIOUS
    <3> HIDE DEF W, B
    <3> QED
      BY <3>1, <3>2
  <2>8. ASSUME NEW m \in B PROVE \E p \in W : g[p] = m
    <3>1. m \in X /\ F[m] = f
      BY DEF On
    <3>2. PICK u \in DOMAIN s, k \in Layers, d \in Experts, e \in Experts : m = << u, << k, d, e >> >>
      BY <3>1 DEF Met
    <3>3. u = t /\ k = l /\ layout[l + 1][d] = ch
      BY <2>1, <3>1, <3>2
    <3>4. d < e /\ Contains(s[t][l], d) /\ Contains(s[t][l], e) /\ layout[l + 1][d] = layout[l + 1][e]
      BY <3>1, <3>2, <3>3 DEF Met
    <3>5. << d, e >> \in W /\ g[<< d, e >>] = m
      BY <3>2, <3>3, <3>4
    <3> QED
      BY <3>5
  <2> HIDE DEF W, B, g, G
  <2>9. Cardinality(B) = Cardinality(W)
    BY <2>6, <2>7, <2>8, SameSize
  <2> QED
    BY <2>5, <2>6, <2>9 DEF B
<1>5. G \in [Y -> Nat]
  <2>1. G = [f \in Y |-> G[f]]
    BY DEF Meetings
  <2> HIDE DEF G, Y
  <2> QED
    BY <1>4, <2>1
<1> HIDE DEF X, Y, F, G
<1>6. SumFunction(G) = Cardinality(X)
  BY <1>2, <1>3, <1>4, <1>5, SumOfParts DEF Splits
<1> QED
  BY <1>6 DEF G, X

(* What holds of every term holds of the sum.                              *)
LEMMA SumIsAtLeast ==
  ASSUME NEW S, IsFiniteSet(S), NEW F \in [S -> Nat], NEW n \in Nat, NEW k \in Nat,
         \A i \in S : F[i] * n >= k
  PROVE  SumFunction(F) * n >= k * Cardinality(S)
<1> DEFINE Cs == {c \in Nat : \A T \in SUBSET S : Cardinality(T) = c => Cardinality(Cells(F, T)) * n >= k * c}
<1>1. ASSUME NEW c \in Nat, \A d \in Nat : d < c => d \in Cs PROVE c \in Cs
  <2> SUFFICES ASSUME NEW T \in SUBSET S, Cardinality(T) = c
               PROVE  Cardinality(Cells(F, T)) * n >= k * c
    OBVIOUS
  <2>0. IsFiniteSet(T)
    BY FS_Subset
  <2>1. CASE T = {}
    <3>1. Cells(F, T) = {} /\ c = 0 /\ Cardinality({}) = 0
      BY <2>1, FS_EmptySet DEF Cells
    <3>2. Cardinality(Cells(F, T)) = 0 /\ 0 * n = 0 /\ k * 0 = 0
      BY <3>1
    <3> QED
      BY <3>1, <3>2
  <2>2. CASE T # {}
    <3>1. PICK i \in T : TRUE
      BY <2>2
    <3> DEFINE U == T \ {i}
               H == [j \in T |-> F[j]]
    <3>2. H \in [T -> Nat] /\ H[i] = F[i] /\ U \in SUBSET S
      OBVIOUS
    <3>3. Cardinality(U) = c - 1 /\ c - 1 \in Nat /\ c - 1 < c
      <4>1. Cardinality(T \ {i}) = Cardinality(T) - 1 /\ Cardinality(T \ {i}) \in Nat
        BY <2>0, Smaller
      <4> QED
        BY <4>1
    <3>4. Cardinality(Cells(F, U)) * n >= k * (c - 1)
      <4> HIDE DEF U
      <4>1. c - 1 \in Cs
        BY <1>1, <3>3
      <4> QED
        BY <3>2, <3>3, <4>1
    <3>5. Cells(H, T) = Cells(F, T) /\ Cells(H, U) = Cells(F, U)
      BY DEF Cells, Block
    <3>6. Cardinality(Cells(H, T)) = H[i] + Cardinality(Cells(H, U)) /\ Cardinality(Cells(F, U)) \in Nat
      <4>1. Cardinality(Cells(H, T)) = H[i] + Cardinality(Cells(H, U))
        <5> HIDE DEF H
        <5> QED
          BY <2>0, <3>2, CellsGrow
      <4>2. Cardinality(Cells(F, U)) \in Nat
        <5> DEFINE J == [j \in U |-> F[j]]
        <5>1. J \in [U -> Nat] /\ Cells(J, U) = Cells(F, U)
          BY DEF Cells, Block
        <5>2. IsFiniteSet(U)
          BY <2>0, FS_RemoveElement
        <5> HIDE DEF J, U
        <5> QED
          BY <5>1, <5>2, CellsAreFinite
      <4> QED
        BY <4>1, <4>2
    <3> DEFINE u == Cardinality(Cells(F, U))
               v == F[i]
    <3>7. Cardinality(Cells(F, T)) = v + u /\ u \in Nat /\ v \in Nat /\ v * n >= k /\ u * n >= k * (c - 1)
      BY <3>2, <3>4, <3>5, <3>6
    <3> HIDE DEF u, v
    <3>8. (v + u) * n = v * n + u * n /\ k * (c - 1) = k * c - k /\ v * n \in Int /\ u * n \in Int /\ k * c \in Int
      BY <3>7
    <3> QED
      BY <3>7, <3>8
  <2> QED
    BY <2>1, <2>2
<1>2. Cs = Nat
  <2>1. Cs \in SUBSET Nat
    OBVIOUS
  <2> HIDE DEF Cs
  <2> QED
    BY <1>1, <2>1, NatSets
<1>3. Cardinality(S) \in Nat /\ S \in SUBSET S
  BY FS_CardinalityType
<1> QED
  BY <1>2, <1>3, TotalIs

(* A fetch's fullest channel: not beyond the cap, and not below an even    *)
(* share of the K reads.                                                   *)
ReadsOn(q, p, n) == [ch \in 0 .. n - 1 |-> Cardinality(PlacesOn(q, p, ch))]

LEMMA FullestIs ==
  ASSUME NEW q \in Selections, NEW n \in Nat \ {0}, NEW p \in [Experts -> 0 .. n - 1], NEW c \in Nat,
         \A ch \in 0 .. n - 1 : Cardinality(On(p, ch)) <= c,
         NEW chans, chans = ReadsOn(q, p, n)
  PROVE  LET m == Max(Range(chans))
         IN  m \in 1 .. K /\ m <= c /\ m * n >= K
<1> DEFINE Chs == 0 .. n - 1
           Ks == 1 .. K
           F == [i \in Ks |-> p[q[i]]]
           S == Range(chans)
           m == Max(S)
<1>1. K \in Nat \ {0} /\ q \in [Ks -> Experts] /\ IsFiniteSet(Ks) /\ Cardinality(Ks) = K
  <2>1. K \in Nat \ {0} /\ q \in [Ks -> Experts]
    BY ExpertsAre DEF Selections
  <2> QED
    BY <2>1, FS_Interval
<1>2. IsFiniteSet(Chs) /\ Cardinality(Chs) = n /\ 0 \in Chs
  <2>1. 0 \in Int /\ n - 1 \in Int /\ ~(0 > n - 1) /\ (n - 1) - 0 + 1 = n
    OBVIOUS
  <2> QED
    BY <2>1, FS_Interval
<1>3. ASSUME NEW ch \in Chs PROVE chans[ch] \in 0 .. K /\ chans[ch] <= c /\ chans[ch] = Cardinality(On(F, ch))
  <2> DEFINE B == FetchedOn(q, p, ch)
             A == PlacesOn(q, p, ch)
  <2>1. IsFiniteSet(B) /\ Cardinality(A) = Cardinality(B) /\ Cardinality(A) \in 0 .. K
    BY ReadOnce
  <2>2. B \in SUBSET On(p, ch) /\ On(p, ch) \in SUBSET Experts
    BY DEF On, FetchedOn
  <2>3. A = On(F, ch)
    BY DEF On, PlacesOn
  <2>4. chans[ch] = Cardinality(A)
    BY DEF ReadsOn
  <2> HIDE DEF A, B
  <2>5. IsFiniteSet(On(p, ch)) /\ Cardinality(On(p, ch)) \in Nat
    BY <2>2, ExpertsAre, FS_Subset, FS_CardinalityType
  <2>6. Cardinality(B) <= Cardinality(On(p, ch))
    BY <2>2, <2>5, FS_Subset
  <2>7. Cardinality(On(p, ch)) <= c
    OBVIOUS
  <2> QED
    BY <1>1, <2>1, <2>3, <2>4, <2>5, <2>6, <2>7
<1>4. chans \in [Chs -> Nat]
  <2>1. chans = [ch \in Chs |-> chans[ch]]
    BY DEF ReadsOn
  <2> HIDE DEF Chs
  <2>2. ASSUME NEW ch \in Chs PROVE chans[ch] \in Nat
    <3>1. K \in Nat /\ chans[ch] \in 0 .. K
      BY <1>1, <1>3
    <3> QED
      BY <3>1
  <2> QED
    BY <2>1, <2>2
<1>5. F \in [Ks -> Chs]
  BY <1>1
<1> HIDE DEF F, Ks, Chs
<1>6. IsFiniteSet(S) /\ S # {} /\ S \subseteq Nat
  <2>1. chans \in [Chs -> S] /\ (\A v \in S : \E ch \in Chs : chans[ch] = v) /\ S \subseteq Nat /\ chans[0] \in S
    BY <1>2, <1>4 DEF Range
  <2> HIDE DEF S
  <2>2. chans \in Surjection(Chs, S)
    BY <2>1 DEF Surjection
  <2>3. IsFiniteSet(S)
    BY <1>2, <2>2, FS_Surjection
  <2> QED
    BY <2>1, <2>3
<1>7. m \in S /\ \A v \in S : v <= m
  <2> HIDE DEF S
  <2> QED
    BY <1>6, MaxIs
<1>8. m \in 0 .. K /\ m <= c /\ \A ch \in Chs : chans[ch] <= m
  BY <1>3, <1>4, <1>7 DEF Range
<1> HIDE DEF m
<1>9. Cardinality(Cells(chans, Chs)) = K
  <2>1. SumFunction(chans) = Cardinality(Ks)
    BY <1>1, <1>2, <1>3, <1>4, <1>5, SumOfParts DEF Splits
  <2> QED
    BY <1>1, <1>2, <1>4, <2>1, TotalIs
<1>10. K <= n * m
  <2> DEFINE T == Chs \X (1 .. m)
  <2>1. IsFiniteSet(1 .. m) /\ Cardinality(1 .. m) = m
    BY <1>8, FS_Interval
  <2>2. IsFiniteSet(T) /\ Cardinality(T) = n * m
    <3> DEFINE M == 1 .. m
    <3> HIDE DEF M
    <3>1. IsFiniteSet(M) /\ Cardinality(M) = m
      BY <2>1 DEF M
    <3>2. IsFiniteSet(Chs \X M) /\ Cardinality(Chs \X M) = Cardinality(Chs) * Cardinality(M)
      BY <1>2, <3>1, FS_Product
    <3> QED
      BY <1>2, <3>1, <3>2 DEF M
  <2>3. Cells(chans, Chs) \in SUBSET T
    <3> SUFFICES ASSUME NEW ch \in Chs, NEW v \in Block(chans, ch) PROVE v \in T
      BY DEF Cells
    <3>1. chans[ch] \in Nat /\ m \in Nat /\ chans[ch] <= m
      BY <1>4, <1>8
    <3>2. v[1] = ch /\ v[2] \in 1 .. chans[ch] /\ v = << v[1], v[2] >>
      BY DEF Block
    <3> QED
      BY <3>1, <3>2
  <2> HIDE DEF T
  <2>4. Cardinality(Cells(chans, Chs)) <= Cardinality(T)
    BY <2>2, <2>3, FS_Subset
  <2> QED
    BY <1>9, <2>2, <2>4
<1>11. m # 0 /\ m * n >= K
  BY <1>1, <1>8, <1>10
<1> QED
  BY <1>8, <1>11, <1>1 DEF m

(* The k-th smallest of a finite set of integers.                          *)
Below(S, i) == {h \in S : h < i}

LEMMA RankExists ==
  ASSUME NEW S \in SUBSET Int, IsFiniteSet(S), NEW r \in Nat, r < Cardinality(S)
  PROVE  \E i \in S : Cardinality(Below(S, i)) = r
<1> DEFINE n == Cardinality(S)
           T == 0 .. n - 1
           rank == [i \in S |-> Cardinality(Below(S, i))]
<1>1. n \in Nat
  BY FS_CardinalityType
<1>2. \A i \in S : IsFiniteSet(Below(S, i)) /\ Cardinality(Below(S, i)) \in Nat
  <2> SUFFICES ASSUME NEW i \in S PROVE IsFiniteSet(Below(S, i)) /\ Cardinality(Below(S, i)) \in Nat
    OBVIOUS
  <2>1. Below(S, i) \in SUBSET S
    BY DEF Below
  <2> QED
    BY <2>1, FS_Subset, FS_CardinalityType
<1>3. \A i \in S : rank[i] \in T
  <2> SUFFICES ASSUME NEW i \in S PROVE Cardinality(Below(S, i)) \in T
    OBVIOUS
  <2>1. IsFiniteSet(S \ {i}) /\ Cardinality(S \ {i}) = n - 1
    BY FS_RemoveElement
  <2>2. Below(S, i) \in SUBSET (S \ {i})
    BY DEF Below
  <2>3. Cardinality(Below(S, i)) <= n - 1
    <3> DEFINE U == S \ {i}
    <3> HIDE DEF U
    <3>1. IsFiniteSet(U) /\ Cardinality(U) = n - 1 /\ Below(S, i) \in SUBSET U
      BY <2>1, <2>2 DEF U
    <3> QED
      BY <3>1, FS_Subset
  <2> QED
    BY <1>1, <1>2, <2>3
<1>4. ASSUME NEW i \in S, NEW j \in S, i < j PROVE rank[i] < rank[j]
  <2> DEFINE A == Below(S, i)
             B == Below(S, j)
  <2>1. A \in SUBSET (B \ {i}) /\ i \in B
    <3>1. \A h \in S : h \in Int /\ (h < i => h < j /\ h # i)
      BY <1>4
    <3> QED
      BY <1>4, <3>1 DEF Below
  <2>2. IsFiniteSet(B) /\ Cardinality(B) \in Nat /\ Cardinality(A) \in Nat
    BY <1>2
  <2> HIDE DEF A, B
  <2>3. Cardinality(A) < Cardinality(B)
    <3> DEFINE U == B \ {i}
    <3>1. IsFiniteSet(U) /\ Cardinality(U) = Cardinality(B) - 1
      BY <2>1, <2>2, FS_RemoveElement
    <3>2. A \in SUBSET U
      BY <2>1
    <3> HIDE DEF U
    <3>3. Cardinality(A) <= Cardinality(U)
      BY <3>1, <3>2, FS_Subset
    <3> QED
      BY <2>2, <3>1, <3>3
  <2> QED
    BY <2>3 DEF A, B
<1>5. rank \in Injection(S, T)
  <2>1. rank \in [S -> T]
    BY <1>3
  <2>2. ASSUME NEW i \in S, NEW j \in S, i # j PROVE rank[i] # rank[j]
    <3>1. i < j \/ j < i
      BY <2>2
    <3>2. rank[i] \in Int /\ rank[j] \in Int
      BY <1>3
    <3> HIDE DEF rank
    <3> QED
      BY <1>4, <3>1, <3>2
  <2> HIDE DEF rank, T
  <2> QED
    BY <2>1, <2>2 DEF Injection, IsInjective
<1>6. IsFiniteSet(T) /\ Cardinality(T) = n
  <2>1. 0 \in Int /\ n - 1 \in Int /\ ~(0 > n - 1) /\ (n - 1) - 0 + 1 = n
    BY <1>1
  <2> HIDE DEF n
  <2> QED
    BY <2>1, FS_Interval
<1> HIDE DEF rank, T
<1>7. rank \in Surjection(S, T)
  BY <1>5, <1>6, FS_Injection
<1>8. r \in T
  BY <1>1 DEF T
<1>9. PICK i \in S : rank[i] = r
  BY <1>7, <1>8 DEF Surjection
<1> QED
  BY <1>9 DEF rank

(* Carrying experts over, the router still names K different ones: of K    *)
(* fresh experts at most KEEP are among those carried.                     *)
LEMMA MergedIs ==
  ASSUME NEW prev \in Selections, NEW fresh \in Selections
  PROVE  Merged(prev, fresh) \in Selections
<1> DEFINE kept == SubSeq(prev, 1, KEEP)
           new == {i \in 1 .. K : ~Contains(kept, fresh[i])}
           next(n) == CHOOSE i \in new : Cardinality({h \in new : h < i}) = n - 1
           Ks == 1 .. K
           old == Ks \ new
<1>1. /\ K \in Nat \ {0} /\ KEEP \in Nat /\ KEEP <= K
      /\ prev \in [Ks -> Experts] /\ fresh \in [Ks -> Experts]
      /\ \A i, j \in Ks : prev[i] = prev[j] => i = j
      /\ \A i, j \in Ks : fresh[i] = fresh[j] => i = j
  BY RouterAssumption DEF Selections
<1>2. IsFiniteSet(Ks) /\ Cardinality(Ks) = K /\ IsFiniteSet(1 .. KEEP) /\ Cardinality(1 .. KEEP) = KEEP
  BY <1>1, FS_Interval
<1>3. Len(kept) = KEEP /\ \A i \in 1 .. KEEP : kept[i] = prev[i] /\ i \in Ks
  <2>1. prev \in Seq(Experts) /\ Len(prev) = K
    BY <1>1
  <2>2. Len(kept) = IF 1 <= KEEP THEN KEEP ELSE 0
    BY <1>1, <2>1
  <2>3. \A i \in 1 .. KEEP : kept[i] = prev[i]
    BY <1>1, <2>1
  <2> QED
    BY <1>1, <2>2, <2>3
<1>4. \A e : Contains(kept, e) <=> \E i \in 1 .. KEEP : prev[i] = e
  <2> HIDE DEF kept
  <2> QED
    BY <1>3 DEF Contains
<1> HIDE DEF kept
<1>5. new \in SUBSET Ks /\ old \in SUBSET Ks /\ IsFiniteSet(new) /\ IsFiniteSet(old)
  <2>1. new \in SUBSET Ks /\ old \in SUBSET Ks
    OBVIOUS
  <2> HIDE DEF new, old, Ks
  <2> QED
    BY <1>2, <2>1, FS_Subset
<1>6. Cardinality(old) <= KEEP
  <2> DEFINE J == 1 .. KEEP
             f == [i \in old |-> CHOOSE j \in J : prev[j] = fresh[i]]
  <2>1. \A i \in old : \E j \in J : prev[j] = fresh[i]
    BY <1>4
  <2>2. \A i \in old : f[i] \in J /\ prev[f[i]] = fresh[i]
    BY <2>1
  <2>3. f \in [old -> J]
    BY <2>2
  <2> HIDE DEF f
  <2>4. \A a, b \in old : f[a] = f[b] => a = b
    BY <1>1, <2>2
  <2> HIDE DEF J, old
  <2>5. IsFiniteSet(J) /\ Cardinality(J) = KEEP
    BY <1>2 DEF J
  <2> QED
    BY <2>3, <2>4, <2>5, AtMostAsMany
<1>7. Cardinality(new) >= K - KEEP /\ Cardinality(new) \in Nat
  <2>1. Ks = new \cup old /\ new \cap old = {}
    OBVIOUS
  <2> HIDE DEF new, old, Ks
  <2>2. Cardinality(new \cup old) = Cardinality(new) + Cardinality(old) - Cardinality({})
    BY <1>5, <2>1, FS_Union
  <2>3. Cardinality(new) \in Nat /\ Cardinality(old) \in Nat /\ Cardinality({}) = 0
    BY <1>5, FS_CardinalityType, FS_EmptySet
  <2> QED
    BY <1>1, <1>2, <1>6, <2>1, <2>2, <2>3
<1>8. \A n \in 1 .. K - KEEP : next(n) \in new /\ Cardinality(Below(new, next(n))) = n - 1
  <2> SUFFICES ASSUME NEW n \in 1 .. K - KEEP
               PROVE  next(n) \in new /\ Cardinality(Below(new, next(n))) = n - 1
    OBVIOUS
  <2>1. n - 1 \in Nat /\ n - 1 < Cardinality(new) /\ new \in SUBSET Int
    BY <1>1, <1>5, <1>7
  <2>2. \E i \in new : Cardinality(Below(new, i)) = n - 1
    <3> HIDE DEF new
    <3> QED
      BY <1>5, <2>1, RankExists
  <2>3. next(n) = CHOOSE i \in new : Cardinality(Below(new, i)) = n - 1
    BY DEF Below
  <2> HIDE DEF new, next
  <2> QED
    BY <2>2, <2>3
<1> DEFINE m == [i \in Ks |-> IF i <= KEEP THEN kept[i] ELSE fresh[next(i - KEEP)]]
<1>9. Merged(prev, fresh) = m
  BY DEF Merged, kept
<1>10. \A i \in new : i \in Ks /\ \A j \in 1 .. KEEP : prev[j] # fresh[i]
  BY <1>4
<1> HIDE DEF next, new
<1>11. \A i \in Ks : i > KEEP => /\ i - KEEP \in 1 .. K - KEEP
                                /\ m[i] = fresh[next(i - KEEP)] /\ next(i - KEEP) \in new
  BY <1>1, <1>8
<1>12. \A i \in Ks : i <= KEEP => m[i] = prev[i] /\ i \in 1 .. KEEP
  BY <1>1, <1>3
<1>13. \A i \in Ks : m[i] \in Experts
  <2> SUFFICES ASSUME NEW i \in Ks PROVE m[i] \in Experts
    OBVIOUS
  <2> HIDE DEF m
  <2>1. CASE i <= KEEP
    BY <1>1, <1>12, <2>1
  <2>2. CASE i > KEEP
    BY <1>1, <1>10, <1>11, <2>2
  <2> QED
    BY <1>1, <2>1, <2>2
<1>14. \A i, j \in Ks : m[i] = m[j] => i = j
  <2> SUFFICES ASSUME NEW i \in Ks, NEW j \in Ks, m[i] = m[j] PROVE i = j
    OBVIOUS
  <2> HIDE DEF m
  <2>1. CASE i <= KEEP /\ j <= KEEP
    BY <1>1, <1>12, <2>1
  <2>2. CASE (i <= KEEP /\ j > KEEP) \/ (i > KEEP /\ j <= KEEP)
    BY <1>10, <1>11, <1>12, <2>2
  <2>3. CASE i > KEEP /\ j > KEEP
    <3>1. next(i - KEEP) = next(j - KEEP)
      BY <1>1, <1>10, <1>11, <2>3
    <3>2. (i - KEEP) - 1 = (j - KEEP) - 1
      BY <1>8, <1>11, <2>3, <3>1
    <3> QED
      BY <1>1, <3>2
  <2> QED
    BY <1>1, <2>1, <2>2, <2>3
<1>15. m \in [Ks -> Experts]
  <2>1. m = [i \in Ks |-> m[i]]
    OBVIOUS
  <2> HIDE DEF m
  <2> QED
    BY <1>13, <2>1
<1> HIDE DEF m
<1> QED
  BY <1>9, <1>14, <1>15 DEF Selections

(* What is drawn is complete before a tool gets it.                        *)
DrawnInv ==
  /\ sel \in Seq([Layers -> Selections]) /\ Len(sel) <= TOKENS
  /\ job \notin {"draw", "gate"} => Len(sel) = TOKENS
  /\ packer # "none" => job = "pack"
  /\ out # << >> => job = "measure"

LEMMA DrawnInit == MCInit => DrawnInv
<1> SUFFICES ASSUME MCInit PROVE DrawnInv
  OBVIOUS
<1>1. sel = << >> /\ packer = "none" /\ out = << >> /\ (job = "draw" \/ job = "gate") /\ TOKENS \in Nat
  BY ExpertsAre DEF MCInit, LayoutIdle, MeasureIdle
<1> QED
  BY <1>1 DEF DrawnInv

LEMMA TokenIsDrawn ==
  ASSUME sel \in Seq([Layers -> Selections]), DrawToken
  PROVE  sel' \in Seq([Layers -> Selections]) /\ Len(sel') = Len(sel) + 1
<1>1. PICK fresh \in [Layers -> UNION {sample_topk(l) : l \in Layers}] :
        /\ \A l \in Layers : fresh[l] \in sample_topk(l)
        /\ sel' = Append(sel, IF sel = << >> THEN fresh
                              ELSE [l \in Layers |-> Merged(Last(sel)[l], fresh[l])])
  BY DEF DrawToken
<1>2. ASSUME NEW l \in Layers PROVE fresh[l] \in Selections
  <2> DEFINE q == fresh[l]
  <2>1. q \in Draws(l) /\ Distinct(q)
    BY <1>1 DEF sample_topk
  <2>2. Draws(l) \subseteq [1 .. K -> 0 .. E - 1]
    BY RouterAssumption DEF Layers
  <2>3. q \in [1 .. K -> Experts]
    BY <2>1, <2>2 DEF Experts
  <2> HIDE DEF q
  <2>4. \A i, j \in 1 .. K : q[i] = q[j] => i = j
    BY <2>1, <2>3 DEF Distinct
  <2>5. q \in Selections
    BY <2>3, <2>4 DEF Selections
  <2> QED
    BY <2>5 DEF q
<1> DEFINE token == IF sel = << >> THEN fresh ELSE [l \in Layers |-> Merged(Last(sel)[l], fresh[l])]
<1>3. token \in [Layers -> Selections]
  <2>1. CASE sel = << >>
    <3>1. token = fresh /\ fresh = [l \in Layers |-> fresh[l]]
      BY <2>1
    <3> HIDE DEF token
    <3> QED
      BY <1>2, <3>1
  <2>2. CASE sel # << >>
    <3>1. Last(sel) \in [Layers -> Selections]
      <4>1. Len(sel) \in Nat /\ Len(sel) # 0
        BY <2>2
      <4> QED
        BY <4>1 DEF Last
    <3>2. \A l \in Layers : Merged(Last(sel)[l], fresh[l]) \in Selections
      BY <1>2, <3>1, MergedIs
    <3> QED
      BY <2>2, <3>2
  <2> QED
    BY <2>1, <2>2
<1> HIDE DEF token
<1>4. sel' = Append(sel, token)
  BY <1>1 DEF token
<1> QED
  BY <1>3, <1>4

LEMMA DrawnStep == DrawnInv /\ [MCNext]_mcVars => DrawnInv'
<1> SUFFICES ASSUME DrawnInv, [MCNext]_mcVars PROVE DrawnInv'
  OBVIOUS
<1>1. CASE Draw
  <2>1. job = "draw" /\ job' = job /\ out' = out /\ packer' = packer /\ DrawToken /\ Len(sel) < TOKENS
    BY <1>1 DEF Draw, DrawToken, layoutVars
  <2>2. sel' \in Seq([Layers -> Selections]) /\ Len(sel') = Len(sel) + 1
    BY <2>1, TokenIsDrawn DEF DrawnInv
  <2>3. TOKENS \in Nat
    BY ExpertsAre
  <2> QED
    BY <2>1, <2>2, <2>3 DEF DrawnInv
<1>2. CASE Choose
  <2>1. job = "draw" /\ Len(sel) = TOKENS /\ sel' = sel
    BY <1>2 DEF Choose
  <2>2. packer = "none" /\ out = << >>
    BY <2>1 DEF DrawnInv
  <2>3. \/ job' = "replay" /\ UNCHANGED << layoutVars, out >>
        \/ job' = "pack" /\ UNCHANGED out
        \/ job' = "measure" /\ UNCHANGED << layoutVars, out >>
    BY <1>2 DEF Choose
  <2> QED
    BY <2>1, <2>2, <2>3 DEF DrawnInv, layoutVars
<1>3. CASE Replay
  BY <1>3 DEF Replay, DrawnInv, layoutVars
<1>4. CASE Pack
  <2>1. packer' = packer /\ sel' = sel /\ job' = job /\ out' = out
    BY <1>4 DEF Pack, pack_optimized, pack_roundrobin, pack_random, PackLayer
  <2> QED
    BY <2>1 DEF DrawnInv
<1>5. CASE Measure
  <2>1. job = "measure" /\ job' = job /\ sel' = sel /\ packer' = packer
    BY <1>5 DEF Measure, layoutVars
  <2> QED
    BY <2>1 DEF DrawnInv
<1>6. CASE UNCHANGED << job, toolVars >>
  BY <1>6 DEF DrawnInv, toolVars, layoutVars
<1> QED
  BY <1>1, <1>2, <1>3, <1>4, <1>5, <1>6 DEF MCNext, mcVars

LEMMA PackedIs ==
  ASSUME DrawnInv, LayoutInv, Packed
  PROVE  /\ TOKENS \in Nat \ {0} /\ n_ch \in Nat \ {0} /\ cap \in Nat /\ K \in Nat \ {0}
         /\ build_selection(TOKENS) = sel /\ sel \in [1 .. TOKENS -> [Layers -> Selections]]
         /\ layout \in [1 .. L -> Placements] /\ layout \in [1 .. L -> [Experts -> 0 .. n_ch - 1]]
<1>1. /\ TOKENS \in Nat \ {0} /\ K \in Nat \ {0} /\ E \in Nat
      /\ n_ch \in Nat \ {0} /\ sel \in Seq([Layers -> Selections])
      /\ Len(sel) = TOKENS /\ layout \in Seq(Placements) /\ Len(layout) = L
  BY ExpertsAre DEF DrawnInv, LayoutInv, Packed
<1>2. cap \in Nat
  BY <1>1, CapIs DEF cap
<1>3. sel \in [1 .. TOKENS -> [Layers -> Selections]] /\ layout \in [1 .. L -> Placements]
  BY <1>1
<1>4. build_selection(TOKENS) = sel
  <2>1. SubSeq(sel, 1, Len(sel)) = sel
    <3> DEFINE V == [Layers -> Selections]
    <3> HIDE DEF V
    <3>1. sel \in Seq(V)
      BY <1>1 DEF V
    <3> QED
      BY <3>1
  <2> QED
    BY <1>1, <2>1 DEF build_selection
<1>5. Placements \subseteq [Experts -> 0 .. n_ch - 1]
  BY DEF Placements
<1> QED
  BY <1>1, <1>2, <1>3, <1>4, <1>5

LEMMA CollisionsHold == DrawnInv /\ LayoutInv => CollisionsAreCounted
<1> SUFFICES ASSUME DrawnInv, LayoutInv, Packed
             PROVE  LET s == build_selection(TOKENS)
                        stats == coactivation(s)
                    IN  /\ SumFunction(Shared(stats)) = SumFunction(Meetings(s))
                        /\ SumFunction(load_balance(layout, stats, n_ch)) = measure(s, layout, n_ch).sum_reads
  BY DEF CollisionsAreCounted
<1>1. /\ TOKENS \in Nat \ {0} /\ n_ch \in Nat \ {0}
      /\ build_selection(TOKENS) = sel /\ sel \in [1 .. TOKENS -> [Layers -> Selections]]
      /\ layout \in [1 .. L -> [Experts -> 0 .. n_ch - 1]]
  BY PackedIs
<1>2. SumFunction(Shared(coactivation(sel))) = SumFunction(Meetings(sel))
  BY <1>1, SharedIs, MeetingsAre
<1>3. SumFunction(load_balance(layout, coactivation(sel), n_ch)) = K * Cardinality((DOMAIN sel) \X Layers)
  BY <1>1, TrafficIs
<1>4. measure(sel, layout, n_ch).sum_reads = K * Cardinality((DOMAIN sel) \X Layers)
  BY DEF measure
<1> QED
  BY <1>1, <1>2, <1>3, <1>4

LEMMA FewerThanShare ==
  ASSUME NEW k \in Nat \ {0}, NEW n \in Nat \ {0}, NEW w \in Nat, n * w <= k + n - 1,
         NEW m \in Nat \ {0}, m <= w - 1
  PROVE  m <= k /\ m * n < k
<1> DEFINE a == n * w
           b == m * n
           c == n * (w - 1)
<1>1. b <= c
  <2>1. m * n = n * m /\ n * m <= n * (w - 1)
    OBVIOUS
  <2> QED
    BY <2>1
<1>2. c = a - n /\ a \in Int /\ b \in Int /\ c \in Int /\ m <= b
  <2>1. n * (w - 1) = n * w - n /\ m <= m * n
    OBVIOUS
  <2> QED
    BY <2>1
<1>3. a <= k + n - 1
  OBVIOUS
<1> HIDE DEF a, b, c
<1>4. b <= k - 1 /\ m <= k
  BY <1>1, <1>2, <1>3
<1> QED
  BY <1>2, <1>4 DEF b

LEMMA CeilingHolds == DrawnInv /\ LayoutInv => BandwidthCeiling
<1> DEFINE s == build_selection(TOKENS)
           r == measure(s, layout, n_ch)
           Fs == (DOMAIN s) \X Layers
           rounds == [f \in Fs |-> Max(Range(Chans(s, layout, n_ch, f[1], f[2])))]
           Ks == 1 .. K
           H == [m \in Ks |-> m * r.hist[m]]
<1> SUFFICES ASSUME DrawnInv, LayoutInv, Packed
             PROVE  LET fewest == (K + n_ch - 1) \div n_ch
                    IN  /\ r.worst_max <= cap
                        /\ \A m \in 1 .. fewest - 1 : r.hist[m] = 0
                        /\ r.actual_rounds = SumFunction(H)
                        /\ r.actual_rounds * n_ch >= r.sum_reads
  BY DEF BandwidthCeiling
<1>1. /\ TOKENS \in Nat \ {0} /\ n_ch \in Nat \ {0} /\ cap \in Nat /\ K \in Nat \ {0}
      /\ s = sel /\ s \in [1 .. TOKENS -> [Layers -> Selections]]
      /\ layout \in [1 .. L -> Placements] /\ layout \in [1 .. L -> [Experts -> 0 .. n_ch - 1]]
  BY PackedIs
<1>2. /\ r.worst_max = Max(Range(rounds)) /\ r.actual_rounds = SumFunction(rounds)
      /\ r.sum_reads = K * Cardinality(Fs)
      /\ r.hist = [m \in Ks |-> Cardinality({f \in Fs : rounds[f] = m})]
  BY DEF measure
<1> HIDE DEF s, r
<1>3. IsFiniteSet(Fs) /\ Cardinality(Fs) \in Nat /\ Fs # {}
  BY <1>1, ReadsAre
<1>4. ASSUME NEW f \in Fs
      PROVE  rounds[f] \in Ks /\ rounds[f] <= cap /\ rounds[f] * n_ch >= K
  <2> DEFINE q == s[f[1]][f[2]]
             p == layout[f[2] + 1]
             chans == Chans(s, layout, n_ch, f[1], f[2])
  <2>1. f[1] \in 1 .. TOKENS /\ f[2] \in Layers /\ f[2] + 1 \in 1 .. L
    BY <1>1, LayersAre DEF Layers
  <2>2. q \in Selections /\ p \in Placements
    BY <1>1, <2>1
  <2>3. p \in [Experts -> 0 .. n_ch - 1] /\ \A ch \in 0 .. n_ch - 1 : Cardinality(On(p, ch)) <= cap
    BY <2>2 DEF Placements
  <2>4. chans = ReadsOn(q, p, n_ch)
    BY DEF Chans, ReadsOn, PlacesOn
  <2>5. rounds[f] = Max(Range(chans))
    OBVIOUS
  <2> HIDE DEF q, p, chans, rounds, Ks
  <2>6. Max(Range(chans)) \in 1 .. K /\ Max(Range(chans)) <= cap /\ Max(Range(chans)) * n_ch >= K
    BY <1>1, <2>2, <2>3, <2>4, FullestIs
  <2> QED
    BY <2>5, <2>6 DEF Ks
<1>5. rounds \in [Fs -> Nat] /\ rounds \in [Fs -> Ks]
  <2>1. rounds = [f \in Fs |-> rounds[f]]
    OBVIOUS
  <2>2. \A f \in Fs : rounds[f] \in Nat /\ rounds[f] \in Ks
    <3> HIDE DEF rounds, Fs
    <3> QED
      BY <1>1, <1>4
  <2> HIDE DEF rounds, Fs, Ks
  <2> QED
    BY <2>1, <2>2
<1> HIDE DEF rounds, Fs
<1>6. r.worst_max <= cap
  <2> DEFINE S == Range(rounds)
  <2>1. rounds \in [Fs -> S] /\ (\A v \in S : \E f \in Fs : rounds[f] = v) /\ S \subseteq Nat /\ S # {}
    BY <1>3, <1>5 DEF Range
  <2> HIDE DEF S
  <2>2. rounds \in Surjection(Fs, S)
    BY <2>1 DEF Surjection
  <2>3. IsFiniteSet(S)
    BY <1>3, <2>2, FS_Surjection
  <2>4. Max(S) \in S
    BY <2>1, <2>3, MaxIs
  <2>5. PICK f \in Fs : rounds[f] = Max(S)
    BY <2>1, <2>4
  <2> QED
    BY <1>2, <1>4, <2>5 DEF S
<1>7. ASSUME NEW m \in 1 .. (K + n_ch - 1) \div n_ch - 1 PROVE r.hist[m] = 0
  <2> DEFINE w == (K + n_ch - 1) \div n_ch
  <2>1. w \in Nat /\ n_ch * w <= K + n_ch - 1
    <3>1. \A k \in Nat \ {0}, n \in Nat \ {0} : /\ (k + n - 1) \div n \in Int
                                                /\ n * ((k + n - 1) \div n) <= k + n - 1
      OBVIOUS
    <3>2. w \in Int /\ n_ch * w <= K + n_ch - 1
      BY <1>1, <3>1
    <3>3. w \in Nat
      BY <1>1, CapIs
    <3> QED
      BY <3>2, <3>3
  <2>2. m \in Nat \ {0} /\ m <= w - 1
    BY <2>1
  <2> HIDE DEF w
  <2>3. m \in Ks /\ m * n_ch < K
    <3>1. m <= K /\ m * n_ch < K
      BY <1>1, <2>1, <2>2, FewerThanShare
    <3> QED
      BY <1>1, <2>2, <3>1
  <2>4. {f \in Fs : rounds[f] = m} = {}
    <3> SUFFICES ASSUME NEW f \in Fs, rounds[f] = m PROVE FALSE
      OBVIOUS
    <3>1. m * n_ch >= K /\ m * n_ch \in Int
      BY <1>1, <1>4, <2>2
    <3> QED
      BY <1>1, <2>3, <3>1
  <2> QED
    BY <1>2, <2>3, <2>4, FS_EmptySet
<1>8. SumFunction(rounds) = SumFunction(H)
  <2> DEFINE X == Cells(rounds, Fs)
             F == [c \in X |-> rounds[c[1]]]
  <2>1. IsFiniteSet(X) /\ SumFunction(rounds) = Cardinality(X)
    BY <1>3, <1>5, CellsAreFinite, TotalIs
  <2>2. \A c \in X : c[1] \in Fs /\ c[2] \in 1 .. rounds[c[1]] /\ c = << c[1], c[2] >>
    BY DEF Cells, Block
  <2>3. \A f \in Fs : \A j \in 1 .. rounds[f] : << f, j >> \in X
    BY DEF Cells, Block
  <2>4. F \in [X -> Ks]
    BY <1>5, <2>2
  <2>5. ASSUME NEW m \in Ks PROVE H[m] \in Nat /\ H[m] = Cardinality(On(F, m))
    <3> DEFINE A == {f \in Fs : rounds[f] = m}
               M == 1 .. m
    <3>1. A \in SUBSET Fs /\ m \in Nat
      BY <1>1
    <3>2. IsFiniteSet(A) /\ Cardinality(A) \in Nat
      <4> HIDE DEF A
      <4> QED
        BY <1>3, <3>1, FS_Subset, FS_CardinalityType
    <3>3. IsFiniteSet(M) /\ Cardinality(M) = m
      BY <3>1, FS_Interval
    <3>4. On(F, m) = A \X M
      <4>1. ASSUME NEW c \in On(F, m) PROVE c \in A \X M
        <5>1. c \in X /\ F[c] = m
          BY DEF On
        <5> HIDE DEF X
        <5>2. rounds[c[1]] = m /\ c[1] \in Fs /\ c[2] \in 1 .. m /\ c = << c[1], c[2] >>
          BY <2>2, <5>1
        <5> QED
          BY <5>2
      <4>2. ASSUME NEW f \in A, NEW j \in M PROVE << f, j >> \in On(F, m)
        <5>1. << f, j >> \in X
          BY <2>3
        <5> HIDE DEF X
        <5> QED
          BY <5>1 DEF On
      <4> QED
        BY <4>1, <4>2
    <3>5. H[m] = m * Cardinality(A)
      BY <1>2
    <3> HIDE DEF A, M, F, H
    <3>6. Cardinality(A \X M) = Cardinality(A) * Cardinality(M)
      BY <3>2, <3>3, FS_Product
    <3> QED
      BY <3>1, <3>2, <3>3, <3>4, <3>5, <3>6
  <2>6. IsFiniteSet(Ks)
    BY <1>1, FS_Interval
  <2>7. H \in [Ks -> Nat]
    <3>1. H = [m \in Ks |-> H[m]]
      OBVIOUS
    <3> HIDE DEF H, Ks
    <3> QED
      BY <2>5, <3>1
  <2> HIDE DEF X, F, H, Ks
  <2>8. SumFunction(H) = Cardinality(X)
    BY <2>1, <2>4, <2>5, <2>6, <2>7, SumOfParts DEF Splits
  <2> QED
    BY <2>1, <2>8
<1>9. SumFunction(rounds) * n_ch >= K * Cardinality(Fs)
  <2>1. \A f \in Fs : rounds[f] * n_ch >= K
    BY <1>4
  <2>2. n_ch \in Nat /\ K \in Nat
    BY <1>1
  <2> QED
    BY <1>3, <1>5, <2>1, <2>2, SumIsAtLeast
<1> HIDE DEF H
<1> QED
  BY <1>2, <1>6, <1>7, <1>8, <1>9

LEMMA LayoutIsDrawn == MCSpec => [](DrawnInv /\ LayoutInv)
<1>1. MCInit => DrawnInv /\ LayoutInv
  BY DrawnInit, LayoutInit
<1>2. DrawnInv /\ LayoutInv /\ [MCNext]_mcVars => DrawnInv' /\ LayoutInv'
  BY DrawnStep, LayoutStep
<1> QED
  BY <1>1, <1>2, PTL DEF MCSpec

(* The report on a layout (flash_layout) is sound for every number of      *)
(* experts, channels and tokens, for whatever the router draws.  What the  *)
(* packer minimises is what the measurement charges: the co-activation of  *)
(* experts on a common channel counts the pairs of reads that meet there,  *)
(* and the traffic of all channels is the reads made.  The rounds keep to  *)
(* the ceiling printed beside them: no fetch takes fewer than an even share *)
(* of its reads nor, in any layout, more than the cap, and the histogram   *)
(* adds up to the rounds.                                                  *)
THEOREM ReportIsSound == MCSpec => []MeasureIsSound
<1>1. DrawnInv /\ LayoutInv => MeasureIsSound
  BY CollisionsHold, CeilingHolds DEF MeasureIsSound
<1> QED
  BY <1>1, LayoutIsDrawn, PTL
===============================================================================
