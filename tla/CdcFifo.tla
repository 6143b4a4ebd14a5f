------------------------------- MODULE CdcFifo -------------------------------
(***************************************************************************)
(* src/cdc_async_fifo.v: the FIFO between two unrelated clocks, each       *)
(* domain under the reset_sync.v that its users give it.  Only the gray    *)
(* pointers cross.  A step is an edge of one clock or of both at once; in  *)
(* the latter case a flop that samples the other domain resolves each      *)
(* changing bit either way.  A gray code is the set of its one bits.       *)
(***************************************************************************)
EXTENDS Naturals, Sequences

CONSTANTS
  ADDR_W,      \* depth is 2^ADDR_W
  STAGES,      \* flops of each reset synchronizer
  Word,
  ZeroWord,    \* rd_data out of reset
  Unwritten    \* a RAM word before its first write

ASSUME FifoAssumption ==
  /\ ADDR_W \in Nat \ {0, 1}
  /\ STAGES \in Nat \ {0}
  /\ ZeroWord \in Word /\ Unwritten \notin Word

VARIABLES
  w,           \* wclk registers: bin, gray, q1 and q2 (rgray_wq1, rgray_wq2), full
  r,           \* rclk registers: bin, gray, q1 and q2 (wgray_rq1, wgray_rq2),
               \* empty, data
  mem,
  arst,        \* external: the reset request both synchronizers see
  w_sync, r_sync,  \* ones in each synchronizer chain
  reading      \* observation: the last step popped a word

vars == <<w, r, mem, arst, w_sync, r_sync, reading>>

DEPTH == 2^ADDR_W
Ptr == 0 .. 2 * DEPTH - 1
Bits == 0 .. ADDR_W
Step(ptr, move) == (ptr + IF move THEN 1 ELSE 0) % (2 * DEPTH)

bit(n, i) == (n \div 2^i) % 2
GrayOf_binary(n) == {i \in Bits : bit(n, i) = 1}  \* mutation: the binary pointer crosses
GrayOf(n) == {i \in Bits : bit(n, i) # bit(n, i + 1)}

(* What a flop may capture while the value it samples moves.               *)
Caught(old, new) == {g \in SUBSET (old \cup new) : old \cap new \subseteq g}

(* A lap apart: the top two bits of the gray code differ, the others agree.*)
full_next(gray, q2) ==
  \A i \in Bits : (i \in gray) = IF i >= ADDR_W - 1 THEN i \notin q2 ELSE i \in q2
empty_swapped(gray, q2) == ~full_next(gray, q2)   \* mutation: the comparison of full
empty_next(gray, q2) == gray = q2

ResetW == [bin |-> 0, gray |-> {}, q1 |-> {}, q2 |-> {}, full |-> FALSE]
ResetR == [bin |-> 0, gray |-> {}, q1 |-> {}, q2 |-> {}, empty |-> TRUE,
           data |-> ZeroWord]

Init ==
  /\ w = ResetW /\ r = ResetR
  /\ mem = [a \in 0 .. DEPTH - 1 |-> Unwritten]
  /\ arst = TRUE /\ w_sync = 0 /\ r_sync = 0
  /\ reading = FALSE

wrst == w_sync < STAGES
rrst == r_sync < STAGES
do_write(wr_en) == wr_en /\ ~w.full
do_read(rd_en) == rd_en /\ ~r.empty

(* The registers after an edge that samples caught from the other domain.  *)
WriteRegs(wr_en, caught) ==
  LET bin == Step(w.bin, do_write(wr_en))
  IN IF wrst THEN ResetW
     ELSE [bin |-> bin, gray |-> GrayOf(bin), q1 |-> caught, q2 |-> w.q1,
           full |-> full_next(GrayOf(bin), w.q2)]

ReadRegs(rd_en, caught) ==
  LET bin == Step(r.bin, do_read(rd_en))
  IN IF rrst THEN ResetR
     ELSE [bin |-> bin, gray |-> GrayOf(bin), q1 |-> caught, q2 |-> r.q1,
           empty |-> empty_next(GrayOf(bin), r.q2),
           data |-> IF do_read(rd_en) THEN mem[r.bin % DEPTH] ELSE r.data]

(* The RAM is written whether or not the write domain is in reset.         *)
Store(wr_en, word) ==
  mem' = IF do_write(wr_en) THEN [mem EXCEPT ![w.bin % DEPTH] = word] ELSE mem

(* One edge of a reset synchronizer; its clear is asynchronous.            *)
Released(sync) == IF arst THEN 0 ELSE IF sync < STAGES THEN sync + 1 ELSE sync

WriteClock(wr_en, word) ==
  /\ w' = WriteRegs(wr_en, r.gray)
  /\ Store(wr_en, word)
  /\ w_sync' = Released(w_sync)
  /\ reading' = FALSE
  /\ UNCHANGED <<r, arst, r_sync>>

ReadClock(rd_en) ==
  /\ r' = ReadRegs(rd_en, w.gray)
  /\ r_sync' = Released(r_sync)
  /\ reading' = (~rrst /\ do_read(rd_en))
  /\ UNCHANGED <<w, mem, arst, w_sync>>

BothClocks(wr_en, word, rd_en) ==
  /\ \E caught \in Caught(r.gray, ReadRegs(rd_en, w.gray).gray) :
       w' = WriteRegs(wr_en, caught)
  /\ \E caught \in Caught(w.gray, WriteRegs(wr_en, r.gray).gray) :
       r' = ReadRegs(rd_en, caught)
  /\ Store(wr_en, word)
  /\ w_sync' = Released(w_sync) /\ r_sync' = Released(r_sync)
  /\ reading' = (~rrst /\ do_read(rd_en))
  /\ UNCHANGED arst

(* A reset request clears both chains at once.  It lasts until both        *)
(* domains have had an edge: a shorter pulse may release one domain while  *)
(* the pointer of the other still holds its old value.                     *)
AssertReset ==
  /\ arst' = TRUE /\ w_sync' = 0 /\ r_sync' = 0
  /\ reading' = FALSE
  /\ UNCHANGED <<w, r, mem>>

ReleaseReset ==
  /\ arst /\ w = ResetW /\ r = ResetR
  /\ arst' = FALSE
  /\ reading' = FALSE
  /\ UNCHANGED <<w, r, mem, w_sync, r_sync>>

(* A word is presented only with a write.                                  *)
Presented(wr_en) == IF wr_en THEN Word ELSE {ZeroWord}

Writing == \E wr_en \in BOOLEAN : \E word \in Presented(wr_en) : WriteClock(wr_en, word)
Reading == \E rd_en \in BOOLEAN : ReadClock(rd_en)
Both == \E wr_en, rd_en \in BOOLEAN : \E word \in Presented(wr_en) :
          BothClocks(wr_en, word, rd_en)

Next == Writing \/ Reading \/ Both \/ AssertReset \/ ReleaseReset

Spec == Init /\ [][Next]_vars

(* Both clocks keep ticking, with or without a word to write or a wish to  *)
(* read: an edge that would move a register even so comes in the end.  A   *)
(* reset request is withdrawn.                                             *)
IdleWrite == WriteClock(FALSE, ZeroWord)
IdleRead == ReadClock(FALSE)
FairSpec == Spec /\ ([]<>~ENABLED <<IdleWrite>>_vars \/ []<><<Writing \/ Both>>_vars)
                 /\ ([]<>~ENABLED <<IdleRead>>_vars \/ []<><<Reading \/ Both>>_vars)
                 /\ WF_vars(ReleaseReset)
-----------------------------------------------------------------------------
TypeOK ==
  /\ w \in [bin : Ptr, gray : SUBSET Bits, q1 : SUBSET Bits, q2 : SUBSET Bits,
            full : BOOLEAN]
  /\ r \in [bin : Ptr, gray : SUBSET Bits, q1 : SUBSET Bits, q2 : SUBSET Bits,
            empty : BOOLEAN, data : Word]
  /\ mem \in [0 .. DEPTH - 1 -> Word \cup {Unwritten}]
  /\ arst \in BOOLEAN /\ w_sync \in 0 .. STAGES /\ r_sync \in 0 .. STAGES
  /\ reading \in BOOLEAN

Ahead(a, b) == (b + 2 * DEPTH - a) % (2 * DEPTH)
PtrOf(gray) == CHOOSE n \in Ptr : GrayOf(n) = gray

(* What each domain knows of the other is a pointer the other has had, in  *)
(* order and less than a lap old, so that latency can only make the FIFO   *)
(* look fuller to the writer and emptier to the reader.                    *)
CapturedLags ==
  ~arst =>
    /\ \A g \in {w.q1, w.q2, r.q1, r.q2} : \E n \in Ptr : GrayOf(n) = g
    /\ LET behind == Ahead(PtrOf(w.q2), PtrOf(w.q1)) + Ahead(PtrOf(w.q1), r.bin)
           queued == Ahead(PtrOf(r.q2), PtrOf(r.q1)) + Ahead(PtrOf(r.q1), w.bin)
       IN /\ behind + Ahead(r.bin, w.bin) <= DEPTH
          /\ queued + Ahead(r.bin, PtrOf(r.q2)) = Ahead(r.bin, w.bin)

queue == IF arst THEN << >>
         ELSE [i \in 1 .. Ahead(r.bin, w.bin) |-> mem[(r.bin + i - 1) % DEPTH]]

(* The FIFO is a queue of DEPTH words: none is lost, repeated, reordered   *)
(* or overwritten, at any clock ratio and whatever the flops resolve to.   *)
Fifo == INSTANCE FifoQueue
          WITH Capacity <- DEPTH, NoWord <- Unwritten,
               popped <- IF reading THEN r.data ELSE Unwritten
ImplementsFifo == Fifo!Spec

(* A word that stays queued becomes visible to the reader, and a writer is *)
(* let on again once the reader has made room.                             *)
NoStuckFlags ==
  /\ (queue # << >>) ~> (~r.empty \/ arst)
  /\ (Len(queue) < DEPTH) ~> (~w.full \/ Len(queue) = DEPTH)

(* The flags are late, never wrong: what they compare is a pointer of the  *)
(* other side, less than a lap old, and they catch up.                     *)
FlagsCatchUp == [](TypeOK /\ CapturedLags) /\ NoStuckFlags
=============================================================================
