----------------------------- MODULE BootLoader -----------------------------
(***************************************************************************)
(* src/boot_loader.v: the power-up DMA that copies the resident segments   *)
(* from Flash to DDR5.  Reads are issued ahead of the writes, up to BURST  *)
(* at a time; the returned words wait in a FIFO without their addresses,   *)
(* which a second cursor over the same segments reconstructs.  One step is *)
(* one clock edge.  The Flash answers in order.                            *)
(***************************************************************************)
EXTENDS Naturals, Sequences, FiniteSets

CONSTANTS
  SEG_MAX,      \* segments in a descriptor
  BURST,        \* depth of the FIFO
  ADDR_W,       \* width of a word address
  Segment,      \* segments the caller describes: fbase, dbase, len
  Unwritten     \* content of a FIFO slot no word was ever stored in

NoSegment == [fbase |-> 0, dbase |-> 0, len |-> 0]

ASSUME LoaderAssumption ==
  /\ SEG_MAX \in Nat \ {0}
  /\ BURST \in Nat \ {0}
  /\ ADDR_W \in Nat
  /\ Segment \subseteq [fbase : Nat, dbase : Nat, len : Nat]
  /\ NoSegment \in Segment

VARIABLES
  busy, done, words_done,
  seg_q, ncount_q,          \* the latched descriptor (fbase_q, dbase_q, len_q)
  rseg, roff, wseg, woff,   \* cursor of the next read and of the next write
  fifo_mem, head, tail,
  occ, fcnt,                \* words issued, words returned, not yet written
  flight,                   \* external: addresses the Flash is reading
  wrote                     \* observation: the write of the last edge, or <<>>

cursors == <<rseg, roff, wseg, woff>>
vars == <<busy, done, words_done, seg_q, ncount_q, cursors, fifo_mem, head,
          tail, occ, fcnt, flight, wrote>>

Addr == 0 .. 2^ADDR_W - 1
Slot == 0 .. BURST - 1
Index == 0 .. SEG_MAX - 1

Init ==
  /\ busy = FALSE /\ done = FALSE /\ words_done = 0
  /\ seg_q = [i \in Index |-> NoSegment] /\ ncount_q = 0
  /\ rseg = 0 /\ roff = 0 /\ wseg = 0 /\ woff = 0
  /\ fifo_mem = [s \in Slot |-> Unwritten] /\ head = 0 /\ tail = 0
  /\ occ = 0 /\ fcnt = 0
  /\ flight = << >> /\ wrote = << >>

read_active == busy /\ rseg < ncount_q /\ seg_q[rseg].len # 0
write_active == busy /\ wseg < ncount_q /\ seg_q[wseg].len # 0

flash_req == read_active /\ occ < BURST
flash_addr == (seg_q[rseg].fbase + roff) % 2^ADDR_W
ddr_we == write_active /\ fcnt # 0
ddr_addr == (seg_q[wseg].dbase + woff) % 2^ADDR_W

(* A cursor over the segments: the next word, or the next segment after    *)
(* the last word of this one.                                              *)
SegOver_late(seg, off) == off = seg_q[seg].len            \* mutation: one too far
SegOver(seg, off) == off = seg_q[seg].len - 1

read_skip_none == FALSE                   \* mutation: reads wait on an empty segment
read_skip == ~read_active /\ rseg < ncount_q
write_skip == ~write_active /\ wseg < ncount_q

all_written == wseg = ncount_q

NextSlot(s) == IF s = BURST - 1 THEN 0 ELSE s + 1
Bit(b) == IF b THEN 1 ELSE 0

occ_next_issue_wins(issue, write) ==      \* mutation: a write at that edge is lost
  IF issue THEN occ + 1 ELSE occ - Bit(write)
occ_next(issue, write) == occ + Bit(issue) - Bit(write)

Start(segs, n) ==
  /\ ~busy
  /\ busy' = TRUE /\ done' = FALSE /\ words_done' = 0
  /\ seg_q' = segs /\ ncount_q' = n
  /\ rseg' = 0 /\ roff' = 0 /\ wseg' = 0 /\ woff' = 0
  /\ head' = 0 /\ tail' = 0 /\ occ' = 0 /\ fcnt' = 0
  /\ wrote' = << >>
  /\ UNCHANGED <<fifo_mem, flight>>

Idle == ~busy /\ wrote' = << >> /\ UNCHANGED <<busy, done, words_done, seg_q,
          ncount_q, cursors, fifo_mem, head, tail, occ, fcnt, flight>>

(* One cycle of the copy.                                                  *)
Copy(flash_ready, flash_rvalid, ddr_ready) ==
  LET issue == flash_req /\ flash_ready
      write == ddr_we /\ ddr_ready
      push == flash_rvalid
  IN
  /\ busy
  /\ fifo_mem' = IF push THEN [fifo_mem EXCEPT ![tail] = Head(flight)] ELSE fifo_mem
  /\ tail' = IF push THEN NextSlot(tail) ELSE tail
  /\ head' = IF write THEN NextSlot(head) ELSE head
  /\ occ' = occ_next(issue, write)
  /\ fcnt' = fcnt + Bit(push) - Bit(write)
  /\ words_done' = words_done + Bit(write)
  /\ rseg' = IF (issue /\ SegOver(rseg, roff)) \/ read_skip THEN rseg + 1 ELSE rseg
  /\ roff' = IF (issue /\ SegOver(rseg, roff)) \/ read_skip THEN 0
             ELSE roff + Bit(issue)
  /\ wseg' = IF (write /\ SegOver(wseg, woff)) \/ write_skip THEN wseg + 1 ELSE wseg
  /\ woff' = IF (write /\ SegOver(wseg, woff)) \/ write_skip THEN 0
             ELSE woff + Bit(write)
  /\ busy' = ~all_written
  /\ done' = (all_written \/ done)
  /\ flight' = (IF push THEN Tail(flight) ELSE flight)
                 \o (IF issue THEN <<flash_addr>> ELSE << >>)
  /\ wrote' = IF write THEN <<[seg |-> wseg, off |-> woff,
                               addr |-> ddr_addr, word |-> fifo_mem[head]]>>
                       ELSE << >>
  /\ UNCHANGED <<seg_q, ncount_q>>

(* The caller presents a legal descriptor; the Flash returns a word only   *)
(* when it has a read in hand.                                             *)
Descriptors == {d \in [Index -> Segment] \X (0 .. SEG_MAX) :
                  \A i \in Index : i >= d[2] => d[1][i] = NoSegment}
Returns == IF flight = << >> THEN {FALSE} ELSE BOOLEAN

Clock == \/ \E d \in Descriptors : Start(d[1], d[2])
         \/ Idle
         \/ \E flash_ready, ddr_ready \in BOOLEAN, flash_rvalid \in Returns :
              Copy(flash_ready, flash_rvalid, ddr_ready)

(* The power-on reset of the package, which also cancels the Flash reads.  *)
Reset ==
  /\ busy' = FALSE /\ done' = FALSE /\ words_done' = 0
  /\ seg_q' = [i \in Index |-> NoSegment] /\ ncount_q' = 0
  /\ rseg' = 0 /\ roff' = 0 /\ wseg' = 0 /\ woff' = 0
  /\ head' = 0 /\ tail' = 0 /\ occ' = 0 /\ fcnt' = 0
  /\ flight' = << >> /\ wrote' = << >>
  /\ UNCHANGED fifo_mem

Next == Clock \/ Reset

Spec == Init /\ [][Next]_vars

(* The clock runs; the Flash goes on taking and answering reads, and the   *)
(* DDR5 goes on taking writes.                                             *)
Running == \E flash_ready, ddr_ready \in BOOLEAN, flash_rvalid \in Returns :
             Copy(flash_ready, flash_rvalid, ddr_ready)
Issue == flash_req /\ \E ddr_ready \in BOOLEAN, flash_rvalid \in Returns :
           Copy(TRUE, flash_rvalid, ddr_ready)
Return == flight # << >> /\ \E flash_ready, ddr_ready \in BOOLEAN :
            Copy(flash_ready, TRUE, ddr_ready)
Retire == ddr_we /\ \E flash_ready \in BOOLEAN, flash_rvalid \in Returns :
            Copy(flash_ready, flash_rvalid, TRUE)

FairSpec == /\ Spec
            /\ WF_vars(Running) /\ WF_vars(Issue) /\ WF_vars(Return) /\ WF_vars(Retire)
-----------------------------------------------------------------------------
(* The reserved slots are exactly the reads the Flash holds and the words  *)
(* waiting, so a returned word always finds a free slot although the push  *)
(* tests nothing.                                                          *)
OccupancyCounts == occ = Len(flight) + fcnt

(* When the copy is over nothing is left in the pipeline: no word of it    *)
(* can arrive in the next copy, and none is still unwritten at done.       *)
QuietWhenIdle == ~busy => flight = << >> /\ fcnt = 0 /\ rseg = wseg

(* The words of a descriptor, each named by its Flash address, with the    *)
(* place and the address it goes to.                                       *)
Words(segs, n) ==
  UNION {{[seg |-> i, off |-> o,
           addr |-> (segs[i].dbase + o) % 2^ADDR_W,
           word |-> (segs[i].fbase + o) % 2^ADDR_W] : o \in 0 .. segs[i].len - 1} :
         i \in 0 .. n - 1}

(* The words a cursor has passed, and those the write cursor has not.      *)
Passed(segs, n, seg, off) ==
  {w \in Words(segs, n) : w.seg < seg \/ (w.seg = seg /\ w.off < off)}
Written == Passed(seg_q, ncount_q, wseg, woff)
Remaining == IF ~busy THEN {} ELSE Words(seg_q, ncount_q) \ Written

(* words_done counts exactly the words in DDR5, and done means all of them *)
(* (docs/FORMAL.md, boot_loader; boot_loader_fv.v B_TOTAL).                *)
ProgressIsExact ==
  /\ busy => words_done = Cardinality(Written)
  /\ done => words_done = Cardinality(Words(seg_q, ncount_q))

(* The pipeline is exact: no slot is used unreserved, nothing is left in   *)
(* it when a copy is over, and words_done tells how far it got.            *)
PipelineIsExact == OccupancyCounts /\ QuietWhenIdle /\ ProgressIsExact

(* Each word of each segment is written once, in order, to its address,    *)
(* and done rises after the last, whatever the Flash latency, the DDR5     *)
(* back-pressure and the empty segments do to the two cursors.             *)
Copier == INSTANCE BlockCopy
            WITH Jobs <- {Words(d[1], d[2]) : d \in Descriptors},
                 running <- busy, todo <- Remaining
ImplementsBlockCopy == Copier!Spec

(* A copy that has begun completes.                                        *)
BootCompletes == busy ~> ~busy
=============================================================================
