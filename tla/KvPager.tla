------------------------------ MODULE KvPager ------------------------------
(***************************************************************************)
(* src/kv_cache_pager.v with ECC = 0: the latent-KV cache.  The newest     *)
(* RESIDENT rows sit in a ring; a gather of an older row is fetched from   *)
(* Flash while appends go on.  One step is one clock edge.  Attention      *)
(* gathers only positions already appended, and may present a gather while *)
(* the pager is busy, which is then dropped.                               *)
(***************************************************************************)
EXTENDS Integers, Sequences

CONSTANTS
  RESIDENT,     \* rows the ring holds, a power of two
  POSW,         \* bits of a logical position
  Row,          \* contents of a row
  ZeroRow,      \* the all-zero row the ring is reset to
  NoGather,
  APPENDS       \* bound: rows appended between two resets

RPTRW == IF RESIDENT = 1 THEN 1 ELSE CHOOSE w \in 1 .. RESIDENT : 2^w = RESIDENT

ASSUME PagerAssumption ==
  /\ RESIDENT \in Nat \ {0}
  /\ RESIDENT = 1 \/ \E k \in 1 .. RESIDENT : RESIDENT = 2^k
  /\ POSW \in Nat /\ POSW >= RPTRW
  /\ ZeroRow \in Row
  /\ NoGather \notin Nat
  /\ APPENDS \in Nat

VARIABLES
  kv_ring, kv_count,
  kv_row_valid, kv_row_out, kv_busy,
  kv_flash_req, kv_flash_idx, kv_g_state,
  kv_log,       \* external: every row since the reset, as Flash keeps them
  kv_asked,     \* observation: position of the gather not yet answered
  kv_got        \* observation: position the last row_valid answered

kvVars == <<kv_ring, kv_count, kv_row_valid, kv_row_out, kv_busy,
            kv_flash_req, kv_flash_idx, kv_g_state, kv_log, kv_asked, kv_got>>

KvSlot == 0 .. RESIDENT - 1
Pos == 0 .. 2^POSW - 1

(* Truncation to the width of a position.                                  *)
Trunc(n) == n % 2^POSW

overflowed == kv_count > Trunc(RESIDENT)
resident_lo == IF overflowed THEN kv_count - Trunc(RESIDENT) ELSE 0

g_resident_any(idx) == idx < kv_count             \* mutation: no lower bound
g_resident(idx) == idx < kv_count /\ idx >= resident_lo

(* The ring slot of a position.  A slot beyond the array reads anything    *)
(* and keeps nothing.                                                      *)
slot_halved(p) == p \div 2                        \* mutation: the wrong bits
slot_of(p) == p % 2^RPTRW
ReadRing(idx) == IF slot_of(idx) \in KvSlot THEN {kv_ring[slot_of(idx)]} ELSE Row

KvInit ==
  /\ kv_ring = [s \in KvSlot |-> ZeroRow] /\ kv_count = 0
  /\ kv_row_valid = FALSE /\ kv_row_out = ZeroRow /\ kv_busy = FALSE
  /\ kv_flash_req = FALSE /\ kv_flash_idx = 0 /\ kv_g_state = "IDLE"
  /\ kv_log = << >> /\ kv_asked = NoGather /\ kv_got = NoGather

(* The append port works whatever the gather path is doing.                *)
AppendRow(new) ==
  /\ kv_log' = kv_log \o new
  /\ IF new = << >>
       THEN UNCHANGED <<kv_ring, kv_count>>
       ELSE /\ kv_ring' = [s \in KvSlot |-> IF s = slot_of(kv_count) THEN Head(new)
                                                                     ELSE kv_ring[s]]
            /\ kv_count' = Trunc(kv_count + 1)

GatherResident(idx) ==
  /\ kv_g_state = "IDLE" /\ ~kv_busy /\ g_resident(idx)
  /\ kv_row_out' \in ReadRing(idx) /\ kv_row_valid' = TRUE
  /\ kv_got' = idx
  /\ UNCHANGED <<kv_busy, kv_flash_req, kv_flash_idx, kv_g_state, kv_asked>>

GatherCold(idx) ==
  /\ kv_g_state = "IDLE" /\ ~kv_busy /\ ~g_resident(idx)
  /\ kv_flash_req' = TRUE /\ kv_flash_idx' = idx /\ kv_busy' = TRUE
  /\ kv_g_state' = "FLASH"
  /\ kv_row_valid' = FALSE
  /\ kv_asked' = idx
  /\ UNCHANGED <<kv_row_out, kv_got>>

(* No gather is presented, or one is presented to a pager that is busy.    *)
NoGatherTaken ==
  /\ kv_row_valid' = FALSE
  /\ UNCHANGED <<kv_row_out, kv_busy, kv_flash_req, kv_flash_idx, kv_g_state, kv_asked,
                 kv_got>>

(* The Flash returns the row of the position flash_idx holds now.          *)
FlashDone ==
  /\ kv_g_state = "FLASH"
  /\ kv_flash_req' = FALSE
  /\ kv_row_out' = kv_log[kv_flash_idx + 1] /\ kv_row_valid' = TRUE
  /\ kv_busy' = FALSE
  /\ kv_g_state' = "IDLE"
  /\ kv_got' = kv_asked /\ kv_asked' = NoGather
  /\ UNCHANGED kv_flash_idx

Appended == {p \in Pos : p < Len(kv_log)}
Gather == \/ \E idx \in Appended : GatherResident(idx) \/ GatherCold(idx)
          \/ NoGatherTaken
          \/ FlashDone

Appends == {<< >>} \cup IF Len(kv_log) < APPENDS THEN {<<r>> : r \in Row} ELSE {}
KvCycle == Gather /\ \E new \in Appends : AppendRow(new)

KvReset ==
  /\ kv_ring' = [s \in KvSlot |-> ZeroRow] /\ kv_count' = 0
  /\ kv_row_valid' = FALSE /\ kv_row_out' = ZeroRow /\ kv_busy' = FALSE
  /\ kv_flash_req' = FALSE /\ kv_flash_idx' = 0 /\ kv_g_state' = "IDLE"
  /\ kv_log' = << >> /\ kv_asked' = NoGather /\ kv_got' = NoGather

KvNext == KvCycle \/ KvReset

KvSpec == KvInit /\ [][KvNext]_kvVars
-----------------------------------------------------------------------------
KvTypeOK ==
  /\ kv_ring \in [KvSlot -> Row] /\ kv_count \in Pos /\ resident_lo \in Pos
  /\ kv_row_valid \in BOOLEAN /\ kv_row_out \in Row /\ kv_busy \in BOOLEAN
  /\ kv_flash_req \in BOOLEAN /\ kv_flash_idx \in Pos
  /\ kv_g_state \in {"IDLE", "FLASH"}
  /\ kv_log \in Seq(Row)
  /\ kv_asked \in Pos \cup {NoGather} /\ kv_got \in Pos \cup {NoGather}

(* The resident positions are exactly the last RESIDENT appended, and the  *)
(* ring holds their rows (kv_cache_pager.v, APPEND).                       *)
ResidentIsLastRows ==
  \A p \in Appended :
    /\ g_resident(p) <=> p >= Len(kv_log) - RESIDENT
    /\ g_resident(p) => ReadRing(p) = {kv_log[p + 1]}

(* The Flash is asked only for rows that have left the ring, also while    *)
(* appends move the window under a fetch in flight: nothing but evicted    *)
(* rows need ever be on Flash.                                             *)
FlashAskedForSpilled == kv_flash_req => overflowed /\ kv_flash_idx < resident_lo

(* The pager's window is right: the resident positions are the last rows   *)
(* appended, and the Flash is asked only for rows that have left the ring. *)
WindowIsExact == KvTypeOK /\ ResidentIsLastRows /\ FlashAskedForSpilled

(* Every accepted gather is answered with the row appended at its          *)
(* position, although rows are overwritten, appended and fetched meanwhile.*)
KvCache == INSTANCE KvLog
             WITH log <- kv_log, owed <- kv_asked,
                  answer <- IF kv_row_valid THEN <<kv_got, kv_row_out>> ELSE << >>
ImplementsKvLog == KvCache!Spec
=============================================================================
