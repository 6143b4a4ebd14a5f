--------------------------- MODULE ExpertDirectory ---------------------------
(***************************************************************************)
(* The directory both expert-weight caches keep (expert_cache_ctrl.v and   *)
(* expert_cache_pf.v): which expert each HBM slot holds, the recency ranks,*)
(* the associative lookup and the LRU victim.                              *)
(***************************************************************************)
EXTENDS Naturals, FiniteSets

CONSTANTS
  SLOTS,        \* HBM slots
  Expert,       \* expert ids; the id registers reset to 0
  None          \* no request, no hint

ASSUME DirectoryAssumption ==
  /\ SLOTS \in Nat \ {0}
  /\ Expert \subseteq Nat /\ 0 \in Expert
  /\ None \notin Expert

VARIABLES
  valid,        \* valid_arr
  tag,          \* tag_arr
  rank          \* recency position of each slot, 0 the most recent

Slot == 0 .. SLOTS - 1

DirInit ==
  /\ valid = [s \in Slot |-> FALSE]
  /\ tag = [s \in Slot |-> 0]
  /\ rank = [s \in Slot |-> s]

HoldsAnyTag(s, e) == tag[s] = e        \* mutation: the valid bit is not read
Holds(s, e) == valid[s] /\ tag[s] = e
Resident(e) == \E s \in Slot : Holds(s, e)

(* The last match of the scan over the slots wins.                         *)
lookup_slot(e) == CHOOSE s \in Slot :
                    Holds(s, e) /\ \A t \in Slot : Holds(t, e) => t <= s

Empty == {s \in Slot : ~valid[s]}
invalid_slot == CHOOSE s \in Empty : \A t \in Empty : s <= t
lru_slot == CHOOSE s \in Slot : rank[s] = SLOTS - 1

(* Move slot s to the front of the recency order.                          *)
ToFront_kept(s) == rank                \* mutation: a touch leaves the order alone
ToFront(s) == [t \in Slot |-> CASE t = s -> 0
                                [] rank[t] < rank[s] -> rank[t] + 1
                                [] OTHER -> rank[t]]

Install(s, e) ==
  /\ valid' = [valid EXCEPT ![s] = TRUE]
  /\ tag' = [tag EXCEPT ![s] = e]
  /\ rank' = ToFront(s)

DirReset ==
  /\ valid' = [s \in Slot |-> FALSE]
  /\ tag' = [s \in Slot |-> 0]
  /\ rank' = [s \in Slot |-> s]

DirTypeOK ==
  /\ valid \in [Slot -> BOOLEAN]
  /\ tag \in [Slot -> Expert]
  /\ rank \in [Slot -> Slot]

(* The resident experts from the most to the least recently used.          *)
Stack == [i \in 1 .. Cardinality(Slot \ Empty) |->
            tag[CHOOSE s \in Slot : rank[s] = i - 1]]
=============================================================================
