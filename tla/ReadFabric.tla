----------------------------- MODULE ReadFabric -----------------------------
(***************************************************************************)
(* What a banked read fabric promises its requester, whatever the memory   *)
(* behind it: every accepted read is answered exactly once, with the word  *)
(* of the address it asked for and with its own tag, and the reads of one  *)
(* channel are answered in the order they were accepted.  Nothing is       *)
(* promised about the order across channels.  FlashXbar and Ddr5Xbar both  *)
(* implement this module.                                                  *)
(***************************************************************************)
EXTENDS Naturals, Sequences

CONSTANTS
  Channel,      \* the channels (dies) behind the fabric
  Payload       \* what one read brings back: its tag and its word

VARIABLES
  owed,         \* owed[c]: the answers channel c still owes, oldest first
  answer        \* the answer the last step handed to the requester, or <<>>

vars == <<owed, answer>>

Init ==
  /\ owed = [c \in Channel |-> << >>]
  /\ answer = << >>

(* One cycle: at most one read is accepted (new) by the channel it is      *)
(* banked to, and at most one channel hands over its oldest answer.        *)
Quiet(in, new) ==
  /\ owed' = [owed EXCEPT ![in] = @ \o new]
  /\ answer' = << >>

Answer(in, new, out) ==
  /\ owed[out] # << >>
  /\ owed' = [c \in Channel |->
                (IF c = out THEN Tail(owed[c]) ELSE owed[c])
                  \o (IF c = in THEN new ELSE << >>)]
  /\ answer' = <<Head(owed[out])>>

(* A reset of the die drops every read in flight.                          *)
Reset ==
  /\ owed' = [c \in Channel |-> << >>]
  /\ answer' = << >>

Next ==
  \/ \E in \in Channel, new \in {<< >>} \cup {<<p>> : p \in Payload} :
       \/ Quiet(in, new)
       \/ \E out \in Channel : Answer(in, new, out)
  \/ Reset

Spec == Init /\ [][Next]_vars
=============================================================================
