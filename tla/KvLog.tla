------------------------------- MODULE KvLog -------------------------------
(***************************************************************************)
(* What the latent-KV cache promises attention: it is the log of all the   *)
(* rows appended so far, and a gather returns the row at the position it   *)
(* asked for, at once or after a while, one such delayed gather at a time. *)
(* Where a row is kept does not show.                                      *)
(***************************************************************************)
EXTENDS Naturals, Sequences

CONSTANTS Row, NoGather

VARIABLES
  log,      \* the rows appended, position 0 first
  owed,     \* the position of the gather not yet answered, or NoGather
  answer    \* the position answered by the last step and its row, or <<>>

vars == <<log, owed, answer>>

Init == log = << >> /\ owed = NoGather /\ answer = << >>

Position == 0 .. Len(log) - 1
RowAt(p) == <<p, log[p + 1]>>

Quiet == answer' = << >> /\ UNCHANGED owed
Serve == owed = NoGather /\ UNCHANGED owed /\ \E p \in Position : answer' = RowAt(p)
Delay == owed = NoGather /\ owed' \in Position /\ answer' = << >>
Deliver == owed # NoGather /\ owed' = NoGather /\ answer' = RowAt(owed)

AppendRow == \E new \in {<< >>} \cup {<<r>> : r \in Row} : log' = log \o new

Reset == log' = << >> /\ owed' = NoGather /\ answer' = << >>

Next == (AppendRow /\ (Quiet \/ Serve \/ Delay \/ Deliver)) \/ Reset

Spec == Init /\ [][Next]_vars
=============================================================================
