---------------------------- MODULE GreedyStream ----------------------------
(***************************************************************************)
(* The token stream speculative decoding must not change.  Each token is   *)
(* the model's choice for the token before it, at a position.  Greedy      *)
(* decoding evaluates every token at its own position; a batched pass      *)
(* evaluates up to Window consecutive tokens at the position of the first. *)
(* With Window = 1 the two are the same.                                   *)
(***************************************************************************)
EXTENDS Naturals

CONSTANTS Token, POSW, NoToken, Window

VARIABLES
  argmax,   \* the model: its choice for each <<token, position>>
  last,     \* the token the next one follows, before the first: the prompt
  pos,      \* the position of last
  base,     \* the position the current pass evaluates at
  out       \* the token of the last step, or NoToken

vars == <<argmax, last, pos, base, out>>

Pos == 0 .. 2^POSW - 1
After(p, n) == (p + n) % 2^POSW

Init == out = NoToken

(* A run begins with a prompt token at a position.                         *)
Prompt ==
  /\ last' \in Token /\ pos' \in Pos /\ base' \in Pos
  /\ out' = NoToken
  /\ UNCHANGED argmax

Emit ==
  /\ base' \in {base, pos}
  /\ \E n \in 0 .. Window - 1 : pos = After(base', n)
  /\ out' = argmax[<<last, base'>>]
  /\ last' = out'
  /\ pos' = After(pos, 1)
  /\ UNCHANGED argmax

Quiet == out' = NoToken /\ UNCHANGED <<argmax, last, pos, base>>

Next == Prompt \/ Emit \/ Quiet

Spec == Init /\ [][Next]_vars
=============================================================================
