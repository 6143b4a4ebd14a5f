------------------------------ MODULE SpecParams ------------------------------
(***************************************************************************)
(* What the two speculative-decode loops, src/spec_decode_top.v and        *)
(* src/spec_batched_top.v, take as given: the tokens, the positions and    *)
(* the main model, an unknown function of a token and its position.        *)
(***************************************************************************)
EXTENDS Naturals

CONSTANTS
  Token,
  ZeroToken,    \* the token id the registers reset to
  NoToken,      \* observation: a cycle without a beat
  POSW,         \* bits of a position
  Models,       \* the models considered: functions [Token \X Pos -> Token]
  NumPasses,    \* pass counts a run may be asked for
  DRAFT_K       \* drafts a batched pass verifies

\* That a power of two is a positive number is stated for the proofs, which
\* know no induction on the exponent.
ASSUME ParamsAssumption ==
  /\ ZeroToken \in Token /\ NoToken \notin Token
  /\ POSW \in Nat /\ 2^POSW \in Nat \ {0}
  /\ NumPasses \subseteq Nat \ {0}

\* The shortest pass modelled takes five cycles from feed to feed, so that
\* only up to four queued beats drain before the next one.
ASSUME DraftsAssumption == DRAFT_K \in 2 .. 4

Pos == 0 .. 2^POSW - 1
After(p, n) == (p + n) % 2^POSW
===============================================================================
