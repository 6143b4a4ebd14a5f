------------------------------ MODULE LruCache ------------------------------
(***************************************************************************)
(* The textbook exact-LRU cache: a stack of resident experts, the most     *)
(* recently used first.  A demand for a resident expert moves it to the    *)
(* front and is a hit; any other demand is answered as a miss once the     *)
(* expert has been put in front, pushing the last one out when the cache   *)
(* is full.  A prefetch puts an expert in front without an answer.  The    *)
(* headers of expert_cache_ctrl.v and expert_cache_pf.v claim to be this.  *)
(***************************************************************************)
EXTENDS SequencesExt

CONSTANT Expert

VARIABLES
  size,     \* experts it holds; never changes
  stack,    \* resident experts, most recently used first
  answer    \* the demand answered by the last step: <<expert, hit>>, or <<>>

vars == <<size, stack, answer>>

Init == stack = << >> /\ answer = << >>

InFront(e, rest) == SubSeq(<<e>> \o rest, 1,
                           IF Len(rest) = size THEN size ELSE Len(rest) + 1)

Hit(e) ==
  /\ \E i \in DOMAIN stack : stack[i] = e /\ stack' = <<e>> \o RemoveAt(stack, i)
  /\ answer' = <<e, TRUE>>

Miss(e) ==
  /\ ~Contains(stack, e)
  /\ stack' = InFront(e, stack)
  /\ answer' = <<e, FALSE>>

Prefetch(e) ==
  /\ ~Contains(stack, e)
  /\ stack' = InFront(e, stack)
  /\ answer' = << >>

Quiet == answer' = << >> /\ UNCHANGED stack
Reset == stack' = << >> /\ answer' = << >>

Next ==
  /\ \/ \E e \in Expert : Hit(e) \/ Miss(e) \/ Prefetch(e)
     \/ Quiet
     \/ Reset
  /\ UNCHANGED size

Spec == Init /\ [][Next]_vars
=============================================================================
