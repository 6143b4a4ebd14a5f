----------------------------- MODULE BlockCopy -----------------------------
(***************************************************************************)
(* What the power-up copy engine promises: started with a list of          *)
(* segments, it writes the words of every segment to their destinations,   *)
(* each word once and in order, and raises done only after the last one.   *)
(***************************************************************************)
EXTENDS Naturals

CONSTANTS
  Jobs          \* the sets of writes it may be given: records with the place
                \* [seg, off] of a word, its address and the word

VARIABLES
  running,
  todo,         \* the writes still to be done
  wrote,        \* the write of the last step, or <<>>
  done

vars == <<running, todo, wrote, done>>

Init == ~running /\ todo = {} /\ wrote = << >> /\ ~done

Begin ==
  /\ ~running
  /\ running' = TRUE /\ todo' \in Jobs /\ wrote' = << >> /\ done' = FALSE

(* The words of a segment are written in order, segment after segment.     *)
Before(v, w) == v.seg < w.seg \/ (v.seg = w.seg /\ v.off < w.off)

Write ==
  /\ running
  /\ \E w \in todo : /\ \A v \in todo \ {w} : Before(w, v)
                     /\ wrote' = <<w>> /\ todo' = todo \ {w}
  /\ UNCHANGED <<running, done>>

Pause == wrote' = << >> /\ UNCHANGED <<running, todo, done>>

Finish ==
  /\ running /\ todo = {}
  /\ running' = FALSE /\ done' = TRUE /\ wrote' = << >>
  /\ UNCHANGED todo

Reset == running' = FALSE /\ todo' = {} /\ wrote' = << >> /\ done' = FALSE

Next == Begin \/ Write \/ Pause \/ Finish \/ Reset

Spec == Init /\ [][Next]_vars
=============================================================================
