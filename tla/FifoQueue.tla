------------------------------ MODULE FifoQueue ------------------------------
(***************************************************************************)
(* A bounded FIFO between two independent parties: what a dual-clock FIFO  *)
(* promises.  A push and a pop may happen in one step; clearing drops what *)
(* is queued.                                                              *)
(***************************************************************************)
EXTENDS Naturals, Sequences

CONSTANTS Word, Capacity, NoWord

VARIABLES
  queue,    \* words pushed and not yet popped
  popped    \* the word the last step popped, or NoWord

vars == <<queue, popped>>

Init == queue = << >> /\ popped = NoWord

Push(word) ==
  /\ Len(queue) < Capacity
  /\ queue' = Append(queue, word) /\ popped' = NoWord

Pop == queue # << >> /\ queue' = Tail(queue) /\ popped' = Head(queue)

PushPop(word) ==
  /\ queue # << >> /\ Len(queue) < Capacity
  /\ queue' = Append(Tail(queue), word) /\ popped' = Head(queue)

Quiet == popped' = NoWord /\ UNCHANGED queue
Clear == queue' = << >> /\ popped' = NoWord

Next ==
  \/ \E word \in Word : Push(word) \/ PushPop(word)
  \/ Pop \/ Quiet \/ Clear

Spec == Init /\ [][Next]_vars
=============================================================================
