---------------------------- MODULE MCFlashStreams ----------------------------
(***************************************************************************)
(* The two clients that stream words out of Flash, one per behaviour: the  *)
(* boot loader, or the KV pager with registers of its own.                 *)
(***************************************************************************)
EXTENDS BootLoader, KvPager

VARIABLE job

BootDoes(A) == job = "boot" /\ A /\ UNCHANGED << job, kvVars >>
PagerDoes(A) == job = "pager" /\ A /\ UNCHANGED << job, vars >>
allVars == << job, vars, kvVars >>

MCInit == job \in {"boot", "pager"} /\ Init /\ KvInit
MCSpec ==
  /\ MCInit
  /\ [][BootDoes(Next) \/ PagerDoes(KvNext)]_allVars
  /\ WF_allVars(BootDoes(Running)) /\ WF_allVars(BootDoes(Issue))
  /\ WF_allVars(BootDoes(Return)) /\ WF_allVars(BootDoes(Retire))

(* An empty segment, a short one, and one that wraps past the last address *)
(* and is longer than the FIFO.                                            *)
MCSegment == {[fbase |-> 0, dbase |-> 0, len |-> 0],
              [fbase |-> 1, dbase |-> 4, len |-> 1],
              [fbase |-> 6, dbase |-> 0, len |-> 3]}
===============================================================================
