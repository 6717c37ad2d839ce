--------------------------------- MODULE MCCpu ---------------------------------
EXTENDS Cpu, TLC

CONSTANTS b, a1, a2, a3, other, list1, e1

BootLists == [l \in Lists |-> IF l = "eoi" THEN <<e1>> ELSE <<list1>>]

(* Bound: calls, and changes of the lists, are followed where every start  *)
(* has succeeded.  Of the starts only up matters to them.                  *)
Begun ==
  \/ \E k \in Calls : sender[k].pc # "new"
  \/ \E c \in Cpus : disp[c].pc # "thread"
  \/ gone # {}

CallsAfterStarts == Begun => ~late /\ ~hit /\ bspIdle /\ tried = counted
===============================================================================
