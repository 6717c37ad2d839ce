------------------------------- MODULE ListQueue -------------------------------
(***************************************************************************)
(* What utils/linked_list.c promises its callers: every list is a sequence *)
(* of distinct nodes, and every call is one operation on that sequence.    *)
(* There are no pointers here.  LinkedListOps is shown to implement this   *)
(* module.                                                                 *)
(***************************************************************************)
EXTENDS Integers, Sequences, SequencesExt

CONSTANTS Lists, Nodes

VARIABLE q      \* q[l] is the content of list l, first node first

Init == q = [l \in Lists |-> << >>]

Free(n) == \A l \in Lists : n \notin Range(q[l])

PushHead(l, n) == Free(n) /\ q' = [q EXCEPT ![l] = <<n>> \o @]

PushTail(l, n) == Free(n) /\ q' = [q EXCEPT ![l] = Append(@, n)]

Delete(l, n) ==
  /\ n \in Range(q[l])
  /\ q' = [q EXCEPT ![l] = SelectSeq(@, LAMBDA m : m # n)]

PopFirst(l) == q[l] # << >> /\ q' = [q EXCEPT ![l] = Tail(@)]

PopLast(l) == q[l] # << >> /\ q' = [q EXCEPT ![l] = Front(@)]

Join(src, dst) ==
  /\ src # dst
  /\ q' = [q EXCEPT ![dst] = @ \o q[src], ![src] = << >>]

Next ==
  \/ \E l \in Lists, n \in Nodes : PushHead(l, n) \/ PushTail(l, n) \/ Delete(l, n)
  \/ \E l \in Lists : PopFirst(l) \/ PopLast(l)
  \/ \E src, dst \in Lists : Join(src, dst)

Spec == Init /\ [][Next]_q
===============================================================================
