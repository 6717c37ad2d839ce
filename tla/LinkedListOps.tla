----------------------------- MODULE LinkedListOps -----------------------------
(***************************************************************************)
(* The callers of utils/linked_list.c as a state machine: any sequence of  *)
(* legal calls on a few lists that share their nodes.  A call is legal     *)
(* when the caller's own bookkeeping `on` says so: a node is added while   *)
(* it is on no list and removed from the list it is on.  The links a node  *)
(* keeps from its last list are still in it when it is added again.        *)
(***************************************************************************)
EXTENDS LinkedList, FiniteSets

VARIABLES
  heap,   \* the pointer fields
  on      \* on[n]: the list the callers have put n on, or NULL

vars == <<heap, on>>

Init == heap = EmptyHeap /\ on = [n \in Nodes |-> NULL]

DoAddHead(l, n) ==
  /\ on[n] = NULL
  /\ heap' = AddHead(heap, l, n)
  /\ on' = [on EXCEPT ![n] = l]

DoAddTail(l, n) ==
  /\ on[n] = NULL
  /\ heap' = AddTail(heap, l, n)
  /\ on' = [on EXCEPT ![n] = l]

DoRemove(l, n) ==
  /\ on[n] = l
  /\ heap' = Remove(heap, l, n)
  /\ on' = [on EXCEPT ![n] = NULL]

(* The caller learns from the result which node it took off.               *)
Taken(n) == IF n = NULL THEN on ELSE [on EXCEPT ![n] = NULL]

DoGetFirst(l) == heap' = GetFirst(heap, l) /\ on' = Taken(First(heap, l))

DoGetLast(l) == heap' = GetLast(heap, l) /\ on' = Taken(Last(heap, l))

DoConcat(src, dst) ==
  /\ src # dst
  /\ heap' = Concat(heap, src, dst)
  /\ on' = [n \in Nodes |-> IF on[n] = src THEN dst ELSE on[n]]

Next ==
  \/ \E l \in Lists, n \in Nodes :
        DoAddHead(l, n) \/ DoAddTail(l, n) \/ DoRemove(l, n)
  \/ \E l \in Lists : DoGetFirst(l) \/ DoGetLast(l)
  \/ \E src, dst \in Lists : DoConcat(src, dst)

Spec == Init /\ [][Next]_vars

-------------------------------------------------------------------------------
Members(l) == {n \in Nodes : on[n] = l}

Content(l) == Forward(heap, l, Cardinality(Nodes) + 1)

(* The pointer code implements the sequences its callers think of: read    *)
(* from the head, each list goes through the steps of ListQueue.           *)
Queue == INSTANCE ListQueue WITH q <- [l \in Lists |-> Content(l)]
ImplementsQueue == Queue!Spec
===============================================================================
