------------------------------ MODULE LinkedList ------------------------------
(***************************************************************************)
(* utils/linked_list.c: the intrusive doubly linked list every queue of    *)
(* the kernel is made of.  A heap h holds the pointer fields of all the    *)
(* nodes and all the list heads:                                           *)
(*                                                                         *)
(*   h.next[n], h.prev[n]   ln->next, ln->prev of a struct list_node       *)
(*   h.head[l], h.tail[l]   lh->list.next, lh->list.prev of a list_head    *)
(*   h.count[l]             lh->count, a size_t: counted modulo CountMod   *)
(*                                                                         *)
(* Every operator is the body of the function of that name, one pointer    *)
(* store after the other; none checks membership because the code does not *)
(* either.  A store through NULL faults in the kernel: Store drops it, and *)
(* no property speaks of a heap after one.                                 *)
(***************************************************************************)
EXTENDS Integers, Sequences

CONSTANTS
  Lists,      \* the list heads
  Nodes,      \* the list nodes
  NULL,       \* the null pointer
  CountMod    \* lh->count wraps at CountMod (2^64 in the code)

ASSUME ListAssumption ==
  /\ NULL \notin Nodes
  /\ CountMod \in Nat \ {0}

Pointer == Nodes \cup {NULL}

Heap == [next  : [Nodes -> Pointer], prev : [Nodes -> Pointer],
         head  : [Lists -> Pointer], tail : [Lists -> Pointer],
         count : [Lists -> 0 .. CountMod - 1]]

(* Zeroed nodes and list heads, as kcalloc, .bss and linked_list_init      *)
(* leave them.                                                             *)
EmptyHeap == [next  |-> [n \in Nodes |-> NULL], prev |-> [n \in Nodes |-> NULL],
              head  |-> [l \in Lists |-> NULL], tail |-> [l \in Lists |-> NULL],
              count |-> [l \in Lists |-> 0]]

(* *p = v for one field of the node p points at.                           *)
Store(field, p, v) == [q \in DOMAIN field |-> IF q = p THEN v ELSE field[q]]

(* The field of the node p points at; a load through NULL yields NULL.     *)
Load(field, p) == IF p = NULL THEN NULL ELSE field[p]

Grown(h, l, k) == Store(h.count, l, (h.count[l] + k) % CountMod)

First(h, l) == h.head[l]
Last(h, l)  == h.tail[l]

-------------------------------------------------------------------------------
(* Insertion.                                                              *)

(* The first node of an empty list.                                        *)
Alone(h, l, n) ==
  [next |-> Store(h.next, n, NULL), prev  |-> Store(h.prev, n, NULL),
   head |-> Store(h.head, l, n),    tail  |-> Store(h.tail, l, n),
   count |-> Grown(h, l, 1)]

AddHead(h, l, n) ==
  IF h.head[l] = NULL /\ h.tail[l] = NULL
  THEN Alone(h, l, n)
  ELSE [h EXCEPT !.next  = Store(@, n, h.head[l]),
                 !.prev  = Store(Store(@, h.head[l], n), n, NULL),
                 !.head  = Store(@, l, n),
                 !.count = Grown(h, l, 1)]

AddTail(h, l, n) ==
  IF h.head[l] = NULL /\ h.tail[l] = NULL
  THEN Alone(h, l, n)
  ELSE [h EXCEPT !.next  = Store(Store(@, n, NULL), h.tail[l], n),
                 !.prev  = Store(@, n, h.tail[l]),
                 !.tail  = Store(@, l, n),
                 !.count = Grown(h, l, 1)]

(* The guard of line 108 compares with the new node itself, so the head is *)
(* left alone, and the node that used to precede bn is not relinked.       *)
AddBefore(h, l, bn, n) ==
  [h EXCEPT !.head  = Store(@, l, IF h.head[l] = n THEN n ELSE h.head[l]),
            !.prev  = Store(Store(@, n, h.prev[bn]), bn, n),
            !.next  = Store(@, n, bn),
            !.count = Grown(h, l, 1)]

-------------------------------------------------------------------------------
(* Removal.  The links of the removed node keep their values.              *)

Remove(h, l, n) ==
  LET p == h.prev[n]
      next1 == IF p = NULL THEN h.next ELSE Store(h.next, p, h.next[n])
      s == next1[n]
  IN  [h EXCEPT !.next  = next1,
                !.head  = IF p = NULL THEN Store(@, l, h.next[n]) ELSE @,
                !.tail  = IF s = NULL THEN Store(@, l, p) ELSE @,
                !.prev  = IF s = NULL THEN @ ELSE Store(@, s, p),
                !.count = Grown(h, l, -1)]

(* Detach the first (last) node when there is one; the caller gets it from *)
(* First (Last) of the heap before.                                        *)
GetFirst(h, l) ==
  LET n == h.head[l]
  IN  IF n = NULL THEN h
      ELSE [h EXCEPT !.prev  = Store(@, h.next[n], NULL),
                     !.tail  = IF h.next[n] = NULL THEN Store(@, l, NULL) ELSE @,
                     !.head  = Store(@, l, h.next[n]),
                     !.count = Grown(h, l, -1)]

GetLast(h, l) ==
  LET n == h.tail[l]
  IN  IF n = NULL THEN h
      ELSE [h EXCEPT !.next  = Store(@, h.prev[n], NULL),
                     !.head  = IF h.prev[n] = NULL THEN Store(@, l, NULL) ELSE @,
                     !.tail  = Store(@, l, h.prev[n]),
                     !.count = Grown(h, l, -1)]

(* Faulty: the old tail is not linked to the first node of src (line 190). *)
Concat_Unlinked(h, src, dst) ==
  IF h.count[src] = 0 THEN h
  ELSE [h EXCEPT !.head = [@ EXCEPT ![dst] = IF h.count[dst] = 0 THEN h.head[src] ELSE @, ![src] = NULL],
                 !.tail = [@ EXCEPT ![dst] = h.tail[src], ![src] = NULL],
                 !.prev = Store(@, h.head[src], h.tail[dst]),
                 !.count = [@ EXCEPT ![dst] = @ + h.count[src], ![src] = 0]]

(* linked_list_concat: the nodes of src move behind those of dst.          *)
Concat(h, src, dst) ==
  LET moved ==
        IF h.count[dst] = 0
        THEN [h EXCEPT !.head[dst] = h.head[src], !.tail[dst] = h.tail[src],
                       !.count[dst] = h.count[src]]
        ELSE [h EXCEPT !.next      = Store(@, h.tail[dst], h.head[src]),
                       !.prev      = Store(@, h.head[src], h.tail[dst]),
                       !.tail[dst] = h.tail[src],
                       !.count     = Grown(h, dst, h.count[src])]
  IN  IF h.count[src] = 0 THEN h
      ELSE [moved EXCEPT !.head[src] = NULL, !.tail[src] = NULL, !.count[src] = 0]

-------------------------------------------------------------------------------
(* Traversal.  A walk from the head (tail) along next (prev) as a sequence *)
(* of pointers, followed for at most `bound` nodes; the `while(ln)` loops  *)
(* of the kernel end when the walk does.                                   *)
Walk(start, field, bound) ==
  LET at[i \in 1 .. bound + 1] ==
        IF i = 1 THEN start ELSE Load(field, at[i - 1])
      reached == {i \in 1 .. bound : at[i] # NULL}
  IN  [i \in reached |-> at[i]]

Forward(h, l, bound)  == Walk(h.head[l], h.next, bound)
Backward(h, l, bound) == Walk(h.tail[l], h.prev, bound)

(* linked_list_find_node: 0 when the walk from the head meets the node.    *)
FindNode(h, l, n, bound) ==
  \E i \in DOMAIN Forward(h, l, bound) : Forward(h, l, bound)[i] = n

(* The list read in both directions and through its count is the sequence  *)
(* s; one more step than s is long is walked so that a cycle shows.        *)
IsList(h, l, s) ==
  /\ Forward(h, l, Len(s) + 1) = s
  /\ Len(Backward(h, l, Len(s) + 1)) = Len(s)
  /\ \A i \in 1 .. Len(s) : Backward(h, l, Len(s) + 1)[i] = s[Len(s) + 1 - i]
  /\ h.count[l] = Len(s)
===============================================================================
