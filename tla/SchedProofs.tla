------------------------------ MODULE SchedProofs ------------------------------
(***************************************************************************)
(* For any number of units and threads, through every tangle the run       *)
(* queues get into: the scheduler's variables keep their types, and a      *)
(* thread only ever runs on the unit it was pinned to.  And until there is *)
(* a tangle, every run queue is a list of exactly the threads that should  *)
(* be on it.                                                               *)
(*                                                                         *)
(* Early wakes put a thread on its queue twice, so no claim that the       *)
(* queues are lists survives them.  What does survive is that no pointer   *)
(* ever leads from one unit's queue to a thread of another unit: the       *)
(* queues may be cyclic or lose their members, but they do not mix.        *)
(*                                                                         *)
(* The lemmas about linked_list.c, of which the mutex makes use too, say   *)
(* what its insertions and its removal do to a list that is well formed    *)
(* and read as a set of nodes.                                             *)
(***************************************************************************)
EXTENDS Sched, SequenceTheorems, FunctionTheorems, FiniteSetTheorems, WellFoundedInduction, TLAPS

(* A set of naturals has a least member: its intervals are well-founded    *)
(* under inclusion.                                                        *)
LEMMA LeastNat ==
  ASSUME NEW S \in SUBSET Nat, S # {}
  PROVE  \E i \in S : \A j \in S : i <= j
<1> DEFINE F == {1 .. n : n \in S}
<1>1. F \subseteq FiniteSubsetsOf(Nat)
  <2>1. ASSUME NEW n \in S PROVE 1 .. n \in FiniteSubsetsOf(Nat)
    <3>1. n \in Nat OBVIOUS
    <3>2. IsFiniteSet(1 .. n) BY <3>1, FS_Interval
    <3> QED BY <3>1, <3>2 DEF FiniteSubsetsOf
  <2> QED BY <2>1
<1>2. F # {} OBVIOUS
<1>3. PICK A \in F : \A B \in F : <<B, A>> \notin StrictSubsetOrdering(Nat)
  <2> HIDE DEF F
  <2>1. IsWellFoundedOn(StrictSubsetOrdering(Nat), FiniteSubsetsOf(Nat))
    BY FS_StrictSubsetOrderingWellFounded
  <2> QED BY <2>1, <1>1, <1>2, WFMin
<1>4. PICK i \in S : A = 1 .. i OBVIOUS
<1>5. ASSUME NEW j \in S, j < i PROVE FALSE
  <2>1. i \in Nat /\ j \in Nat OBVIOUS
  <2>2. 1 .. j \in F OBVIOUS
  <2>3. 1 .. j \subseteq 1 .. i /\ i \in 1 .. i /\ i \notin 1 .. j BY <2>1, <1>5
  <2>4. <<1 .. j, A>> \in StrictSubsetOrdering(Nat) BY <2>1, <2>3, <1>4 DEF StrictSubsetOrdering
  <2> QED BY <2>4, <1>3, <2>2
<1> QED BY <1>5

-------------------------------------------------------------------------------
(* The nodes q[1] .. q[n], linked both ways, are the list l of h.          *)
Holds(h, l, q, n) ==
  /\ n \in Nat /\ q \in [1 .. n -> Nodes]
  /\ \A i, j \in 1 .. n : q[i] = q[j] => i = j
  /\ h.head[l] = IF n = 0 THEN NULL ELSE q[1]
  /\ h.tail[l] = IF n = 0 THEN NULL ELSE q[n]
  /\ \A i \in 1 .. n : h.next[q[i]] = IF i = n THEN NULL ELSE q[i + 1]
  /\ \A i \in 1 .. n : h.prev[q[i]] = IF i = 1 THEN NULL ELSE q[i - 1]
  /\ h.count[l] = n

On(q, n) == {q[i] : i \in 1 .. n}

(* The list l of h is well formed and holds S.                             *)
ListOf(h, l, S) == \E n, q : Holds(h, l, q, n) /\ S = On(q, n)

LEMMA SmallMod ==
  ASSUME NEW a \in Nat, NEW m \in Nat \ {0}, a < m
  PROVE  a % m = a
OBVIOUS

LEMMA ListSize ==
  ASSUME NEW h, NEW l, NEW q, NEW n, Holds(h, l, q, n)
  PROVE  /\ IsFiniteSet(On(q, n)) /\ Cardinality(On(q, n)) = n
         /\ On(q, n) \subseteq Nodes /\ n < CountMod
<1> USE SchedAssumption, ListAssumption
<1>1. n \in Nat /\ q \in [1 .. n -> Nodes] /\ \A i, j \in 1 .. n : q[i] = q[j] => i = j
  BY DEF Holds
<1>2. IsFiniteSet(1 .. n) /\ Cardinality(1 .. n) = n BY <1>1, FS_Interval
<1>3. On(q, n) \subseteq Nodes BY <1>1 DEF On
<1>4. q \in Surjection(1 .. n, On(q, n)) BY <1>1 DEF On, Surjection, Range
<1>5. q \in Injection(1 .. n, On(q, n)) BY <1>1, <1>4 DEF Injection, IsInjective, Surjection
<1>6. IsFiniteSet(On(q, n)) /\ Cardinality(On(q, n)) = n
  BY <1>2, <1>4, <1>5, FS_Surjection
<1>7. n <= Cardinality(Threads) BY <1>3, <1>6, FS_Subset
<1>8. Cardinality(Threads) \in Nat BY FS_CardinalityType
<1> QED BY <1>1, <1>3, <1>6, <1>7, <1>8

(* A list of which a step touches neither the head nor a node.             *)
LEMMA ListKept ==
  ASSUME NEW h, NEW g, NEW l, NEW S, ListOf(h, l, S),
         g.head[l] = h.head[l], g.tail[l] = h.tail[l], g.count[l] = h.count[l],
         \A x \in S : g.next[x] = h.next[x] /\ g.prev[x] = h.prev[x]
  PROVE  ListOf(g, l, S)
<1>1. PICK n, q : Holds(h, l, q, n) /\ S = On(q, n) BY DEF ListOf
<1>2. \A i \in 1 .. n : q[i] \in S BY <1>1 DEF On
<1>3. Holds(g, l, q, n) BY <1>1, <1>2 DEF Holds
<1> QED BY <1>1, <1>3 DEF ListOf

LEMMA EmptyList ==
  ASSUME NEW l \in Lists PROVE ListOf(EmptyHeap, l, {}) /\ EmptyHeap \in Heap
<1> USE ListAssumption
<1>1. 0 \in 0 .. CountMod - 1 OBVIOUS
<1>2. EmptyHeap \in Heap BY <1>1 DEF EmptyHeap, Heap, Pointer
<1>3. <<>> \in [1 .. 0 -> Nodes] /\ On(<<>>, 0) = {} BY DEF On
<1>4. Holds(EmptyHeap, l, <<>>, 0) BY <1>3 DEF Holds, EmptyHeap
<1> QED BY <1>2, <1>3, <1>4 DEF ListOf

(* linked_list_add_head of a node that is not on the list.                 *)
LEMMA AddHeadList ==
  ASSUME NEW h \in Heap, NEW l \in Lists, NEW S, ListOf(h, l, S), NEW t \in Nodes \ S
  PROVE  /\ AddHead(h, l, t) \in Heap
         /\ ListOf(AddHead(h, l, t), l, S \cup {t})
         /\ \A k \in Lists \ {l} : \A T : ListOf(h, k, T) /\ T \cap (S \cup {t}) = {}
               => ListOf(AddHead(h, l, t), k, T)
<1> USE ListAssumption, SchedAssumption
<1> DEFINE g == AddHead(h, l, t)
<1>1. PICK n, q : Holds(h, l, q, n) /\ S = On(q, n) BY DEF ListOf
<1>2. /\ n \in Nat /\ q \in [1 .. n -> Nodes]
      /\ \A i, j \in 1 .. n : q[i] = q[j] => i = j
      /\ h.head[l] = IF n = 0 THEN NULL ELSE q[1]
      /\ h.tail[l] = IF n = 0 THEN NULL ELSE q[n]
      /\ h.count[l] = n
  BY <1>1 DEF Holds
<1>3. \A i \in 1 .. n : /\ h.next[q[i]] = IF i = n THEN NULL ELSE q[i + 1]
                        /\ h.prev[q[i]] = IF i = 1 THEN NULL ELSE q[i - 1]
                        /\ q[i] # NULL /\ q[i] # t /\ q[i] \in S
  BY <1>1, <1>2 DEF Holds, On
<1>4. /\ h.next \in [Nodes -> Pointer] /\ h.prev \in [Nodes -> Pointer]
      /\ h.head \in [Lists -> Pointer] /\ h.tail \in [Lists -> Pointer]
      /\ h.count \in [Lists -> 0 .. CountMod - 1]
      /\ NULL \notin Nodes
  BY DEF Heap
<1>5. n + 1 < CountMod
  <2>1. IsFiniteSet(S) /\ Cardinality(S) = n /\ S \subseteq Nodes BY <1>1, ListSize
  <2>2. Cardinality(S \cup {t}) = n + 1 BY <2>1, FS_AddElement
  <2>3. n + 1 <= Cardinality(Threads) BY <2>1, <2>2, FS_Subset
  <2>4. Cardinality(Threads) \in Nat BY FS_CardinalityType
  <2> QED BY <1>2, <2>3, <2>4
<1>6. (h.count[l] + 1) % CountMod = n + 1
  BY <1>2, <1>5, SmallMod
<1>7. Grown(h, l, 1) = [k \in Lists |-> IF k = l THEN n + 1 ELSE h.count[k]]
  BY <1>4, <1>6 DEF Grown, Store
<1>8. /\ g = [next |-> g.next, prev |-> g.prev, head |-> g.head, tail |-> g.tail, count |-> g.count]
      /\ g.next = [x \in Nodes |-> IF x = t THEN h.head[l] ELSE h.next[x]]
      /\ g.prev = [x \in Nodes |-> IF x = t THEN NULL ELSE IF x = h.head[l] THEN t ELSE h.prev[x]]
      /\ g.head = [k \in Lists |-> IF k = l THEN t ELSE h.head[k]]
      /\ g.tail = [k \in Lists |-> IF k = l /\ n = 0 THEN t ELSE h.tail[k]]
      /\ g.count = [k \in Lists |-> IF k = l THEN n + 1 ELSE h.count[k]]
  <2>1. CASE n = 0
    <3>1. h.head[l] = NULL /\ h.tail[l] = NULL BY <1>2, <2>1
    <3>2. g = Alone(h, l, t) BY <3>1 DEF AddHead
    <3> QED BY <2>1, <3>1, <3>2, <1>4, <1>7 DEF Alone, Store
  <2>2. CASE n # 0
    <3>1. h.head[l] # NULL BY <1>2, <1>3, <2>2
    <3>2. g = [h EXCEPT !.next  = Store(@, t, h.head[l]),
                        !.prev  = Store(Store(@, h.head[l], t), t, NULL),
                        !.head  = Store(@, l, t),
                        !.count = Grown(h, l, 1)]
      BY <3>1 DEF AddHead
    <3>3. h = [next |-> h.next, prev |-> h.prev, head |-> h.head, tail |-> h.tail, count |-> h.count]
      BY DEF Heap
    <3>4. h.tail = [k \in Lists |-> IF k = l /\ n = 0 THEN t ELSE h.tail[k]] BY <1>4, <2>2
    <3>5. /\ g = [next |-> g.next, prev |-> g.prev, head |-> g.head, tail |-> g.tail, count |-> g.count]
          /\ g.next = Store(h.next, t, h.head[l])
          /\ g.prev = Store(Store(h.prev, h.head[l], t), t, NULL)
          /\ g.head = Store(h.head, l, t) /\ g.tail = h.tail /\ g.count = Grown(h, l, 1)
      BY <3>2, <3>3
    <3> HIDE DEF g
    <3> QED BY <2>2, <3>4, <3>5, <1>4, <1>7 DEF Store
  <2> QED BY <2>1, <2>2
<1>9. g \in Heap
  <2>1. g.count \in [Lists -> 0 .. CountMod - 1] BY <1>2, <1>4, <1>5, <1>8
  <2>2. /\ g.next \in [Nodes -> Pointer] /\ g.prev \in [Nodes -> Pointer]
        /\ g.head \in [Lists -> Pointer] /\ g.tail \in [Lists -> Pointer]
    BY <1>4, <1>8 DEF Pointer
  <2> HIDE DEF g
  <2> QED BY <1>8, <2>1, <2>2 DEF Heap
<1> HIDE DEF g
<1> DEFINE r == [i \in 1 .. n + 1 |-> IF i = 1 THEN t ELSE q[i - 1]]
<1>10. r \in [1 .. n + 1 -> Nodes] /\ r[1] = t /\ \A i \in 1 .. n : r[i + 1] = q[i]
  BY <1>2
<1>10a. \A j \in 1 .. n + 1 : j = 1 \/ (j - 1 \in 1 .. n /\ r[j] = q[j - 1]) BY <1>2
<1> HIDE DEF r
<1>11. \A i, j \in 1 .. n + 1 : r[i] = r[j] => i = j
  BY <1>2, <1>3, <1>10, <1>10a
<1>12. \A i \in 1 .. n : q[i] = h.head[l] <=> i = 1 BY <1>2
<1>13. \A i \in 1 .. n + 1 : g.next[r[i]] = IF i = n + 1 THEN NULL ELSE r[i + 1]
  <2> SUFFICES ASSUME NEW i \in 1 .. n + 1
               PROVE  g.next[r[i]] = IF i = n + 1 THEN NULL ELSE r[i + 1]
    OBVIOUS
  <2>1. CASE i = 1
    <3>1. g.next[r[i]] = h.head[l] BY <2>1, <1>8, <1>10
    <3>2. n # 0 => r[2] = q[1] BY <1>2, <1>10
    <3> QED BY <2>1, <3>1, <3>2, <1>2
  <2>2. CASE i # 1
    <3>1. i - 1 \in 1 .. n /\ r[i] = q[i - 1] BY <2>2, <1>10a
    <3>2. g.next[r[i]] = h.next[q[i - 1]] BY <3>1, <1>2, <1>3, <1>8
    <3>3. g.next[r[i]] = IF i - 1 = n THEN NULL ELSE q[(i - 1) + 1] BY <3>1, <3>2, <1>3
    <3>4. i # n + 1 => i \in 1 .. n /\ r[i + 1] = q[i] BY <1>10, <1>2
    <3> QED BY <3>3, <3>4, <3>1, <1>2
  <2> QED BY <2>1, <2>2
<1>14. \A i \in 1 .. n + 1 : g.prev[r[i]] = IF i = 1 THEN NULL ELSE r[i - 1]
  <2> SUFFICES ASSUME NEW i \in 1 .. n + 1
               PROVE  g.prev[r[i]] = IF i = 1 THEN NULL ELSE r[i - 1]
    OBVIOUS
  <2>1. CASE i = 1 BY <2>1, <1>8, <1>10
  <2>2. CASE i # 1
    <3>1. i - 1 \in 1 .. n /\ r[i] = q[i - 1] BY <2>2, <1>10a
    <3>2. g.prev[r[i]] = IF i - 1 = 1 THEN t ELSE h.prev[q[i - 1]]
      BY <3>1, <1>2, <1>3, <1>8, <1>12
    <3>3. i - 1 # 1 => g.prev[r[i]] = q[(i - 1) - 1] BY <3>1, <3>2, <1>3
    <3>4. i - 1 # 1 => i - 2 \in 1 .. n /\ r[i - 1] = q[i - 2] BY <3>1, <1>2, <1>10a
    <3> QED BY <2>2, <3>1, <3>2, <3>3, <3>4, <1>10
  <2> QED BY <2>1, <2>2
<1>15. Holds(g, l, r, n + 1)
  <2>1. g.head[l] = r[1] BY <1>8, <1>10
  <2>2. g.tail[l] = r[n + 1]
    <3>1. CASE n = 0 BY <3>1, <1>8, <1>10
    <3>2. CASE n # 0
      <4>1. n \in 1 .. n BY <3>2, <1>2
      <4> QED BY <4>1, <3>2, <1>2, <1>8, <1>10
    <3> QED BY <3>1, <3>2
  <2>3. g.count[l] = n + 1 BY <1>8
  <2>4. n + 1 \in Nat /\ n + 1 # 0 BY <1>2
  <2> QED BY <1>10, <1>11, <1>13, <1>14, <2>1, <2>2, <2>3, <2>4 DEF Holds
<1>16. On(r, n + 1) = S \cup {t}
  <2>1. On(r, n + 1) \subseteq S \cup {t} BY <1>3, <1>10, <1>10a DEF On
  <2>2. S \cup {t} \subseteq On(r, n + 1)
    <3>1. \A i \in 1 .. n : i + 1 \in 1 .. n + 1 BY <1>2
    <3>2. 1 \in 1 .. n + 1 BY <1>2
    <3> QED BY <1>1, <1>10, <3>1, <3>2 DEF On
  <2> QED BY <2>1, <2>2
<1>17. ListOf(g, l, S \cup {t}) BY <1>15, <1>16 DEF ListOf
<1>18. ASSUME NEW k \in Lists \ {l}, NEW T, ListOf(h, k, T), T \cap (S \cup {t}) = {}
       PROVE  ListOf(g, k, T)
  <2>1. n # 0 => h.head[l] \in S BY <1>2, <1>3
  <2>2. T \subseteq Nodes BY <1>18, ListSize DEF ListOf
  <2>3. \A x \in T : x # t /\ x # h.head[l] BY <1>18, <2>1, <2>2, <1>2, <1>4
  <2>4. \A x \in T : g.next[x] = h.next[x] /\ g.prev[x] = h.prev[x] BY <2>2, <2>3, <1>8
  <2>5. g.head[k] = h.head[k] /\ g.tail[k] = h.tail[k] /\ g.count[k] = h.count[k] BY <1>8
  <2> QED BY <1>18, <2>4, <2>5, ListKept
<1> QED BY <1>9, <1>17, <1>18 DEF g

(* linked_list_remove of a node that is on the list.                       *)
LEMMA RemoveList ==
  ASSUME NEW h \in Heap, NEW l \in Lists, NEW S, ListOf(h, l, S), NEW t \in S
  PROVE  /\ Remove(h, l, t) \in Heap
         /\ ListOf(Remove(h, l, t), l, S \ {t})
         /\ \A k \in Lists \ {l} : \A T : ListOf(h, k, T) /\ T \cap S = {}
               => ListOf(Remove(h, l, t), k, T)
<1> USE ListAssumption, SchedAssumption
<1> DEFINE g == Remove(h, l, t)
<1>1. PICK n, q : Holds(h, l, q, n) /\ S = On(q, n) BY DEF ListOf
<1>2. /\ n \in Nat /\ q \in [1 .. n -> Nodes]
      /\ \A i, j \in 1 .. n : q[i] = q[j] => i = j
      /\ h.head[l] = IF n = 0 THEN NULL ELSE q[1]
      /\ h.tail[l] = IF n = 0 THEN NULL ELSE q[n]
      /\ h.count[l] = n
  BY <1>1 DEF Holds
<1>3. \A i \in 1 .. n : /\ h.next[q[i]] = IF i = n THEN NULL ELSE q[i + 1]
                        /\ h.prev[q[i]] = IF i = 1 THEN NULL ELSE q[i - 1]
                        /\ q[i] # NULL /\ q[i] \in S
  BY <1>1, <1>2 DEF Holds, On
<1>4. PICK k \in 1 .. n : q[k] = t BY <1>1 DEF On
<1>5. /\ h.next \in [Nodes -> Pointer] /\ h.prev \in [Nodes -> Pointer]
      /\ h.head \in [Lists -> Pointer] /\ h.tail \in [Lists -> Pointer]
      /\ h.count \in [Lists -> 0 .. CountMod - 1]
      /\ NULL \notin Nodes /\ t \in Nodes
  BY <1>2, <1>4 DEF Heap
<1> DEFINE P == h.prev[t]
           N == h.next[t]
<1>6. /\ P = IF k = 1 THEN NULL ELSE q[k - 1]
      /\ N = IF k = n THEN NULL ELSE q[k + 1]
      /\ P \in Pointer /\ N \in Pointer /\ P # t /\ N # t
  <2>1. /\ P = IF k = 1 THEN NULL ELSE q[k - 1]
        /\ N = IF k = n THEN NULL ELSE q[k + 1]
    BY <1>3, <1>4
  <2>2. (k # 1 => k - 1 \in 1 .. n /\ k - 1 # k) /\ (k # n => k + 1 \in 1 .. n /\ k + 1 # k)
    BY <1>2, <1>4
  <2>3. \A i \in 1 .. n : i # k => q[i] # t /\ q[i] \in Nodes BY <1>2, <1>4
  <2> HIDE DEF P, N
  <2> QED BY <2>1, <2>2, <2>3, <1>5 DEF Pointer
<1>7. Grown(h, l, -1) = [x \in Lists |-> IF x = l THEN n - 1 ELSE h.count[x]]
  <2>1. n - 1 \in Nat /\ n - 1 < CountMod /\ h.count[l] + (-1) = n - 1 BY <1>2, <1>4, <1>5
  <2>2. (h.count[l] + (-1)) % CountMod = n - 1 BY <2>1, SmallMod
  <2> QED BY <1>5, <2>2 DEF Grown, Store
<1>8. /\ g = [next |-> g.next, prev |-> g.prev, head |-> g.head, tail |-> g.tail, count |-> g.count]
      /\ g.next = [x \in Nodes |-> IF x = P THEN N ELSE h.next[x]]
      /\ g.prev = [x \in Nodes |-> IF x = N THEN P ELSE h.prev[x]]
      /\ g.head = [x \in Lists |-> IF x = l /\ P = NULL THEN N ELSE h.head[x]]
      /\ g.tail = [x \in Lists |-> IF x = l /\ N = NULL THEN P ELSE h.tail[x]]
      /\ g.count = [x \in Lists |-> IF x = l THEN n - 1 ELSE h.count[x]]
  <2> DEFINE next1 == IF P = NULL THEN h.next ELSE Store(h.next, P, N)
             s == next1[t]
  <2>1. next1 = [x \in Nodes |-> IF x = P THEN N ELSE h.next[x]] BY <1>5 DEF Store
  <2>2. s = N BY <2>1, <1>5, <1>6
  <2>3. h = [next |-> h.next, prev |-> h.prev, head |-> h.head, tail |-> h.tail, count |-> h.count]
    BY DEF Heap
  <2>4. g = [h EXCEPT !.next  = next1,
                      !.head  = IF P = NULL THEN Store(@, l, N) ELSE @,
                      !.tail  = IF s = NULL THEN Store(@, l, P) ELSE @,
                      !.prev  = IF s = NULL THEN @ ELSE Store(@, s, P),
                      !.count = Grown(h, l, -1)]
    BY DEF Remove
  <2> HIDE DEF next1, s
  <2>5. /\ g = [next |-> g.next, prev |-> g.prev, head |-> g.head, tail |-> g.tail, count |-> g.count]
        /\ g.next = next1
        /\ g.head = IF P = NULL THEN Store(h.head, l, N) ELSE h.head
        /\ g.tail = IF s = NULL THEN Store(h.tail, l, P) ELSE h.tail
        /\ g.prev = IF s = NULL THEN h.prev ELSE Store(h.prev, s, P)
        /\ g.count = Grown(h, l, -1)
    BY <2>3, <2>4
  <2> HIDE DEF g, P, N
  <2>6. g.head = [x \in Lists |-> IF x = l /\ P = NULL THEN N ELSE h.head[x]]
    BY <2>5, <1>5 DEF Store
  <2>7. g.tail = [x \in Lists |-> IF x = l /\ N = NULL THEN P ELSE h.tail[x]]
    BY <2>2, <2>5, <1>5 DEF Store
  <2>8. g.prev = [x \in Nodes |-> IF x = N THEN P ELSE h.prev[x]]
    BY <2>2, <2>5, <1>5 DEF Store
  <2> QED BY <2>1, <2>5, <2>6, <2>7, <2>8, <1>7
<1> HIDE DEF g, P, N
<1>9. g \in Heap
  <2>1. g.count \in [Lists -> 0 .. CountMod - 1] BY <1>2, <1>4, <1>5, <1>8
  <2>2. /\ g.next \in [Nodes -> Pointer] /\ g.prev \in [Nodes -> Pointer]
        /\ g.head \in [Lists -> Pointer] /\ g.tail \in [Lists -> Pointer]
    BY <1>5, <1>6, <1>8
  <2> QED BY <1>8, <2>1, <2>2 DEF Heap
<1> DEFINE r == [i \in 1 .. n - 1 |-> IF i < k THEN q[i] ELSE q[i + 1]]
           from(i) == IF i < k THEN i ELSE i + 1
<1>10. \A i \in 1 .. n - 1 : from(i) \in 1 .. n /\ from(i) # k /\ r[i] = q[from(i)]
  BY <1>2, <1>4
<1>11. \A i, j \in 1 .. n - 1 : from(i) = from(j) => i = j BY <1>2, <1>4
<1>12. r \in [1 .. n - 1 -> Nodes] BY <1>2, <1>4
<1>13. \A i \in 1 .. n - 1 : /\ i < k => r[i] = q[i]
                             /\ i >= k => r[i] = q[i + 1]
  BY <1>2, <1>4
<1> HIDE DEF r
<1>14. \A i, j \in 1 .. n - 1 : r[i] = r[j] => i = j
  <2> HIDE DEF from
  <2> QED BY <1>2, <1>10, <1>11
<1>15. \A i \in 1 .. n : /\ q[i] = P <=> k # 1 /\ i = k - 1
                         /\ q[i] = N <=> k # n /\ i = k + 1
  <2>1. \A i \in 1 .. n : q[i] = P <=> k # 1 /\ i = k - 1
    <3>1. CASE k = 1 BY <3>1, <1>3, <1>6
    <3>2. CASE k # 1
      <4>1. k - 1 \in 1 .. n /\ P = q[k - 1] BY <3>2, <1>2, <1>4, <1>6
      <4> QED BY <3>2, <4>1, <1>2
    <3> QED BY <3>1, <3>2
  <2>2. \A i \in 1 .. n : q[i] = N <=> k # n /\ i = k + 1
    <3>1. CASE k = n BY <3>1, <1>3, <1>6
    <3>2. CASE k # n
      <4>1. k + 1 \in 1 .. n /\ N = q[k + 1] BY <3>2, <1>2, <1>4, <1>6
      <4> QED BY <3>2, <4>1, <1>2
    <3> QED BY <3>1, <3>2
  <2> QED BY <2>1, <2>2
<1>16. \A i \in 1 .. n - 1 : g.next[r[i]] = IF i = n - 1 THEN NULL ELSE r[i + 1]
  <2> SUFFICES ASSUME NEW i \in 1 .. n - 1
               PROVE  g.next[r[i]] = IF i = n - 1 THEN NULL ELSE r[i + 1]
    OBVIOUS
  <2>1. CASE i < k - 1
    <3>1. i \in 1 .. n /\ i + 1 \in 1 .. n - 1 /\ i + 1 < k BY <1>2, <1>4, <2>1
    <3>2. r[i] = q[i] /\ r[i + 1] = q[i + 1] BY <3>1, <1>13, <2>1, <1>4
    <3>3. g.next[q[i]] = h.next[q[i]] BY <3>1, <2>1, <1>2, <1>4, <1>8, <1>15
    <3>4. i # n /\ i # n - 1 BY <3>1, <1>2
    <3> QED BY <3>1, <3>2, <3>3, <3>4, <1>3
  <2>2. CASE i = k - 1
    <3>1. i \in 1 .. n /\ k # 1 /\ r[i] = q[i] BY <2>2, <1>2, <1>4, <1>13
    <3>2. g.next[q[i]] = N BY <3>1, <2>2, <1>2, <1>8, <1>15
    <3>3. k # n => i + 1 \in 1 .. n - 1 /\ r[i + 1] = q[k + 1] /\ i # n - 1
      <4> SUFFICES ASSUME k # n PROVE i + 1 \in 1 .. n - 1 /\ r[i + 1] = q[k + 1] /\ i # n - 1 OBVIOUS
      <4>1. k \in 1 .. n - 1 /\ i + 1 = k /\ i # n - 1 BY <2>2, <1>2, <1>4
      <4>2. r[k] = q[k + 1] BY <4>1, <1>13, <1>4
      <4> QED BY <4>1, <4>2
    <3>4. k = n => i = n - 1 BY <2>2
    <3> QED BY <3>1, <3>2, <3>3, <3>4, <1>6
  <2>3. CASE i >= k
    <3>1. i + 1 \in 1 .. n /\ r[i] = q[i + 1] BY <2>3, <1>2, <1>4, <1>13
    <3>2. g.next[q[i + 1]] = h.next[q[i + 1]] BY <3>1, <2>3, <1>2, <1>4, <1>8, <1>15
    <3>3. h.next[q[i + 1]] = IF i + 1 = n THEN NULL ELSE q[(i + 1) + 1] BY <3>1, <1>3
    <3>4. i # n - 1 => i + 1 \in 1 .. n - 1 /\ r[i + 1] = q[(i + 1) + 1]
      <4> SUFFICES ASSUME i # n - 1 PROVE i + 1 \in 1 .. n - 1 /\ r[i + 1] = q[(i + 1) + 1] OBVIOUS
      <4>1. i \in Nat /\ n \in Nat /\ k \in Nat BY <1>2, <1>4
      <4>2. i + 1 \in 1 .. n - 1 /\ i + 1 >= k BY <2>3, <4>1
      <4> QED BY <4>2, <1>13
    <3>5. i + 1 = n <=> i = n - 1 BY <1>2
    <3> QED BY <3>1, <3>2, <3>3, <3>4, <3>5
  <2> QED BY <2>1, <2>2, <2>3, <1>2, <1>4
<1>17. \A i \in 1 .. n - 1 : g.prev[r[i]] = IF i = 1 THEN NULL ELSE r[i - 1]
  <2> SUFFICES ASSUME NEW i \in 1 .. n - 1
               PROVE  g.prev[r[i]] = IF i = 1 THEN NULL ELSE r[i - 1]
    OBVIOUS
  <2>1. CASE i < k
    <3>1. i \in 1 .. n /\ r[i] = q[i] BY <1>2, <1>4, <1>13, <2>1
    <3>2. g.prev[q[i]] = h.prev[q[i]] BY <3>1, <2>1, <1>2, <1>4, <1>8, <1>15
    <3>3. i # 1 => i - 1 \in 1 .. n - 1 /\ r[i - 1] = q[i - 1]
      <4> SUFFICES ASSUME i # 1 PROVE i - 1 \in 1 .. n - 1 /\ r[i - 1] = q[i - 1] OBVIOUS
      <4>1. i - 1 \in 1 .. n - 1 /\ i - 1 < k BY <2>1, <1>2, <1>4
      <4> QED BY <4>1, <1>13
    <3> QED BY <3>1, <3>2, <3>3, <1>3
  <2>2. CASE i = k
    <3>1. i + 1 \in 1 .. n /\ r[i] = q[i + 1] /\ k # n BY <2>2, <1>2, <1>4, <1>13
    <3>2. g.prev[q[i + 1]] = P BY <3>1, <2>2, <1>2, <1>8, <1>15
    <3>3. i # 1 => i - 1 \in 1 .. n - 1 /\ r[i - 1] = q[k - 1]
      <4> SUFFICES ASSUME i # 1 PROVE i - 1 \in 1 .. n - 1 /\ r[i - 1] = q[k - 1] OBVIOUS
      <4>1. i - 1 \in 1 .. n - 1 /\ i - 1 < k BY <2>2, <1>2, <1>4
      <4> QED BY <4>1, <1>13, <2>2
    <3> QED BY <3>1, <3>2, <3>3, <2>2, <1>6
  <2>3. CASE i > k
    <3>1. i + 1 \in 1 .. n /\ r[i] = q[i + 1] BY <2>3, <1>2, <1>4, <1>13
    <3>2. g.prev[q[i + 1]] = h.prev[q[i + 1]] BY <3>1, <2>3, <1>2, <1>4, <1>8, <1>15
    <3>3. h.prev[q[i + 1]] = q[(i + 1) - 1] BY <3>1, <1>3
    <3>4. i - 1 \in 1 .. n - 1 /\ i - 1 >= k /\ i # 1 BY <2>3, <1>2, <1>4
    <3>5. r[i - 1] = q[(i - 1) + 1] BY <3>4, <1>13
    <3>6. (i - 1) + 1 = i /\ (i + 1) - 1 = i OBVIOUS
    <3> QED BY <3>1, <3>2, <3>3, <3>4, <3>5, <3>6
  <2> QED BY <2>1, <2>2, <2>3, <1>2, <1>4
<1>18. Holds(g, l, r, n - 1)
  <2>1. n - 1 \in Nat BY <1>2, <1>4
  <2>2. g.count[l] = n - 1 BY <1>8
  <2>3. g.head[l] = IF n - 1 = 0 THEN NULL ELSE r[1]
    <3>1. CASE k = 1
      <4>1. P = NULL /\ N = (IF 1 = n THEN NULL ELSE q[2]) BY <3>1, <1>6
      <4>2. g.head[l] = N BY <4>1, <1>8
      <4>3. n # 1 => r[1] = q[2] BY <3>1, <1>2, <1>13
      <4> QED BY <4>1, <4>2, <4>3, <1>2
    <3>2. CASE k # 1
      <4>1. P # NULL BY <3>2, <1>6, <1>3, <1>4, <1>2
      <4>2. g.head[l] = q[1] BY <4>1, <1>8, <1>2, <1>4
      <4>3. n - 1 # 0 /\ r[1] = q[1] BY <3>2, <1>2, <1>4, <1>13
      <4> QED BY <4>2, <4>3
    <3> QED BY <3>1, <3>2
  <2>4. g.tail[l] = IF n - 1 = 0 THEN NULL ELSE r[n - 1]
    <3>1. CASE k = n
      <4>1. N = NULL /\ P = (IF n = 1 THEN NULL ELSE q[n - 1]) BY <3>1, <1>6
      <4>2. g.tail[l] = P BY <4>1, <1>8
      <4>3. n # 1 => r[n - 1] = q[n - 1] BY <3>1, <1>2, <1>4, <1>13
      <4> QED BY <4>1, <4>2, <4>3, <1>2
    <3>2. CASE k # n
      <4>1. N # NULL BY <3>2, <1>6, <1>3, <1>4, <1>2
      <4>2. g.tail[l] = q[n] BY <4>1, <1>8, <1>2, <1>4
      <4>3. n - 1 # 0 /\ r[n - 1] = q[(n - 1) + 1] BY <3>2, <1>2, <1>4, <1>13
      <4> QED BY <4>2, <4>3, <1>2
    <3> QED BY <3>1, <3>2
  <2> QED BY <1>12, <1>14, <1>16, <1>17, <2>1, <2>2, <2>3, <2>4 DEF Holds
<1>19. On(r, n - 1) = S \ {t}
  <2>1. ASSUME NEW i \in 1 .. n - 1 PROVE r[i] \in S \ {t}
    <3> DEFINE f == from(i)
    <3>1. f \in 1 .. n /\ f # k /\ r[i] = q[f] BY <1>10
    <3> HIDE DEF f
    <3> QED BY <3>1, <1>2, <1>3, <1>4
  <2>2. ASSUME NEW x \in S \ {t} PROVE x \in On(r, n - 1)
    <3>1. PICK i \in 1 .. n : q[i] = x BY <1>1 DEF On
    <3>2. i # k BY <2>2, <3>1, <1>4
    <3>3. CASE i < k
      <4>1. i \in 1 .. n - 1 BY <3>3, <1>2, <1>4
      <4> QED BY <4>1, <3>1, <3>3, <1>13 DEF On
    <3>4. CASE i > k
      <4>1. i - 1 \in 1 .. n - 1 /\ i - 1 >= k /\ (i - 1) + 1 = i BY <3>4, <1>2, <1>4
      <4>2. r[i - 1] = q[i] BY <4>1, <1>13
      <4> QED BY <4>1, <4>2, <3>1 DEF On
    <3> QED BY <3>2, <3>3, <3>4, <1>4
  <2> QED BY <2>1, <2>2 DEF On
<1>20. ListOf(g, l, S \ {t}) BY <1>18, <1>19 DEF ListOf
<1>21. ASSUME NEW m \in Lists \ {l}, NEW T, ListOf(h, m, T), T \cap S = {}
       PROVE  ListOf(g, m, T)
  <2>1. T \subseteq Nodes BY <1>21, ListSize DEF ListOf
  <2>2. \A x \in T : x # P /\ x # N
    <3>1. P # NULL => P \in S BY <1>2, <1>3, <1>4, <1>6
    <3>2. N # NULL => N \in S BY <1>2, <1>3, <1>4, <1>6
    <3> QED BY <3>1, <3>2, <2>1, <1>21, <1>5
  <2>3. \A x \in T : g.next[x] = h.next[x] /\ g.prev[x] = h.prev[x] BY <2>1, <2>2, <1>8
  <2>4. g.head[m] = h.head[m] /\ g.tail[m] = h.tail[m] /\ g.count[m] = h.count[m] BY <1>8
  <2> QED BY <1>21, <2>3, <2>4, ListKept
<1> QED BY <1>9, <1>20, <1>21 DEF g

(* linked_list_add_tail of a node that is not on the list.                 *)
LEMMA AddTailList ==
  ASSUME NEW h \in Heap, NEW l \in Lists, NEW S, ListOf(h, l, S), NEW t \in Nodes \ S
  PROVE  /\ AddTail(h, l, t) \in Heap
         /\ ListOf(AddTail(h, l, t), l, S \cup {t})
<1> USE ListAssumption, SchedAssumption
<1> DEFINE g == AddTail(h, l, t)
<1>1. PICK n, q : Holds(h, l, q, n) /\ S = On(q, n) BY DEF ListOf
<1>2. /\ n \in Nat /\ q \in [1 .. n -> Nodes]
      /\ \A i, j \in 1 .. n : q[i] = q[j] => i = j
      /\ h.head[l] = IF n = 0 THEN NULL ELSE q[1]
      /\ h.tail[l] = IF n = 0 THEN NULL ELSE q[n]
      /\ h.count[l] = n
  BY <1>1 DEF Holds
<1>3. \A i \in 1 .. n : /\ h.next[q[i]] = IF i = n THEN NULL ELSE q[i + 1]
                        /\ h.prev[q[i]] = IF i = 1 THEN NULL ELSE q[i - 1]
                        /\ q[i] # NULL /\ q[i] # t /\ q[i] \in S
  BY <1>1, <1>2 DEF Holds, On
<1>4. /\ h.next \in [Nodes -> Pointer] /\ h.prev \in [Nodes -> Pointer]
      /\ h.head \in [Lists -> Pointer] /\ h.tail \in [Lists -> Pointer]
      /\ h.count \in [Lists -> 0 .. CountMod - 1]
      /\ NULL \notin Nodes
  BY DEF Heap
<1>5. n + 1 < CountMod
  <2>1. IsFiniteSet(S) /\ Cardinality(S) = n /\ S \subseteq Nodes BY <1>1, ListSize
  <2>2. Cardinality(S \cup {t}) = n + 1 BY <2>1, FS_AddElement
  <2>3. n + 1 <= Cardinality(Threads) BY <2>1, <2>2, FS_Subset
  <2>4. Cardinality(Threads) \in Nat BY FS_CardinalityType
  <2> QED BY <1>2, <2>3, <2>4
<1>6. (h.count[l] + 1) % CountMod = n + 1 BY <1>2, <1>5, SmallMod
<1>7. Grown(h, l, 1) = [k \in Lists |-> IF k = l THEN n + 1 ELSE h.count[k]]
  BY <1>4, <1>6 DEF Grown, Store
<1>8. /\ g = [next |-> g.next, prev |-> g.prev, head |-> g.head, tail |-> g.tail, count |-> g.count]
      /\ g.next = [x \in Nodes |-> IF x = h.tail[l] THEN t ELSE IF x = t THEN NULL ELSE h.next[x]]
      /\ g.prev = [x \in Nodes |-> IF x = t THEN h.tail[l] ELSE h.prev[x]]
      /\ g.head = [k \in Lists |-> IF k = l /\ n = 0 THEN t ELSE h.head[k]]
      /\ g.tail = [k \in Lists |-> IF k = l THEN t ELSE h.tail[k]]
      /\ g.count = [k \in Lists |-> IF k = l THEN n + 1 ELSE h.count[k]]
  <2>1. CASE n = 0
    <3>1. h.head[l] = NULL /\ h.tail[l] = NULL BY <1>2, <2>1
    <3>2. g = Alone(h, l, t) BY <3>1 DEF AddTail
    <3> QED BY <2>1, <3>1, <3>2, <1>4, <1>7 DEF Alone, Store
  <2>2. CASE n # 0
    <3>1. h.head[l] # NULL BY <1>2, <1>3, <2>2
    <3>2. g = [h EXCEPT !.next  = Store(Store(@, t, NULL), h.tail[l], t),
                        !.prev  = Store(@, t, h.tail[l]),
                        !.tail  = Store(@, l, t),
                        !.count = Grown(h, l, 1)]
      BY <3>1 DEF AddTail
    <3>3. h = [next |-> h.next, prev |-> h.prev, head |-> h.head, tail |-> h.tail, count |-> h.count]
      BY DEF Heap
    <3>4. h.head = [k \in Lists |-> IF k = l /\ n = 0 THEN t ELSE h.head[k]] BY <1>4, <2>2
    <3>5. /\ g = [next |-> g.next, prev |-> g.prev, head |-> g.head, tail |-> g.tail, count |-> g.count]
          /\ g.next = Store(Store(h.next, t, NULL), h.tail[l], t)
          /\ g.prev = Store(h.prev, t, h.tail[l])
          /\ g.tail = Store(h.tail, l, t) /\ g.head = h.head /\ g.count = Grown(h, l, 1)
      BY <3>2, <3>3
    <3> HIDE DEF g
    <3> QED BY <2>2, <3>4, <3>5, <1>4, <1>7 DEF Store
  <2> QED BY <2>1, <2>2
<1>9. g \in Heap
  <2>1. g.count \in [Lists -> 0 .. CountMod - 1] BY <1>2, <1>4, <1>5, <1>8
  <2>2. /\ g.next \in [Nodes -> Pointer] /\ g.prev \in [Nodes -> Pointer]
        /\ g.head \in [Lists -> Pointer] /\ g.tail \in [Lists -> Pointer]
    BY <1>4, <1>8 DEF Pointer
  <2> HIDE DEF g
  <2> QED BY <1>8, <2>1, <2>2 DEF Heap
<1> HIDE DEF g
<1> DEFINE r == [i \in 1 .. n + 1 |-> IF i = n + 1 THEN t ELSE q[i]]
<1>10. /\ r \in [1 .. n + 1 -> Nodes] /\ r[n + 1] = t
       /\ \A i \in 1 .. n : i \in 1 .. n + 1 /\ i # n + 1 /\ r[i] = q[i]
       /\ \A j \in 1 .. n + 1 : j = n + 1 \/ j \in 1 .. n
  BY <1>2
<1> HIDE DEF r
<1>11. ASSUME NEW i \in 1 .. n + 1, NEW j \in 1 .. n + 1, r[i] = r[j] PROVE i = j
  <2>1. CASE i = n + 1 BY <2>1, <1>3, <1>10, <1>11
  <2>2. CASE i \in 1 .. n
    <3>1. r[i] = q[i] /\ q[i] # t BY <2>2, <1>3, <1>10
    <3>2. j \in 1 .. n /\ r[j] = q[j] BY <3>1, <1>3, <1>10, <1>11
    <3> QED BY <2>2, <3>1, <3>2, <1>2, <1>11
  <2> QED BY <2>1, <2>2, <1>10
<1>12. \A i \in 1 .. n : q[i] = h.tail[l] <=> i = n BY <1>2
<1>13. \A i \in 1 .. n + 1 : g.next[r[i]] = IF i = n + 1 THEN NULL ELSE r[i + 1]
  <2> SUFFICES ASSUME NEW i \in 1 .. n + 1
               PROVE  g.next[r[i]] = IF i = n + 1 THEN NULL ELSE r[i + 1]
    OBVIOUS
  <2>1. CASE i = n + 1
    <3>1. t # h.tail[l]
      <4>1. CASE n = 0 BY <4>1, <1>2, <1>4
      <4>2. CASE n # 0
        <5>1. n \in 1 .. n BY <4>2, <1>2
        <5> QED BY <4>2, <5>1, <1>2, <1>3
      <4> QED BY <4>1, <4>2
    <3> QED BY <2>1, <3>1, <1>8, <1>10
  <2>2. CASE i # n + 1
    <3>1. i \in 1 .. n /\ r[i] = q[i] /\ q[i] \in Nodes /\ q[i] # t BY <2>2, <1>10, <1>2, <1>3
    <3>2. CASE i = n
      <4>1. g.next[q[i]] = t BY <3>1, <3>2, <1>8, <1>12
      <4> QED BY <3>1, <3>2, <4>1, <2>2, <1>10
    <3>3. CASE i # n
      <4>1. g.next[q[i]] = h.next[q[i]] BY <3>1, <3>3, <1>8, <1>12
      <4>2. g.next[q[i]] = q[i + 1] BY <3>1, <3>3, <4>1, <1>3
      <4>3. i + 1 \in 1 .. n BY <3>1, <3>3, <1>2
      <4> QED BY <3>1, <4>2, <4>3, <2>2, <1>10
    <3> QED BY <3>2, <3>3
  <2> QED BY <2>1, <2>2
<1>14. \A i \in 1 .. n + 1 : g.prev[r[i]] = IF i = 1 THEN NULL ELSE r[i - 1]
  <2> SUFFICES ASSUME NEW i \in 1 .. n + 1
               PROVE  g.prev[r[i]] = IF i = 1 THEN NULL ELSE r[i - 1]
    OBVIOUS
  <2>1. CASE i = n + 1
    <3>1. g.prev[r[i]] = h.tail[l] BY <2>1, <1>8, <1>10
    <3>2. n # 0 => n \in 1 .. n BY <1>2
    <3>3. n # 0 => r[n] = q[n] BY <3>2, <1>10
    <3>4. i - 1 = n /\ (i = 1 <=> n = 0) BY <2>1, <1>2
    <3> QED BY <3>1, <3>3, <3>4, <1>2
  <2>2. CASE i # n + 1
    <3>1. i \in 1 .. n /\ r[i] = q[i] /\ q[i] \in Nodes /\ q[i] # t BY <2>2, <1>10, <1>2, <1>3
    <3>2. g.prev[q[i]] = h.prev[q[i]] BY <3>1, <1>8
    <3>3. g.prev[q[i]] = IF i = 1 THEN NULL ELSE q[i - 1] BY <3>1, <3>2, <1>3
    <3>4. i # 1 => i - 1 \in 1 .. n BY <3>1, <1>2
    <3>5. i # 1 => r[i - 1] = q[i - 1] BY <3>4, <1>10
    <3> QED BY <3>1, <3>3, <3>5
  <2> QED BY <2>1, <2>2
<1>15. Holds(g, l, r, n + 1)
  <2>1. g.tail[l] = r[n + 1] BY <1>8, <1>10
  <2>2. g.head[l] = r[1]
    <3>1. CASE n = 0 BY <3>1, <1>8, <1>10
    <3>2. CASE n # 0
      <4>1. 1 \in 1 .. n BY <3>2, <1>2
      <4> QED BY <4>1, <3>2, <1>2, <1>8, <1>10
    <3> QED BY <3>1, <3>2
  <2>3. g.count[l] = n + 1 BY <1>8
  <2>4. n + 1 \in Nat /\ n + 1 # 0 BY <1>2
  <2> QED BY <1>10, <1>11, <1>13, <1>14, <2>1, <2>2, <2>3, <2>4 DEF Holds
<1>16. On(r, n + 1) = S \cup {t}
  <2>1. On(r, n + 1) \subseteq S \cup {t} BY <1>3, <1>10 DEF On
  <2>2. n + 1 \in 1 .. n + 1 BY <1>2
  <2>3. S \cup {t} \subseteq On(r, n + 1) BY <1>1, <1>10, <2>2 DEF On
  <2> QED BY <2>1, <2>3
<1> QED BY <1>9, <1>15, <1>16 DEF ListOf, g

-------------------------------------------------------------------------------
(* A walk of at most b nodes goes through f[1] .. f[n].                     *)
Goes(first, field, b, f, n) ==
  /\ b \in Nat /\ n \in Nat /\ n <= b
  /\ f \in [1 .. b + 1 -> Pointer]
  /\ \A i \in 1 .. b + 1 : f[i] = IF i = 1 THEN first ELSE Load(field, f[i - 1])
  /\ \A i \in 1 .. b : f[i] # NULL <=> i <= n

LEMMA WalkIs ==
  ASSUME NEW first, NEW field, NEW b, NEW f, NEW n, Goes(first, field, b, f, n)
  PROVE  /\ Walk(first, field, b) \in [1 .. n -> Pointer]
         /\ \A i \in 1 .. n : Walk(first, field, b)[i] = f[i]
<1>0. /\ b \in Nat /\ n \in Nat /\ n <= b
      /\ f \in [1 .. b + 1 -> Pointer]
      /\ \A i \in 1 .. b + 1 : f[i] = IF i = 1 THEN first ELSE Load(field, f[i - 1])
      /\ \A i \in 1 .. b : f[i] # NULL <=> i <= n
  BY DEF Goes
<1> DEFINE step(g) == [i \in 1 .. b + 1 |-> IF i = 1 THEN first ELSE Load(field, g[i - 1])]
           at == CHOOSE g : g = step(g)
<1>1. at = step(at)
  <2>1. f = step(f) BY <1>0
  <2> HIDE DEF step
  <2> QED BY <2>1
<1>2. Walk(first, field, b) = [i \in {i \in 1 .. b : at[i] # NULL} |-> at[i]] BY DEF Walk
<1> HIDE DEF at
<1>3. \A i \in 1 .. b + 1 : at[i] = f[i]
  <2> DEFINE D == {i \in 1 .. b + 1 : at[i] # f[i]}
  <2> SUFFICES ASSUME D # {} PROVE FALSE OBVIOUS
  <2>1. D \in SUBSET Nat BY <1>0
  <2>2. PICK i \in D : \A j \in D : i <= j
    <3> HIDE DEF D
    <3> QED BY <2>1, LeastNat
  <2>3. i # 1 BY <1>0, <1>1
  <2>4. i - 1 \in 1 .. b + 1 /\ i - 1 \notin D BY <1>0, <2>2, <2>3
  <2>5. at[i - 1] = f[i - 1] BY <2>4
  <2>6. at[i] = Load(field, at[i - 1]) /\ f[i] = Load(field, f[i - 1]) BY <1>0, <1>1, <2>3
  <2> QED BY <2>5, <2>6
<1>4. at = f BY <1>0, <1>1, <1>3
<1>5. {i \in 1 .. b : f[i] # NULL} = 1 .. n BY <1>0
<1> QED BY <1>0, <1>2, <1>4, <1>5

LEMMA ReadForward ==
  ASSUME NEW h, NEW l, NEW q, NEW n, Holds(h, l, q, n), NEW b \in Nat, n <= b
  PROVE  Forward(h, l, b) = q
<1> USE ListAssumption
<1> DEFINE f == [i \in 1 .. b + 1 |-> IF i <= n THEN q[i] ELSE NULL]
<1>1. /\ n \in Nat /\ q \in [1 .. n -> Nodes]
      /\ h.head[l] = IF n = 0 THEN NULL ELSE q[1]
      /\ \A i \in 1 .. n : h.next[q[i]] = IF i = n THEN NULL ELSE q[i + 1]
      /\ \A i \in 1 .. n : q[i] # NULL
  BY DEF Holds
<1>2. ASSUME NEW i \in 1 .. b + 1
      PROVE  f[i] = IF i = 1 THEN h.head[l] ELSE Load(h.next, f[i - 1])
  <2>1. CASE i = 1 BY <2>1, <1>1
  <2>2. CASE i # 1
    <3>1. i - 1 \in 1 .. b + 1 /\ f[i - 1] = IF i - 1 <= n THEN q[i - 1] ELSE NULL BY <2>2
    <3>2. f[i] = IF i <= n THEN q[i] ELSE NULL OBVIOUS
    <3> HIDE DEF f
    <3>3. CASE i - 1 <= n
      <4>1. i - 1 \in 1 .. n BY <3>1, <3>3, <1>1
      <4>2. f[i - 1] = q[i - 1] /\ q[i - 1] # NULL BY <4>1, <3>1, <3>3, <1>1
      <4>3. Load(h.next, f[i - 1]) = h.next[q[i - 1]] BY <4>2 DEF Load
      <4>4. h.next[q[i - 1]] = IF i - 1 = n THEN NULL ELSE q[(i - 1) + 1] BY <4>1, <1>1
      <4>5. (i - 1) + 1 = i /\ (i - 1 = n <=> ~(i <= n)) BY <3>3, <1>1
      <4> QED BY <4>3, <4>4, <4>5, <3>2, <2>2
    <3>4. CASE ~(i - 1 <= n)
      <4>1. ~(i <= n) BY <3>4, <1>1
      <4> QED BY <4>1, <3>1, <3>2, <3>4, <2>2 DEF Load
    <3> QED BY <3>3, <3>4
  <2> QED BY <2>1, <2>2
<1>3. f \in [1 .. b + 1 -> Pointer] BY <1>1 DEF Pointer
<1>4. \A i \in 1 .. b : f[i] # NULL <=> i <= n BY <1>1
<1>5. \A i \in 1 .. n : f[i] = q[i] BY <1>1
<1> HIDE DEF f
<1>6. Goes(h.head[l], h.next, b, f, n) BY <1>1, <1>2, <1>3, <1>4 DEF Goes
<1>7. Forward(h, l, b) \in [1 .. n -> Pointer] /\ \A i \in 1 .. n : Forward(h, l, b)[i] = f[i]
  BY <1>6, WalkIs DEF Forward
<1> QED BY <1>1, <1>5, <1>7

LEMMA ReadBackward ==
  ASSUME NEW h, NEW l, NEW q, NEW n, Holds(h, l, q, n), NEW b \in Nat, n <= b
  PROVE  /\ Len(Backward(h, l, b)) = n
         /\ \A i \in 1 .. n : Backward(h, l, b)[i] = q[n + 1 - i]
<1> USE ListAssumption
<1> DEFINE f == [i \in 1 .. b + 1 |-> IF i <= n THEN q[n + 1 - i] ELSE NULL]
<1>1. /\ n \in Nat /\ q \in [1 .. n -> Nodes]
      /\ h.tail[l] = IF n = 0 THEN NULL ELSE q[n]
      /\ \A i \in 1 .. n : h.prev[q[i]] = IF i = 1 THEN NULL ELSE q[i - 1]
      /\ \A i \in 1 .. n : q[i] # NULL
  BY DEF Holds
<1>2. ASSUME NEW i \in 1 .. b + 1
      PROVE  f[i] = IF i = 1 THEN h.tail[l] ELSE Load(h.prev, f[i - 1])
  <2>1. CASE i = 1
    <3>1. f[1] = IF 1 <= n THEN q[n + 1 - 1] ELSE NULL BY <2>1
    <3>2. n + 1 - 1 = n /\ (1 <= n <=> n # 0) BY <1>1
    <3> QED BY <2>1, <3>1, <3>2, <1>1
  <2>2. CASE i # 1
    <3>1. i - 1 \in 1 .. b + 1 /\ f[i - 1] = IF i - 1 <= n THEN q[n + 1 - (i - 1)] ELSE NULL BY <2>2
    <3>2. f[i] = IF i <= n THEN q[n + 1 - i] ELSE NULL OBVIOUS
    <3> HIDE DEF f
    <3>3. CASE i - 1 <= n
      <4> DEFINE k == n + 1 - (i - 1)
      <4>1. k \in 1 .. n /\ k - 1 = n + 1 - i /\ (k = 1 <=> ~(i <= n)) BY <3>1, <3>3, <1>1
      <4>2. f[i - 1] = q[k] BY <3>1, <3>3
      <4> HIDE DEF k
      <4>3. q[k] # NULL BY <4>1, <1>1
      <4>4. Load(h.prev, f[i - 1]) = h.prev[q[k]] BY <4>2, <4>3 DEF Load
      <4>5. h.prev[q[k]] = IF k = 1 THEN NULL ELSE q[k - 1] BY <4>1, <1>1
      <4> QED BY <4>1, <4>4, <4>5, <3>2, <2>2
    <3>4. CASE ~(i - 1 <= n)
      <4>1. ~(i <= n) BY <3>4, <1>1
      <4> QED BY <4>1, <3>1, <3>2, <3>4, <2>2 DEF Load
    <3> QED BY <3>3, <3>4
  <2> QED BY <2>1, <2>2
<1>3. f \in [1 .. b + 1 -> Pointer] BY <1>1 DEF Pointer
<1>4a. \A i \in 1 .. n : n + 1 - i \in 1 .. n BY <1>1
<1>4. \A i \in 1 .. b : f[i] # NULL <=> i <= n BY <1>1, <1>4a
<1>5. \A i \in 1 .. n : f[i] = q[n + 1 - i] BY <1>1
<1> HIDE DEF f
<1>6. Goes(h.tail[l], h.prev, b, f, n) BY <1>1, <1>2, <1>3, <1>4 DEF Goes
<1>7. Backward(h, l, b) \in [1 .. n -> Pointer] /\ \A i \in 1 .. n : Backward(h, l, b)[i] = f[i]
  BY <1>6, WalkIs DEF Backward
<1> QED BY <1>1, <1>5, <1>7

(* A well formed list reads as what it holds, in both directions.          *)
LEMMA ReadList ==
  ASSUME NEW h, NEW l, NEW S, ListOf(h, l, S), NEW b \in Nat, Cardinality(Threads) <= b,
         NEW q, q = Forward(h, l, b)
  PROVE  /\ q \in Seq(Nodes) /\ IsList(h, l, q)
         /\ {q[i] : i \in DOMAIN q} = S
         /\ Len(q) = Cardinality(S)
         /\ Last(h, l) = IF S = {} THEN NULL ELSE q[Len(q)]
<1> USE ListAssumption, SchedAssumption
<1>1. PICK n, p : Holds(h, l, p, n) /\ S = On(p, n) BY DEF ListOf
<1>2. /\ n \in Nat /\ p \in [1 .. n -> Nodes] /\ h.count[l] = n
      /\ h.tail[l] = IF n = 0 THEN NULL ELSE p[n]
  BY <1>1 DEF Holds
<1>3. IsFiniteSet(S) /\ Cardinality(S) = n /\ S \subseteq Nodes BY <1>1, ListSize
<1>4. n <= Cardinality(Threads) /\ Cardinality(Threads) \in Nat
  BY <1>3, FS_Subset, FS_CardinalityType
<1>5. q = p BY <1>1, <1>2, <1>4, ReadForward
<1>6. p \in Seq(Nodes) /\ Len(p) = n /\ DOMAIN p = 1 .. n BY <1>2
<1>7. n <= n + 1 /\ n + 1 \in Nat BY <1>2
<1>8. Forward(h, l, n + 1) = p BY <1>1, <1>7, ReadForward
<1>9. /\ Len(Backward(h, l, n + 1)) = n
      /\ \A i \in 1 .. n : Backward(h, l, n + 1)[i] = p[n + 1 - i]
  BY <1>1, <1>7, ReadBackward
<1>10. IsList(h, l, p) BY <1>2, <1>6, <1>8, <1>9 DEF IsList
<1>11. {p[i] : i \in DOMAIN p} = S BY <1>1, <1>6 DEF On
<1>12. S = {} <=> n = 0
  <2>1. n # 0 => 1 \in 1 .. n BY <1>2
  <2>2. n = 0 => 1 .. n = {} BY <1>2
  <2> QED BY <2>1, <2>2, <1>1 DEF On
<1> QED BY <1>2, <1>3, <1>5, <1>6, <1>10, <1>11, <1>12 DEF Last

(* sched_node of t is met on the queue of u.                               *)
LEMMA OnQueueIs ==
  ASSUME NEW h, NEW u, NEW S, ListOf(h, u, S), NEW t
  PROVE  OnQueue(h, u, t) <=> t \in S
<1> USE SchedAssumption
<1> DEFINE q == Forward(h, u, Cardinality(Threads))
<1>1. Cardinality(Threads) \in Nat BY FS_CardinalityType
<1>2. {q[i] : i \in DOMAIN q} = S BY <1>1, ReadList
<1>3. OnQueue(h, u, t) <=> t \in {q[i] : i \in DOMAIN q} BY DEF OnQueue
<1> QED BY <1>2, <1>3

-------------------------------------------------------------------------------
(* A pointer that is not NULL leads to a thread of u.                      *)
LeadsTo(p, u, un) == p # NULL => u \in Units /\ un[p] = u

(* Every pointer that starts at a unit's queue or at a thread stays within *)
(* that unit; un is th->unit of each thread.                               *)
AtHome(h, un) ==
  /\ \A u \in Units : LeadsTo(h.head[u], u, un) /\ LeadsTo(h.tail[u], u, un)
  /\ \A t \in Threads : LeadsTo(h.next[t], un[t], un) /\ LeadsTo(h.prev[t], un[t], un)

LEMMA EmptyAtHome ==
  ASSUME NEW un PROVE EmptyHeap \in Heap /\ AtHome(EmptyHeap, un)
<1> USE ListAssumption, SchedAssumption
<1>1. 0 \in 0 .. CountMod - 1 OBVIOUS
<1> QED BY <1>1 DEF EmptyHeap, Heap, Pointer, AtHome, LeadsTo

(* linked_list_add_head of a thread to the queue of its own unit.          *)
LEMMA AddHeadAtHome ==
  ASSUME NEW h \in Heap, NEW un \in [Threads -> Units \cup {NULL}],
         NEW t \in Threads, un[t] \in Units, AtHome(h, un)
  PROVE  AddHead(h, un[t], t) \in Heap /\ AtHome(AddHead(h, un[t], t), un)
<1> DEFINE l == un[t]
           g == AddHead(h, l, t)
<1> USE ListAssumption, SchedAssumption
<1>0. l \in Lists /\ t \in Nodes OBVIOUS
<1>1. Grown(h, l, 1) \in [Lists -> 0 .. CountMod - 1]
  BY DEF Grown, Store, Heap
<1>2. CASE h.head[l] = NULL /\ h.tail[l] = NULL
  <2>1. g = Alone(h, l, t) BY <1>2 DEF AddHead
  <2>2. g \in Heap BY <2>1, <1>0, <1>1 DEF Alone, Heap, Store, Pointer
  <2>3. AtHome(g, un)
    BY <2>1, <1>0 DEF Alone, Heap, Store, Pointer, AtHome, LeadsTo
  <2> QED BY <2>2, <2>3
<1>3. CASE ~(h.head[l] = NULL /\ h.tail[l] = NULL)
  <2>1. g = [h EXCEPT !.next  = Store(@, t, h.head[l]),
                      !.prev  = Store(Store(@, h.head[l], t), t, NULL),
                      !.head  = Store(@, l, t),
                      !.count = Grown(h, l, 1)] BY <1>3 DEF AddHead
  <2>2. /\ Store(h.next, t, h.head[l]) \in [Nodes -> Pointer]
        /\ Store(Store(h.prev, h.head[l], t), t, NULL) \in [Nodes -> Pointer]
        /\ Store(h.head, l, t) \in [Lists -> Pointer]
    BY <1>0 DEF Heap, Store, Pointer
  <2>3. g \in Heap BY <2>1, <2>2, <1>1 DEF Heap
  <2>4. AtHome(g, un)
    BY <2>1, <1>0 DEF Heap, Store, Pointer, AtHome, LeadsTo
  <2> QED BY <2>3, <2>4
<1> QED BY <1>2, <1>3

(* linked_list_remove of a thread from the queue of its own unit, whether  *)
(* it is on it or not.                                                     *)
LEMMA RemoveAtHome ==
  ASSUME NEW h \in Heap, NEW un \in [Threads -> Units \cup {NULL}],
         NEW t \in Threads, un[t] \in Units, AtHome(h, un)
  PROVE  Remove(h, un[t], t) \in Heap /\ AtHome(Remove(h, un[t], t), un)
<1> DEFINE l == un[t]
           p == h.prev[t]
           next1 == IF p = NULL THEN h.next ELSE Store(h.next, p, h.next[t])
           s == next1[t]
           g == Remove(h, l, t)
<1> USE ListAssumption, SchedAssumption
<1>0. l \in Lists /\ t \in Nodes OBVIOUS
<1>1. Grown(h, l, -1) \in [Lists -> 0 .. CountMod - 1]
  BY DEF Grown, Store, Heap
<1>2. g = [h EXCEPT !.next  = next1,
                    !.head  = IF p = NULL THEN Store(@, l, h.next[t]) ELSE @,
                    !.tail  = IF s = NULL THEN Store(@, l, p) ELSE @,
                    !.prev  = IF s = NULL THEN @ ELSE Store(@, s, p),
                    !.count = Grown(h, l, -1)]
  BY DEF Remove
<1>3. /\ next1 \in [Nodes -> Pointer] /\ p \in Pointer /\ s \in Pointer
      /\ h.next[t] \in Pointer
      /\ LeadsTo(p, l, un) /\ LeadsTo(h.next[t], l, un) /\ LeadsTo(s, l, un)
  BY <1>0 DEF Heap, Store, Pointer, AtHome, LeadsTo
<1>4. g \in Heap
  <2> HIDE DEF next1, p, s
  <2>1. /\ Store(h.head, l, h.next[t]) \in [Lists -> Pointer]
        /\ Store(h.tail, l, p) \in [Lists -> Pointer]
        /\ Store(h.prev, s, p) \in [Nodes -> Pointer]
    BY <1>0, <1>3 DEF Heap, Store, Pointer
  <2> QED BY <1>1, <1>2, <1>3, <2>1 DEF Heap
<1>5. \A x \in Threads : LeadsTo(next1[x], un[x], un)
  BY <1>0, <1>3 DEF Heap, Store, Pointer, AtHome, LeadsTo
<1>6. AtHome(g, un)
  <2> HIDE DEF next1, p, s
  <2>1. /\ g.next = next1
        /\ g.head = IF p = NULL THEN Store(h.head, l, h.next[t]) ELSE h.head
        /\ g.tail = IF s = NULL THEN Store(h.tail, l, p) ELSE h.tail
        /\ g.prev = IF s = NULL THEN h.prev ELSE Store(h.prev, s, p)
    BY <1>2 DEF Heap
  <2> HIDE DEF g
  <2>2. \A u \in Units : LeadsTo(g.head[u], u, un)
    BY <1>0, <1>3, <2>1 DEF Heap, Store, AtHome, LeadsTo
  <2>3. \A u \in Units : LeadsTo(g.tail[u], u, un)
    BY <1>0, <1>3, <2>1 DEF Heap, Store, AtHome, LeadsTo
  <2>4. \A x \in Threads : LeadsTo(g.prev[x], un[x], un)
    BY <1>0, <1>3, <2>1 DEF Heap, Store, AtHome, LeadsTo
  <2> QED BY <1>5, <2>1, <2>2, <2>3, <2>4 DEF AtHome
<1> QED BY <1>4, <1>6

-------------------------------------------------------------------------------
(* The inductive invariant: the queues do not mix, every unit runs one of  *)
(* its own threads, and only what has a unit gets a timer or an interrupt. *)
HomeInv ==
  /\ SchedTypeOK
  /\ cur \in [Units -> All \cup {NULL}]
  /\ AtHome(heap, unit)
  /\ \A u \in Units : cur[u] \in Threads => unit[cur[u]] = u
  /\ \A u \in Units : cur[u] # NULL => units # <<>>
  /\ \A u \in Units : irq[u] => cur[u] # NULL
  /\ \A t \in Threads : timer[t] => unit[t] # NULL

(* What an action that leaves the queues, the units and the running        *)
(* threads alone has to show.                                              *)
LEMMA HomeKept ==
  ASSUME HomeInv, SchedTypeOK', UNCHANGED <<heap, cur, unit, units>>,
         \A u \in Units : irq'[u] => cur[u] # NULL,
         \A t \in Threads : timer'[t] => unit[t] # NULL
  PROVE  HomeInv'
<1>1. AtHome(heap', unit') BY DEF HomeInv
<1> QED BY <1>1 DEF HomeInv

(* sched_find_least_used_unit returns one of the units there are.          *)
LEMMA LeastUsedIsUnit ==
  ASSUME units \in Seq(Units), units # <<>>
  PROVE  LeastUsed \in Units
<1> DEFINE used(i) == Cardinality(Pinned(units[i]))
           least(i) == \A j \in DOMAIN units : used(i) <= used(j)
           U == {used(i) : i \in DOMAIN units}
           I == {i \in DOMAIN units : least(i)}
<1>1. units \in Seq(Units) /\ DOMAIN units = 1 .. Len(units) /\ DOMAIN units # {}
  <2>1. Len(units) \in Nat /\ Len(units) # 0 BY EmptySeq
  <2>2. DOMAIN units = 1 .. Len(units) OBVIOUS
  <2>3. 1 \in 1 .. Len(units) BY <2>1
  <2> QED BY <2>2, <2>3
<1>2. \A i \in DOMAIN units : used(i) \in Nat
  <2> TAKE i \in DOMAIN units
  <2>1. IsFiniteSet(Threads) BY SchedAssumption
  <2>2. Pinned(units[i]) \subseteq Threads BY DEF Pinned
  <2>3. IsFiniteSet(Pinned(units[i])) BY <2>1, <2>2, FS_Subset
  <2> QED BY <2>3, FS_CardinalityType
<1>3. U \in SUBSET Nat /\ U # {} BY <1>1, <1>2
<1>4. PICK k \in DOMAIN units : \A n \in U : used(k) <= n
  <2>1. PICK m \in U : \A n \in U : m <= n
    <3> HIDE DEF U
    <3> QED BY <1>3, LeastNat
  <2> QED BY <2>1
<1>5. least(k) BY <1>4
<1>6. I \in SUBSET Nat /\ I # {} BY <1>1, <1>5
<1>7. PICK i \in I : \A j \in I : i <= j
  <2> HIDE DEF I
  <2> QED BY <1>6, LeastNat
<1>8. \E x \in DOMAIN units : least(x) /\ \A j \in DOMAIN units : least(j) => x <= j
  BY <1>7
<1>9. LeastUsed = units[CHOOSE x \in DOMAIN units :
                          least(x) /\ \A j \in DOMAIN units : least(j) => x <= j]
  BY DEF LeastUsed
<1> HIDE DEF least
<1>10. \E x \in DOMAIN units : LeastUsed = units[x] BY <1>8, <1>9
<1> QED BY <1>1, <1>10

(* sched_main on u.                                                        *)
LEMMA SwitchAtHome ==
  ASSUME HomeInv, NEW u \in Units, Switch(u)
  PROVE  /\ heap' \in Heap /\ AtHome(heap', unit)
         /\ cur' \in [Units -> All \cup {NULL}]
         /\ \A v \in Units : /\ cur'[v] \in Threads \cup {v, NULL}
                             /\ cur'[v] \in Threads => unit[cur'[v]] = v
                             /\ v # u => cur'[v] = cur[v]
                             /\ cur[v] # NULL => cur'[v] # NULL
         /\ cpuLeft' \in [All -> Nat]
<1> USE ListAssumption, SchedAssumption
<1>1. CASE preempt[u] > 0
  <2>1. UNCHANGED <<heap, cur, cpuLeft>> BY <1>1 DEF Switch
  <2> QED BY <2>1 DEF HomeInv, SchedTypeOK
<1>2. CASE ~(preempt[u] > 0)
  <2> DEFINE q == QueueWithout(u, cur[u])
             next == Pick(q, u)
  <2>1. q \in Heap /\ AtHome(q, unit)
    <3>1. CASE cur[u] \notin Threads BY <3>1 DEF QueueWithout, HomeInv, SchedTypeOK
    <3>2. CASE cur[u] \in Threads
      <4>1. unit \in [Threads -> Units \cup {NULL}] /\ unit[cur[u]] = u /\ heap \in Heap
        BY <3>2 DEF HomeInv, SchedTypeOK
      <4>2. Remove(heap, u, cur[u]) \in Heap /\ AtHome(Remove(heap, u, cur[u]), unit)
        BY <3>2, <4>1, RemoveAtHome DEF HomeInv
      <4>3. /\ AddHead(Remove(heap, u, cur[u]), u, cur[u]) \in Heap
            /\ AtHome(AddHead(Remove(heap, u, cur[u]), u, cur[u]), unit)
        BY <3>2, <4>1, <4>2, AddHeadAtHome
      <4> QED BY <3>2, <4>2, <4>3 DEF QueueWithout
    <3> QED BY <3>1, <3>2
  <2>2. next \in Threads \cup {u} /\ (next \in Threads => unit[next] = u)
    BY <2>1 DEF Pick, Last, AtHome, LeadsTo, Heap, Pointer
  <2>3. /\ heap' = q
        /\ cpuLeft' = [cpuLeft EXCEPT ![next] = Quantum(next)]
        /\ cur' = [cur EXCEPT ![u] = next]
    BY <1>2 DEF Switch
  <2> HIDE DEF q, next
  <2>4. Quantum(next) \in Nat BY <2>2 DEF Quantum
  <2>5. cpuLeft' \in [All -> Nat] BY <2>2, <2>3, <2>4 DEF HomeInv, SchedTypeOK, All
  <2>6. cur' \in [Units -> All \cup {NULL}] BY <2>2, <2>3 DEF HomeInv, All
  <2>7. ASSUME NEW v \in Units
        PROVE  /\ cur'[v] \in Threads \cup {v, NULL}
               /\ cur'[v] \in Threads => unit[cur'[v]] = v
               /\ v # u => cur'[v] = cur[v]
               /\ cur[v] # NULL => cur'[v] # NULL
    BY <2>2, <2>3 DEF HomeInv, SchedTypeOK, All
  <2> QED BY <2>1, <2>3, <2>5, <2>6, <2>7
<1> QED BY <1>1, <1>2

(* The same for the whole invariant, when the rest of the step is harmless *)
LEMMA HomeSwitch ==
  ASSUME HomeInv, NEW u \in Units, Switch(u), units # <<>>,
         UNCHANGED <<units, preempt, start, unit, flags, timer, clean>>,
         irq' \in [Units -> BOOLEAN], \A v \in Units : irq'[v] => irq[v],
         pc' \in [Threads -> {"new", "starting", "run", "slept", "asleep", "exiting", "ended"}]
  PROVE  HomeInv'
<1>1. /\ heap' \in Heap /\ AtHome(heap', unit)
      /\ cur' \in [Units -> All \cup {NULL}]
      /\ \A v \in Units : /\ cur'[v] \in Threads \cup {v, NULL}
                          /\ cur'[v] \in Threads => unit[cur'[v]] = v
                          /\ v # u => cur'[v] = cur[v]
                          /\ cur[v] # NULL => cur'[v] # NULL
      /\ cpuLeft' \in [All -> Nat]
  BY SwitchAtHome
<1>2. SchedTypeOK' BY <1>1 DEF HomeInv, SchedTypeOK
<1>3. AtHome(heap', unit') BY <1>1
<1> QED BY <1>1, <1>2, <1>3 DEF HomeInv

(* sched_wake_thread of a thread that has a unit.                          *)
LEMMA WakesAtHome ==
  ASSUME HomeInv, NEW t \in Threads, unit[t] # NULL, Wakes(t)
  PROVE  /\ heap' \in Heap /\ AtHome(heap', unit)
         /\ flags' \in [All -> SUBSET {"READY", "DEAD", "NEED_RESCHEDULE"}]
         /\ clean' \in BOOLEAN
<1>1. unit[t] \in Units /\ unit \in [Threads -> Units \cup {NULL}] /\ heap \in Heap
  BY DEF HomeInv, SchedTypeOK
<1>2. heap' \in Heap /\ AtHome(heap', unit)
  BY <1>1, AddHeadAtHome DEF Wakes, HomeInv
<1>3. flags' \in [All -> SUBSET {"READY", "DEAD", "NEED_RESCHEDULE"}]
  BY DEF Wakes, HomeInv, SchedTypeOK, All
<1>4. clean' \in BOOLEAN BY DEF Wakes, HomeInv, SchedTypeOK
<1> QED BY <1>2, <1>3, <1>4

-------------------------------------------------------------------------------
LEMMA HomeInit == SchedInit => HomeInv
<1> SUFFICES ASSUME SchedInit PROVE HomeInv OBVIOUS
<1> USE ListAssumption, SchedAssumption
<1>1. heap \in Heap /\ AtHome(heap, unit) BY EmptyAtHome DEF SchedInit
<1>2. units \in Seq(Units) BY DEF SchedInit
<1>3. SchedTypeOK BY <1>1, <1>2 DEF SchedInit, SchedTypeOK, All
<1> QED BY <1>1, <1>3 DEF SchedInit, HomeInv, All

(* Bringing up units and threads.                                          *)
LEMMA HomeStart ==
  ASSUME HomeInv, NEW u \in Units, NEW t \in Threads,
         UnitInit(u) \/ FirstSchedule(u) \/ StartPick(u, t) \/ StartPin(u) \/ StartEnq(u)
  PROVE  HomeInv'
<1> USE ListAssumption, SchedAssumption
<1>1. CASE UnitInit(u)
  <2>1. units' \in Seq(Units) /\ units' # <<>>
    <3>1. units \in Seq(Units) BY DEF HomeInv, SchedTypeOK
    <3> QED BY <1>1, <3>1, AppendProperties DEF UnitInit
  <2>2. UNCHANGED <<cur, preempt, irq, start, unit, flags, cpuLeft, pc, timer, heap, clean>>
    BY <1>1 DEF UnitInit, threadVars
  <2>3. AtHome(heap', unit') BY <2>2 DEF HomeInv
  <2>4. SchedTypeOK' BY <2>1, <2>2 DEF HomeInv, SchedTypeOK
  <2> QED BY <2>1, <2>2, <2>3, <2>4 DEF HomeInv
<1>2. CASE FirstSchedule(u)
  <2>1. Switch(u) /\ UNCHANGED <<units, preempt, irq, start, unit, flags, pc, timer, clean>>
    BY <1>2 DEF FirstSchedule
  <2>2. units # <<>> BY <1>2 DEF FirstSchedule
  <2>3. /\ irq' \in [Units -> BOOLEAN] /\ \A v \in Units : irq'[v] => irq[v]
        /\ pc' \in [Threads -> {"new", "starting", "run", "slept", "asleep", "exiting", "ended"}]
    BY <2>1 DEF HomeInv, SchedTypeOK
  <2> QED BY <2>1, <2>2, <2>3, HomeSwitch
<1>3. CASE StartPick(u, t)
  <2>1. units # <<>> BY <1>3 DEF StartPick, MayStart, HomeInv
  <2>2. LeastUsed \in Units BY <2>1, LeastUsedIsUnit DEF HomeInv, SchedTypeOK
  <2>3. /\ UNCHANGED <<units, cur, preempt, irq, unit, flags, cpuLeft, timer, heap, clean>>
        /\ start' = [start EXCEPT ![u] = <<t, LeastUsed>>]
        /\ pc' = [pc EXCEPT ![t] = "starting"]
    BY <1>3 DEF StartPick, Goto
  <2>4. SchedTypeOK' BY <2>2, <2>3 DEF HomeInv, SchedTypeOK
  <2> QED BY <2>3, <2>4, HomeKept DEF HomeInv
<1>4. CASE StartPin(u)
  <2> DEFINE x == start[u][1]
  <2>1. x \in Threads /\ start[u][2] \in Units /\ unit[x] = NULL
    BY <1>4 DEF StartPin, HomeInv, SchedTypeOK
  <2>2. /\ unit' = [unit EXCEPT ![x] = start[u][2]]
        /\ UNCHANGED <<units, cur, preempt, irq, start, flags, cpuLeft, pc, timer, heap, clean>>
    BY <1>4 DEF StartPin, unitVars
  <2> HIDE DEF x
  <2>3. SchedTypeOK' BY <2>1, <2>2 DEF HomeInv, SchedTypeOK
  <2>4. unit \in [Threads -> Units \cup {NULL}] /\ heap \in Heap /\ AtHome(heap, unit)
    BY DEF HomeInv, SchedTypeOK
  <2>5. AtHome(heap', unit')
    <3>1. ASSUME NEW p \in Pointer, NEW v, LeadsTo(p, v, unit)
          PROVE  LeadsTo(p, v, unit')
      BY <2>1, <2>2, <2>4, <3>1 DEF LeadsTo, Pointer
    <3>2. \A v \in Units : LeadsTo(heap.head[v], v, unit') /\ LeadsTo(heap.tail[v], v, unit')
      BY <2>4, <3>1 DEF AtHome, Heap
    <3>3. \A y \in Threads : LeadsTo(heap.next[y], unit[y], unit') /\ LeadsTo(heap.prev[y], unit[y], unit')
      BY <2>4, <3>1 DEF AtHome, Heap
    <3>4. heap.next[x] = NULL /\ heap.prev[x] = NULL
      BY <2>1, <3>3 DEF LeadsTo
    <3>5. \A y \in Threads : LeadsTo(heap.next[y], unit'[y], unit') /\ LeadsTo(heap.prev[y], unit'[y], unit')
      BY <2>1, <2>2, <2>4, <3>3, <3>4 DEF LeadsTo
    <3> QED BY <2>2, <3>2, <3>5 DEF AtHome
  <2>6. \A v \in Units : cur'[v] \in Threads => unit'[cur'[v]] = v
    BY <2>1, <2>2, <2>4 DEF HomeInv
  <2>7. \A y \in Threads : timer'[y] => unit'[y] # NULL
    BY <2>1, <2>2, <2>4 DEF HomeInv
  <2> QED BY <2>2, <2>3, <2>5, <2>6, <2>7 DEF HomeInv
<1>5. CASE StartEnq(u)
  <2> DEFINE x == start[u][1]
  <2>1. x \in Threads /\ unit[x] \in Units
    BY <1>5 DEF StartEnq, HomeInv, SchedTypeOK
  <2>2. /\ heap' = AddHead(heap, unit[x], x)
        /\ pc' = [pc EXCEPT ![x] = "run"]
        /\ start' = [start EXCEPT ![u] = <<>>]
        /\ UNCHANGED <<units, cur, preempt, irq, unit, flags, cpuLeft, timer, clean>>
    BY <1>5 DEF StartEnq, Goto
  <2> HIDE DEF x
  <2>3. heap' \in Heap /\ AtHome(heap', unit)
    BY <2>1, <2>2, AddHeadAtHome DEF HomeInv, SchedTypeOK
  <2>4. SchedTypeOK' BY <2>1, <2>2, <2>3 DEF HomeInv, SchedTypeOK
  <2>5. AtHome(heap', unit') BY <2>2, <2>3
  <2> QED BY <2>2, <2>4, <2>5 DEF HomeInv
<1> QED BY <1>1, <1>2, <1>3, <1>4, <1>5

(* Interrupts.                                                             *)
LEMMA HomeInterrupt ==
  ASSUME HomeInv, NEW u \in Units, NEW t \in Threads,
         Tick(u) \/ TimerIsr(u, t) \/ IsrEnd(u)
  PROVE  HomeInv'
<1> USE ListAssumption, SchedAssumption
<1>1. CASE Tick(u)
  <2>1. /\ cur[u] # NULL /\ irq' = [irq EXCEPT ![u] = TRUE]
        /\ UNCHANGED <<units, cur, preempt, start, unit, pc, timer, heap, clean>>
    BY <1>1 DEF Tick, Open
  <2>2. cur[u] \in All BY <2>1 DEF HomeInv, SchedTypeOK, All
  <2>3. /\ cpuLeft' \in [All -> Nat]
        /\ flags' \in [All -> SUBSET {"READY", "DEAD", "NEED_RESCHEDULE"}]
    <3>1. /\ cpuLeft \in [All -> Nat]
          /\ flags \in [All -> SUBSET {"READY", "DEAD", "NEED_RESCHEDULE"}]
      BY DEF HomeInv, SchedTypeOK
    <3>2. CASE cpuLeft[cur[u]] > 0
      BY <1>1, <2>2, <3>1, <3>2 DEF Tick
    <3>3. CASE cpuLeft[cur[u]] = 0
      <4>1. /\ cpuLeft' = cpuLeft
            /\ \/ flags' = flags
               \/ flags' = [flags EXCEPT ![cur[u]] = @ \cup {"NEED_RESCHEDULE"}]
        BY <1>1, <3>3 DEF Tick
      <4> QED BY <2>2, <3>1, <4>1
    <3> QED BY <2>2, <3>1, <3>2, <3>3
  <2>4. SchedTypeOK' BY <2>1, <2>3 DEF HomeInv, SchedTypeOK
  <2> QED BY <2>1, <2>4, HomeKept DEF HomeInv, SchedTypeOK
<1>2. CASE TimerIsr(u, t)
  <2>1. /\ cur[u] # NULL /\ irq' = [irq EXCEPT ![u] = TRUE]
        /\ unit[t] # NULL /\ timer' = [timer EXCEPT ![t] = FALSE]
        /\ Wakes(t)
        /\ UNCHANGED <<units, cur, preempt, start, unit, cpuLeft, pc>>
    BY <1>2 DEF TimerIsr, Open, HomeInv
  <2>2. SchedTypeOK' BY <2>1, WakesAtHome DEF HomeInv, SchedTypeOK
  <2>3. AtHome(heap', unit') BY <2>1, WakesAtHome
  <2> QED BY <2>1, <2>2, <2>3 DEF HomeInv, SchedTypeOK
<1>3. CASE IsrEnd(u)
  <2>1. /\ irq' = [irq EXCEPT ![u] = FALSE]
        /\ UNCHANGED <<units, preempt, start, unit, flags, pc, timer, clean>>
    BY <1>3 DEF IsrEnd
  <2>2. irq' \in [Units -> BOOLEAN] /\ \A v \in Units : irq'[v] => irq[v]
    BY <2>1 DEF HomeInv, SchedTypeOK
  <2>3. CASE Switch(u)
    <3>1. units # <<>> BY <1>3 DEF IsrEnd, HomeInv
    <3>2. pc' \in [Threads -> {"new", "starting", "run", "slept", "asleep", "exiting", "ended"}]
      BY <2>1 DEF HomeInv, SchedTypeOK
    <3> QED BY <2>1, <2>2, <2>3, <3>1, <3>2, HomeSwitch
  <2>4. CASE UNCHANGED <<heap, cur, cpuLeft>>
    <3>1. SchedTypeOK' BY <2>1, <2>2, <2>4 DEF HomeInv, SchedTypeOK
    <3> QED BY <2>1, <2>2, <2>4, <3>1, HomeKept DEF HomeInv
  <2> QED BY <1>3, <2>3, <2>4 DEF IsrEnd
<1> QED BY <1>1, <1>2, <1>3

(* The calls of a running thread.                                          *)
LEMMA HomeCalls ==
  ASSUME HomeInv, NEW t \in Threads, NEW from, NEW to \in
           {"new", "starting", "run", "slept", "asleep", "exiting", "ended"},
         Calls(t, from, to)
  PROVE  HomeInv'
<1>1. /\ unit[t] \in Units /\ cur[unit[t]] = t /\ cur[unit[t]] # NULL
      /\ Switch(unit[t]) /\ pc' = [pc EXCEPT ![t] = to]
      /\ UNCHANGED <<units, preempt, irq, start, unit, flags, timer, clean>>
  BY DEF Calls, At, Open, Goto, HomeInv, SchedTypeOK
<1>2. pc' \in [Threads -> {"new", "starting", "run", "slept", "asleep", "exiting", "ended"}]
  BY <1>1 DEF HomeInv, SchedTypeOK
<1>3. irq' \in [Units -> BOOLEAN] /\ \A v \in Units : irq'[v] => irq[v]
  BY <1>1 DEF HomeInv, SchedTypeOK
<1>4. units # <<>> BY <1>1 DEF HomeInv
<1> QED BY <1>1, <1>2, <1>3, <1>4, HomeSwitch

LEMMA HomeThread ==
  ASSUME HomeInv, NEW t \in Threads, ThreadNext(t)
  PROVE  HomeInv'
<1>1. CASE SleepSchedule(t) \/ ExitYield(t) \/ Yield(t)
  BY <1>1, HomeCalls DEF SleepSchedule, ExitYield, Yield
<1>2. CASE Sleep(t)
  <2>1. /\ unit[t] # NULL
        /\ flags' = [flags EXCEPT ![t] = @ \ {"READY"}]
        /\ timer' = [timer EXCEPT ![t] = TRUE]
        /\ pc' = [pc EXCEPT ![t] = "slept"]
        /\ UNCHANGED <<units, cur, preempt, irq, start, unit, cpuLeft, heap, clean>>
    BY <1>2 DEF Sleep, SleepPrep, At, Goto, unitVars
  <2>2. SchedTypeOK' BY <2>1 DEF HomeInv, SchedTypeOK, All
  <2> QED BY <2>1, <2>2, HomeKept DEF HomeInv, SchedTypeOK
<1>3. CASE SleepReturn(t)
  <2>1. /\ timer' = [timer EXCEPT ![t] = FALSE]
        /\ pc' = [pc EXCEPT ![t] = "run"]
        /\ UNCHANGED <<units, cur, preempt, irq, start, unit, flags, cpuLeft, heap, clean>>
    BY <1>3 DEF SleepReturn, SleepEnd, Goto, unitVars
  <2>2. SchedTypeOK' BY <2>1 DEF HomeInv, SchedTypeOK, All
  <2> QED BY <2>1, <2>2, HomeKept DEF HomeInv, SchedTypeOK
<1>4. CASE Exit(t) \/ EntryReturns(t)
  <2>1. /\ flags' = [flags EXCEPT ![t] = @ \cup {"DEAD"}]
        /\ \E to \in {"exiting", "ended"} : pc' = [pc EXCEPT ![t] = to]
        /\ UNCHANGED <<units, cur, preempt, irq, start, unit, cpuLeft, timer, heap, clean>>
    BY <1>4 DEF Exit, EntryReturns, Goto, unitVars
  <2>2. SchedTypeOK' BY <2>1 DEF HomeInv, SchedTypeOK, All
  <2> QED BY <2>1, <2>2, HomeKept DEF HomeInv
<1>5. CASE DisablePreempt(t) \/ EnablePreempt(t)
  <2>1. UNCHANGED <<units, cur, irq, start, unit, flags, cpuLeft, pc, timer, heap, clean>>
    BY <1>5 DEF DisablePreempt, EnablePreempt, threadVars
  <2>2. preempt' \in [Units -> 0 .. MaxPreempt]
    <3>1. unit[t] \in Units /\ preempt \in [Units -> 0 .. MaxPreempt] /\ MaxPreempt \in Nat
      BY <1>5, SchedAssumption DEF DisablePreempt, EnablePreempt, At, HomeInv, SchedTypeOK
    <3>2. \/ preempt[unit[t]] < MaxPreempt /\ preempt' = [preempt EXCEPT ![unit[t]] = @ + 1]
          \/ preempt[unit[t]] > 0 /\ preempt' = [preempt EXCEPT ![unit[t]] = @ - 1]
      BY <1>5 DEF DisablePreempt, EnablePreempt
    <3> QED BY <3>1, <3>2
  <2>3. SchedTypeOK' BY <2>1, <2>2 DEF HomeInv, SchedTypeOK
  <2> QED BY <2>1, <2>3, HomeKept DEF HomeInv
<1> QED BY <1>1, <1>2, <1>3, <1>4, <1>5 DEF ThreadNext, CallNext

LEMMA HomeStep == HomeInv /\ [SchedNext]_schedVars => HomeInv'
<1> SUFFICES ASSUME HomeInv, [SchedNext]_schedVars PROVE HomeInv' OBVIOUS
<1> USE SchedAssumption
<1>1. ASSUME NEW u \in Units, UnitNext(u) PROVE HomeInv'
  <2>1. PICK t \in Threads : TRUE OBVIOUS
  <2>2. CASE UnitInit(u) \/ FirstSchedule(u) \/ StartPin(u) \/ StartEnq(u)
    BY <2>1, <2>2, HomeStart
  <2>3. CASE Tick(u) \/ IsrEnd(u) BY <2>1, <2>3, HomeInterrupt
  <2>4. CASE \E x \in Threads : StartPick(u, x) \/ TimerIsr(u, x)
    BY <2>4, HomeStart, HomeInterrupt
  <2> QED BY <1>1, <2>2, <2>3, <2>4 DEF UnitNext
<1>2. ASSUME NEW t \in Threads, ThreadNext(t) PROVE HomeInv'
  BY <1>2, HomeThread
<1>3. CASE UNCHANGED schedVars
  <2>1. UNCHANGED <<units, cur, preempt, irq, start, unit, flags, cpuLeft, pc, timer, heap, clean>>
    BY <1>3 DEF schedVars, unitVars, threadVars
  <2>2. SchedTypeOK' BY <2>1 DEF HomeInv, SchedTypeOK
  <2> QED BY <2>1, <2>2, HomeKept DEF HomeInv
<1> QED BY <1>1, <1>2, <1>3 DEF SchedNext

(* The scheduler's variables keep their types: in particular the links of  *)
(* the run queues only ever hold threads or NULL, and a unit runs a thread *)
(* or its own idle thread.                                                 *)
THEOREM TypeCorrect == SchedSpec => []SchedTypeOK
<1>1. HomeInv => SchedTypeOK BY DEF HomeInv
<1> QED BY <1>1, HomeInit, HomeStep, PTL DEF SchedSpec

(* A thread runs on the unit it was pinned to and never on two units,      *)
(* however early wakes have tangled the queues.                            *)
THEOREM RunsAtHome == SchedSpec => []OwnUnit
<1>1. HomeInv => OwnUnit
  <2> SUFFICES ASSUME HomeInv, NEW u \in Units
               PROVE  /\ cur[u] \in Threads => unit[cur[u]] = u
                      /\ \A v \in Units : cur[u] = cur[v] /\ cur[u] # NULL => u = v
    BY DEF OwnUnit
  <2>1. cur[u] \in Threads => unit[cur[u]] = u BY DEF HomeInv
  <2>2. ASSUME NEW v \in Units, cur[u] = cur[v], cur[u] # NULL PROVE u = v
    BY <2>2, SchedAssumption DEF HomeInv, SchedTypeOK
  <2> QED BY <2>1, <2>2
<1> QED BY <1>1, HomeInit, HomeStep, PTL DEF SchedSpec

(* READY is taken from a thread only by its own sched_sleep, which arms a  *)
(* timer in the same section; and the timer goes only when it sets READY   *)
(* or when the sleep is over.                                              *)
LEMMA SleepersStep ==
  ASSUME HomeInv, SleepersHaveTimers, [SchedNext]_schedVars
  PROVE  SleepersHaveTimers'
<1> SUFFICES ASSUME NEW t \in Threads, pc'[t] \in {"slept", "asleep"} PROVE Ready(t)' \/ timer'[t]
  BY DEF SleepersHaveTimers
<1> USE SchedAssumption
<1>1. /\ pc \in [Threads -> {"new", "starting", "run", "slept", "asleep", "exiting", "ended"}]
      /\ flags \in [All -> SUBSET {"READY", "DEAD", "NEED_RESCHEDULE"}]
      /\ timer \in [Threads -> BOOLEAN] /\ t \in All
  BY DEF HomeInv, SchedTypeOK, All
<1>2. pc[t] \in {"slept", "asleep"} => Ready(t) \/ timer[t] BY DEF SleepersHaveTimers
<1>3. CASE /\ pc'[t] = pc[t] /\ timer'[t] = timer[t]
           /\ Ready(t) => Ready(t)'
  <2>1. Ready(t) \/ timer[t] BY <1>2, <1>3
  <2>2. CASE Ready(t) BY <1>3, <2>2
  <2>3. CASE timer[t] BY <1>3, <2>3
  <2> QED BY <2>1, <2>2, <2>3
<1>4. ASSUME NEW u \in Units, UnitNext(u) PROVE Ready(t)' \/ timer'[t]
  <2>1. CASE UnitInit(u) \/ FirstSchedule(u) \/ StartPin(u) \/ IsrEnd(u)
    <3>1. UNCHANGED <<pc, timer, flags>>
      BY <2>1 DEF UnitInit, FirstSchedule, StartPin, IsrEnd, threadVars
    <3> QED BY <3>1, <1>3 DEF Ready
  <2>2. CASE StartEnq(u) \/ \E x \in Threads : StartPick(u, x)
    <3>1. PICK at \in {"run", "starting"} : \E x : pc' = [pc EXCEPT ![x] = at]
      BY <2>2 DEF StartEnq, StartPick, Goto
    <3>2. UNCHANGED <<timer, flags>> BY <2>2 DEF StartEnq, StartPick
    <3>3. pc'[t] = pc[t] BY <3>1, <1>1
    <3> QED BY <3>2, <3>3, <1>3 DEF Ready
  <2>3. CASE Tick(u)
    <3>1. UNCHANGED <<pc, timer>> BY <2>3 DEF Tick
    <3>2. Ready(t) => Ready(t)' BY <2>3, <1>1 DEF Tick, Ready
    <3> QED BY <3>1, <3>2, <1>3
  <2>4. ASSUME NEW x \in Threads, TimerIsr(u, x) PROVE Ready(t)' \/ timer'[t]
    <3>1. /\ timer' = [timer EXCEPT ![x] = FALSE] /\ pc' = pc
          /\ flags' = [flags EXCEPT ![x] = flags[x] \cup {"READY"}]
      BY <2>4 DEF TimerIsr, Wakes
    <3>2. CASE x = t BY <3>1, <3>2, <1>1 DEF Ready
    <3>3. CASE x # t
      <4>1. flags'[t] = flags[t] /\ timer'[t] = timer[t] BY <3>1, <3>3, <1>1
      <4> QED BY <4>1, <3>1, <1>3 DEF Ready
    <3> QED BY <3>2, <3>3
  <2> QED BY <1>4, <2>1, <2>2, <2>3, <2>4 DEF UnitNext
<1>5. ASSUME NEW x \in Threads, ThreadNext(x) PROVE Ready(t)' \/ timer'[t]
  <2>1. CASE Sleep(x)
    <3>1. /\ flags' = [flags EXCEPT ![x] = flags[x] \ {"READY"}]
          /\ timer' = [timer EXCEPT ![x] = TRUE] /\ pc' = [pc EXCEPT ![x] = "slept"]
      BY <2>1 DEF Sleep, SleepPrep, Goto
    <3>2. CASE x = t BY <3>1, <3>2, <1>1
    <3>3. CASE x # t
      <4>1. flags'[t] = flags[t] /\ timer'[t] = timer[t] /\ pc'[t] = pc[t]
        BY <3>1, <3>3, <1>1
      <4> QED BY <4>1, <1>3 DEF Ready
    <3> QED BY <3>2, <3>3
  <2>2. CASE SleepReturn(x)
    <3>1. /\ flags' = flags /\ timer' = [timer EXCEPT ![x] = FALSE] /\ pc' = [pc EXCEPT ![x] = "run"]
      BY <2>2 DEF SleepReturn, SleepEnd, Goto
    <3>2. x # t BY <3>1, <1>1
    <3>3. timer'[t] = timer[t] /\ pc'[t] = pc[t] BY <3>1, <3>2, <1>1
    <3> QED BY <3>1, <3>3, <1>3 DEF Ready
  <2>3. CASE SleepSchedule(x) \/ Yield(x) \/ ExitYield(x)
    <3>1. /\ UNCHANGED <<flags, timer>>
          /\ \/ pc[x] = "slept" /\ pc' = [pc EXCEPT ![x] = "asleep"]
             \/ pc' = [pc EXCEPT ![x] = "run"]
      BY <2>3 DEF SleepSchedule, Yield, ExitYield, Calls, Goto, At
    <3>2. pc[t] \in {"slept", "asleep"} BY <3>1, <1>1
    <3> QED BY <3>1, <3>2, <1>2 DEF Ready
  <2>4. CASE Exit(x) \/ EntryReturns(x)
    <3>1. /\ timer' = timer /\ flags' = [flags EXCEPT ![x] = flags[x] \cup {"DEAD"}]
          /\ pc' = [pc EXCEPT ![x] = "exiting"] \/ pc' = [pc EXCEPT ![x] = "ended"]
      BY <2>4 DEF Exit, EntryReturns, Goto
    <3>2. pc'[t] = pc[t] BY <3>1, <1>1
    <3>3. Ready(t) => Ready(t)' BY <3>1, <1>1 DEF Ready
    <3> QED BY <3>1, <3>2, <3>3, <1>3
  <2>5. CASE DisablePreempt(x) \/ EnablePreempt(x)
    <3>1. UNCHANGED <<pc, timer, flags>>
      BY <2>5 DEF DisablePreempt, EnablePreempt, threadVars
    <3> QED BY <3>1, <1>3 DEF Ready
  <2> QED BY <1>5, <2>1, <2>2, <2>3, <2>4, <2>5 DEF ThreadNext, CallNext
<1>6. CASE UNCHANGED schedVars
  <2>1. UNCHANGED <<pc, timer, flags>> BY <1>6 DEF schedVars, threadVars
  <2> QED BY <2>1, <1>3 DEF Ready
<1> QED BY <1>4, <1>5, <1>6 DEF SchedNext

(* A thread in sched_sleep is ready or has its timer, through early wakes  *)
(* and timers that expire on any CPU.                                      *)
THEOREM SleepersWake == SchedSpec => []SleepersHaveTimers
<1>1. SchedInit => SleepersHaveTimers BY DEF SchedInit, SleepersHaveTimers
<1>2. /\ HomeInv /\ SleepersHaveTimers /\ [SchedNext]_schedVars => SleepersHaveTimers'
  BY SleepersStep
<1> QED BY <1>1, <1>2, HomeInit, HomeStep, PTL DEF SchedSpec

-------------------------------------------------------------------------------
(* The queues while every wake has found its thread off its queue.  None   *)
(* of this speaks of the places in which threads sleep, so that the        *)
(* semaphore and the mutex can use it too.                                 *)
Started(t) == pc[t] \notin {"new", "starting"}

(* t is being started, by the code on u.                                   *)
Starting(u, t) == start[u] # <<>> /\ start[u][1] = t

Shape ==
  /\ units \in Seq(Units) /\ DOMAIN pc = Threads
  /\ cur \in [Units -> All \cup {NULL}] /\ irq \in [Units -> BOOLEAN]
  /\ start \in [Units -> {<<>>} \cup (Threads \X Units)]
  /\ unit \in [Threads -> Units \cup {NULL}]
  /\ DOMAIN flags = All /\ timer \in [Threads -> BOOLEAN]
  /\ \A u \in Units : cur[u] # NULL => units # <<>>
  /\ \A u \in Units : irq[u] => cur[u] # NULL

(* A thread has its unit and may sleep only after its start, and has one   *)
(* starter.                                                                *)
Begun ==
  /\ \A t \in Threads : Started(t) => unit[t] # NULL
  /\ \A t \in Threads : ~Started(t) => Ready(t) /\ ~timer[t]
  /\ \A t \in Threads : pc[t] = "new" => unit[t] = NULL
  /\ \A u \in Units, t \in Threads :
       Starting(u, t) => pc[t] = "starting" /\ \A v \in Units : Starting(v, t) => u = v

Queued ==
  /\ heap \in Heap
  /\ \A u \in Units : cur[u] \in Threads => unit[cur[u]] = u /\ Started(cur[u])
  /\ \A u \in Units : ListOf(heap, u, Runnable(u))

QueueInv == clean => Shape /\ Begun /\ Queued

LEMMA QueueInit == SchedInit => QueueInv
<1> SUFFICES ASSUME SchedInit PROVE Shape /\ Begun /\ Queued BY DEF QueueInv
<1> USE SchedAssumption, ListAssumption
<1>1. Shape BY DEF SchedInit, Shape, All
<1>2. Begun BY DEF SchedInit, Begun, Started, Starting, Ready, All
<1>3. \A u \in Units : Runnable(u) = {} BY DEF SchedInit, Runnable, Pinned
<1>4. Queued BY <1>3, EmptyList DEF SchedInit, Queued
<1> QED BY <1>1, <1>2, <1>4

(* A step that leaves the queues and what decides who is on them alone.    *)
LEMMA QueueKept ==
  ASSUME QueueInv, clean' => clean, UNCHANGED <<heap, cur, unit, start>>,
         clean' => /\ units' \in Seq(Units) /\ (units # <<>> => units' # <<>>)
                   /\ irq' \in [Units -> BOOLEAN] /\ \A u \in Units : irq'[u] => cur[u] # NULL
                   /\ DOMAIN flags' = All /\ timer' \in [Threads -> BOOLEAN]
                   /\ DOMAIN pc' = Threads
                   /\ \A t \in Threads :
                        /\ pc'[t] = pc[t] \/ (Started(t) /\ Started(t)')
                        /\ Ready(t)' <=> Ready(t)
                        /\ timer'[t] => timer[t] \/ Started(t)
  PROVE  QueueInv'
<1> SUFFICES ASSUME clean' PROVE Shape' /\ Begun' /\ Queued' BY DEF QueueInv
<1>1. Shape /\ Begun /\ Queued BY DEF QueueInv
<1>2. Shape' BY <1>1 DEF Shape
<1>3. \A t \in Threads : /\ Started(t)' <=> Started(t)
                         /\ (pc[t]' = "new" <=> pc[t] = "new")
                         /\ (pc[t]' = "starting" <=> pc[t] = "starting")
  BY DEF Started
<1>4. \A u \in Units, t \in Threads : Starting(u, t)' <=> Starting(u, t) BY DEF Starting
<1>5. Begun' BY <1>1, <1>3, <1>4 DEF Begun
<1>6. \A u \in Units : Runnable(u)' = Runnable(u) BY <1>3 DEF Runnable, Pinned
<1>7. Queued' BY <1>1, <1>3, <1>6 DEF Queued
<1> QED BY <1>2, <1>5, <1>7

(* sched_block_thread or basic_put_prev_thread: the queue of u holds the   *)
(* threads of u that are ready, and the others are what they were.         *)
Rest(u) == {t \in Pinned(u) : pc[t] # "starting" /\ Ready(t)}

LEMMA WithoutList ==
  ASSUME Shape, Queued, NEW u \in Units, NEW q, q = QueueWithout(u, cur[u])
  PROVE  /\ q \in Heap /\ ListOf(q, u, Rest(u))
         /\ \A v \in Units \ {u} : ListOf(q, v, Runnable(v))
<1> USE SchedAssumption
<1> DEFINE c == cur[u]
           R == Runnable(u)
<1>1. heap \in Heap /\ ListOf(heap, u, R) /\ u \in Lists BY DEF Queued
<1>2. \A v \in Units : ListOf(heap, v, Runnable(v)) /\ v \in Lists BY DEF Queued
<1>3. \A v \in Units \ {u} : Runnable(v) \cap R = {} BY DEF Runnable, Pinned
<1>4. CASE c \notin Threads
  <2>1. q = heap BY <1>4 DEF QueueWithout
  <2>2. R = Rest(u) BY <1>4 DEF Runnable, Rest, Pinned
  <2> QED BY <1>1, <1>2, <2>1, <2>2
<1>5. CASE c \in Threads
  <2>1. c \in R /\ c \in Nodes BY <1>5 DEF Queued, Runnable, Pinned, Started
  <2> DEFINE g == Remove(heap, u, c)
  <2>2. /\ g \in Heap /\ ListOf(g, u, R \ {c})
        /\ \A v \in Lists \ {u} : \A T : ListOf(heap, v, T) /\ T \cap R = {} => ListOf(g, v, T)
    <3> HIDE DEF R, c
    <3> QED BY <1>1, <2>1, RemoveList
  <2>3. \A v \in Units \ {u} : ListOf(g, v, Runnable(v)) BY <1>2, <1>3, <2>2
  <2>4. CASE ~Ready(c)
    <3>1. q = g BY <1>5, <2>4 DEF QueueWithout
    <3>2. R \ {c} = Rest(u) BY <2>4 DEF Runnable, Rest, Pinned
    <3> QED BY <2>2, <2>3, <3>1, <3>2
  <2>5. CASE Ready(c)
    <3>1. q = AddHead(g, u, c) BY <1>5, <2>5 DEF QueueWithout
    <3>2. R = Rest(u) BY <2>5 DEF Runnable, Rest, Pinned
    <3> HIDE DEF R, c, g
    <3>3. c \in Nodes \ (R \ {c}) /\ (R \ {c}) \cup {c} = R BY <2>1
    <3> DEFINE W == R \ {c}
    <3>4. ListOf(g, u, W) /\ c \in Nodes \ W /\ W \cup {c} = R BY <2>2, <3>3
    <3> HIDE DEF W
    <3>5. /\ q \in Heap /\ ListOf(q, u, R)
          /\ \A v \in Lists \ {u} : \A T : ListOf(g, v, T) /\ T \cap R = {} => ListOf(q, v, T)
      BY <1>1, <2>2, <3>1, <3>4, AddHeadList
    <3>6. \A v \in Units \ {u} : ListOf(q, v, Runnable(v)) BY <1>2, <1>3, <2>3, <3>5
    <3> QED BY <3>2, <3>5, <3>6
  <2> QED BY <2>4, <2>5
<1> QED BY <1>4, <1>5

(* sched_pick_next returns one of those, or the idle thread.               *)
LEMMA PickRest ==
  ASSUME Shape, Queued, NEW u \in Units
  PROVE  Pick(QueueWithout(u, cur[u]), u) \in Rest(u) \cup {u}
<1> DEFINE q == QueueWithout(u, cur[u])
           b == Cardinality(Threads)
           p == Forward(q, u, b)
<1>1. b \in Nat /\ b <= b BY SchedAssumption, FS_CardinalityType
<1>2. ListOf(q, u, Rest(u))
  <2> HIDE DEF q
  <2> QED BY WithoutList DEF q
<1> HIDE DEF q
<1>3. /\ {p[i] : i \in DOMAIN p} = Rest(u) /\ p \in Seq(Nodes)
      /\ Last(q, u) = IF Rest(u) = {} THEN NULL ELSE p[Len(p)]
  BY <1>1, <1>2, ReadList
<1> HIDE DEF p
<1>4. Rest(u) # {} => Len(p) \in DOMAIN p BY <1>3
<1> QED BY <1>3, <1>4 DEF Pick, q

(* sched_main on u.                                                        *)
LEMMA QueueSwitch ==
  ASSUME QueueInv, clean' = clean, NEW u \in Units, Switch(u), units # <<>>,
         UNCHANGED <<units, start, unit, flags, timer>>,
         clean => /\ irq' \in [Units -> BOOLEAN] /\ \A v \in Units : irq'[v] => irq[v]
                  /\ DOMAIN pc' = Threads
                  /\ \A t \in Threads : pc'[t] = pc[t] \/ (Started(t) /\ Started(t)')
  PROVE  QueueInv'
<1> SUFFICES ASSUME clean' PROVE Shape' /\ Begun' /\ Queued' BY DEF QueueInv
<1> USE SchedAssumption, ListAssumption
<1>1. clean /\ Shape /\ Begun /\ Queued BY DEF QueueInv
<1>2. CASE preempt[u] > 0
  <2>1. UNCHANGED <<heap, cur, cpuLeft>> BY <1>2 DEF Switch
  <2>2. QueueInv' BY <1>1, <2>1, QueueKept DEF Shape, Ready
  <2> QED BY <2>2 DEF QueueInv
<1>3. CASE ~(preempt[u] > 0)
  <2> DEFINE q == QueueWithout(u, cur[u])
             next == Pick(q, u)
  <2>1. heap' = q /\ cur' = [cur EXCEPT ![u] = next] BY <1>3 DEF Switch
  <2>2. /\ q \in Heap /\ ListOf(q, u, Rest(u))
        /\ \A v \in Units \ {u} : ListOf(q, v, Runnable(v))
    <3> HIDE DEF q
    <3> QED BY <1>1, WithoutList DEF q
  <2>3. next \in Rest(u) \cup {u} BY <1>1, PickRest
  <2> HIDE DEF q, next
  <2>4. \A t \in Threads : /\ Started(t)' <=> Started(t)
                           /\ (pc[t]' = "new" <=> pc[t] = "new")
                           /\ (pc[t]' = "starting" <=> pc[t] = "starting")
    BY <1>1 DEF Started
  <2>5. next \in Threads => unit[next] = u /\ Started(next) /\ Ready(next)
    BY <1>1, <2>3 DEF Rest, Pinned, Started, Begun
  <2>6. cur' \in [Units -> All \cup {NULL}] /\ cur'[u] = next /\ next # NULL
        /\ \A v \in Units \ {u} : cur'[v] = cur[v]
    BY <1>1, <2>1, <2>3 DEF Shape, All, Rest, Pinned
  <2>7. Shape' BY <1>1, <2>6 DEF Shape
  <2>8. \A v \in Units, t \in Threads : Starting(v, t)' <=> Starting(v, t) BY DEF Starting
  <2>9. Begun' BY <1>1, <2>4, <2>8 DEF Begun, Ready
  <2>10. Runnable(u)' = Rest(u) BY <2>3, <2>4, <2>5, <2>6 DEF Runnable, Rest, Pinned, Ready
  <2>11. \A v \in Units \ {u} : Runnable(v)' = Runnable(v)
    BY <2>4, <2>6 DEF Runnable, Pinned, Ready
  <2>12. \A v \in Units : cur'[v] \in Threads => unit'[cur'[v]] = v /\ Started(cur[v])'
    <3>1. CASE next \in Threads BY <3>1, <1>1, <2>4, <2>5, <2>6 DEF Queued, Started
    <3>2. CASE next \notin Threads BY <3>2, <1>1, <2>4, <2>6 DEF Queued, Started
    <3> QED BY <3>1, <3>2
  <2>13. \A v \in Units : ListOf(heap', v, Runnable(v)') BY <2>1, <2>2, <2>10, <2>11
  <2>14. Queued' BY <2>1, <2>2, <2>12, <2>13 DEF Queued
  <2> QED BY <2>7, <2>9, <2>14
<1> QED BY <1>2, <1>3

(* sched_wake_thread of a started thread.  That it was off its queue when  *)
(* it was put there is what clean' says.                                   *)
LEMMA QueueWakes ==
  ASSUME QueueInv, NEW t \in Threads, clean => Started(t), Wakes(t),
         UNCHANGED <<units, cur, start, unit, pc>>,
         clean => /\ irq' \in [Units -> BOOLEAN] /\ \A v \in Units : irq'[v] => cur[v] # NULL
                  /\ timer' \in [Threads -> BOOLEAN] /\ \A x \in Threads : timer'[x] => timer[x]
  PROVE  QueueInv'
<1> SUFFICES ASSUME clean' PROVE Shape' /\ Begun' /\ Queued' BY DEF QueueInv
<1> USE SchedAssumption, ListAssumption
<1>1. clean /\ Shape /\ Begun /\ Queued /\ ~OnQueue(heap, unit[t], t) BY DEF QueueInv, Wakes
<1> DEFINE u == unit[t]
<1>2. u \in Units /\ Started(t) /\ ListOf(heap, u, Runnable(u)) /\ heap \in Heap
  BY <1>1 DEF Shape, Begun, Queued
<1>3. t \in Nodes \ Runnable(u) /\ u \in Lists
  <2> HIDE DEF u
  <2> QED BY <1>1, <1>2, OnQueueIs DEF u
<1>4. heap' = AddHead(heap, u, t) /\ flags' = [flags EXCEPT ![t] = flags[t] \cup {"READY"}]
  BY DEF Wakes
<1> HIDE DEF u
<1>5. /\ heap' \in Heap /\ ListOf(heap', u, Runnable(u) \cup {t})
      /\ \A v \in Lists \ {u} : \A T : ListOf(heap, v, T) /\ T \cap (Runnable(u) \cup {t}) = {}
            => ListOf(heap', v, T)
  BY <1>2, <1>3, <1>4, AddHeadList
<1>6. /\ DOMAIN flags' = All /\ Ready(t)'
      /\ \A x \in Threads : x # t => (Ready(x)' <=> Ready(x))
      /\ \A x \in Threads : Ready(x) => Ready(x)'
  BY <1>1, <1>4 DEF Shape, Ready, All
<1>7. Shape' BY <1>1, <1>6 DEF Shape
<1>8. Begun' BY <1>1, <1>6 DEF Begun, Starting, Started
<1>9. Runnable(u)' = Runnable(u) \cup {t} BY <1>2, <1>6 DEF Runnable, Pinned, Started, u
<1>10. \A v \in Units \ {u} : /\ Runnable(v)' = Runnable(v)
                              /\ Runnable(v) \cap (Runnable(u) \cup {t}) = {}
  BY <1>6 DEF Runnable, Pinned, u
<1>11. ASSUME NEW v \in Units PROVE ListOf(heap', v, Runnable(v)')
  <2>1. CASE v = u
    <3>1. Runnable(v)' = Runnable(u)' BY <2>1 DEF u
    <3> QED BY <2>1, <3>1, <1>5, <1>9
  <2>2. CASE v # u
    <3>1. ListOf(heap, v, Runnable(v)) /\ v \in Lists BY <1>1 DEF Queued
    <3> QED BY <2>2, <3>1, <1>5, <1>10
  <2> QED BY <2>1, <2>2
<1>12. Queued' BY <1>1, <1>5, <1>11 DEF Queued, Started
<1> QED BY <1>7, <1>8, <1>12

(* sched_sleep takes READY from the thread that runs: it stays queued      *)
(* until its schedule().                                                   *)
LEMMA QueueSleep ==
  ASSUME QueueInv, NEW t \in Threads, unit[t] # NULL, cur[unit[t]] = t,
         NEW at, NEW to, SleepPrep(t, at, to), at \in BOOLEAN, to \notin {"new", "starting"}
  PROVE  QueueInv'
<1> SUFFICES ASSUME clean' PROVE Shape' /\ Begun' /\ Queued' BY DEF QueueInv
<1> USE SchedAssumption
<1>1. /\ flags' = [flags EXCEPT ![t] = flags[t] \ {"READY"}]
      /\ timer' = [timer EXCEPT ![t] = at] /\ pc' = [pc EXCEPT ![t] = to]
      /\ UNCHANGED <<units, cur, preempt, irq, start, unit, cpuLeft, heap, clean>>
  BY DEF SleepPrep, Goto, unitVars
<1>2. clean /\ Shape /\ Begun /\ Queued BY <1>1 DEF QueueInv
<1>3. unit[t] \in Units /\ Started(t) BY <1>2 DEF Shape, Queued
<1>4. \A x \in Threads : /\ Started(x)' <=> Started(x)
                         /\ (pc[x]' = "new" <=> pc[x] = "new")
                         /\ (pc[x]' = "starting" <=> pc[x] = "starting")
                         /\ x # t => (Ready(x)' <=> Ready(x)) /\ timer'[x] = timer[x]
  BY <1>1, <1>2, <1>3 DEF Started, Shape, Ready
<1>5. Shape' BY <1>1, <1>2 DEF Shape
<1>6. Begun' BY <1>1, <1>2, <1>3, <1>4 DEF Begun, Starting
<1>7. \A v \in Units : Runnable(v)' = Runnable(v) BY <1>1, <1>3, <1>4 DEF Runnable, Pinned
<1>8. Queued' BY <1>1, <1>2, <1>4, <1>7 DEF Queued
<1> QED BY <1>5, <1>6, <1>8

(* sched_start_thread, in its three sections.                              *)
LEMMA QueueStart ==
  ASSUME QueueInv, NEW u \in Units, NEW t \in Threads,
         StartPick(u, t) \/ StartPin(u) \/ StartEnq(u)
  PROVE  QueueInv'
<1> SUFFICES ASSUME clean' PROVE Shape' /\ Begun' /\ Queued' BY DEF QueueInv
<1> USE SchedAssumption, ListAssumption
<1>0. clean /\ Shape /\ Begun /\ Queued
  BY DEF QueueInv, StartPick, StartPin, StartEnq
<1>1. CASE StartPick(u, t)
  <2>1. /\ pc[t] = "new" /\ start[u] = <<>>
        /\ start' = [start EXCEPT ![u] = <<t, LeastUsed>>] /\ pc' = [pc EXCEPT ![t] = "starting"]
        /\ UNCHANGED <<units, cur, preempt, irq, unit, flags, cpuLeft, timer, heap, clean>>
    BY <1>1 DEF StartPick, MayStart, Goto
  <2>2. units # <<>> BY <1>0, <1>1 DEF StartPick, MayStart, Shape
  <2>3. LeastUsed \in Units BY <1>0, <2>2, LeastUsedIsUnit DEF Shape
  <2>4. Shape' BY <1>0, <2>1, <2>3 DEF Shape
  <2>5. /\ unit[t] = NULL /\ Ready(t) /\ ~timer[t] /\ ~Started(t)
        /\ \A v \in Units : ~Starting(v, t)
    BY <1>0, <2>1 DEF Begun, Started
  <2>6. /\ pc'[t] = "starting" /\ ~Started(t)'
        /\ \A x \in Threads : x # t => pc'[x] = pc[x] /\ (Started(x)' <=> Started(x))
    BY <1>0, <2>1 DEF Shape, Started
  <2>7. \A x \in Threads : Starting(u, x)' <=> x = t BY <1>0, <2>1 DEF Starting, Shape
  <2>8. \A v \in Units \ {u}, x \in Threads : Starting(v, x)' <=> Starting(v, x)
    BY <1>0, <2>1 DEF Starting, Shape
  <2>8a. \A x \in Threads : ~Starting(u, x) BY <2>1 DEF Starting
  <2>9. Begun'
    <3>1. /\ \A x \in Threads : Started(x)' => unit'[x] # NULL
          /\ \A x \in Threads : ~Started(x)' => Ready(x)' /\ ~timer'[x]
          /\ \A x \in Threads : pc'[x] = "new" => unit'[x] = NULL
      BY <1>0, <2>1, <2>5, <2>6 DEF Begun, Ready
    <3>2. ASSUME NEW v \in Units, NEW x \in Threads, Starting(v, x)'
          PROVE  pc'[x] = "starting" /\ \A w \in Units : Starting(w, x)' => v = w
      <4>1. CASE x = t BY <4>1, <3>2, <2>5, <2>6, <2>8
      <4>2. CASE x # t BY <4>2, <3>2, <1>0, <2>6, <2>7, <2>8 DEF Begun
      <4> QED BY <4>1, <4>2
    <3> QED BY <3>1, <3>2 DEF Begun
  <2>10. \A v \in Units : Runnable(v)' = Runnable(v)
    BY <2>1, <2>5, <2>6 DEF Runnable, Pinned, Ready
  <2>11. \A v \in Units : cur[v] \in Threads => cur[v] # t
    BY <1>0, <2>5 DEF Queued
  <2>12. Queued' BY <1>0, <2>1, <2>6, <2>10, <2>11 DEF Queued, Started
  <2> QED BY <2>4, <2>9, <2>12
<1>2. CASE StartPin(u)
  <2>0. PICK x \in Threads : x = start[u][1] BY <1>0, <1>2 DEF StartPin, Shape
  <2>1. /\ x \in Threads /\ start[u][2] \in Units /\ unit[x] = NULL /\ Starting(u, x)
        /\ pc[x] = "starting"
    BY <1>0, <1>2, <2>0 DEF StartPin, Shape, Begun, Starting
  <2>2. /\ unit' = [unit EXCEPT ![x] = start[u][2]]
        /\ UNCHANGED <<units, cur, preempt, irq, start, flags, cpuLeft, pc, timer, heap, clean>>
    BY <1>2, <2>0 DEF StartPin, unitVars
  <2>3. Shape' BY <1>0, <2>1, <2>2 DEF Shape
  <2>4. \A y \in Threads : y # x => unit'[y] = unit[y] BY <1>0, <2>1, <2>2 DEF Shape
  <2>5. unit'[x] # NULL BY <1>0, <2>1, <2>2 DEF Shape
  <2>6. Begun' BY <1>0, <2>1, <2>2, <2>4, <2>5 DEF Begun, Starting, Started, Ready
  <2>7. \A v \in Units : Runnable(v)' = Runnable(v)
    BY <2>1, <2>2, <2>4 DEF Runnable, Pinned, Ready
  <2>8. \A v \in Units : cur[v] \in Threads => cur[v] # x
    BY <1>0, <2>1 DEF Queued, Started
  <2>9. Queued' BY <1>0, <2>2, <2>4, <2>7, <2>8 DEF Queued, Started
  <2> QED BY <2>3, <2>6, <2>9
<1>3. CASE StartEnq(u)
  <2>0. PICK x \in Threads : x = start[u][1] BY <1>0, <1>3 DEF StartEnq, Shape
  <2>1. /\ x \in Threads /\ unit[x] \in Units /\ Starting(u, x) /\ pc[x] = "starting"
        /\ Ready(x) /\ ~Started(x)
    BY <1>0, <1>3, <2>0 DEF StartEnq, Shape, Begun, Starting, Started
  <2>2. /\ heap' = AddHead(heap, unit[x], x) /\ pc' = [pc EXCEPT ![x] = "run"]
        /\ start' = [start EXCEPT ![u] = <<>>]
        /\ UNCHANGED <<units, cur, preempt, irq, unit, flags, cpuLeft, timer, clean>>
    BY <1>3, <2>0 DEF StartEnq, Goto
  <2>3. Shape' BY <1>0, <2>1, <2>2 DEF Shape
  <2>4. Started(x)' /\ \A y \in Threads : y # x => pc'[y] = pc[y] /\ (Started(y)' <=> Started(y))
    BY <1>0, <2>1, <2>2 DEF Shape, Started
  <2>5. \A v \in Units, y \in Threads : Starting(v, y)' <=> v # u /\ Starting(v, y)
    BY <1>0, <2>2 DEF Starting, Shape
  <2>6. Begun'
    <3>1. /\ \A y \in Threads : Started(y)' => unit'[y] # NULL
          /\ \A y \in Threads : ~Started(y)' => Ready(y)' /\ ~timer'[y]
          /\ \A y \in Threads : pc'[y] = "new" => unit'[y] = NULL
      BY <1>0, <2>1, <2>2, <2>4 DEF Begun, Ready, Started
    <3>2. \A v \in Units, y \in Threads :
            Starting(v, y)' => pc'[y] = "starting" /\ \A w \in Units : Starting(w, y)' => v = w
      BY <1>0, <2>1, <2>4, <2>5 DEF Begun
    <3> QED BY <3>1, <3>2 DEF Begun
  <2>6a. PICK k \in Units : k = unit[x] BY <2>1
  <2>7. /\ heap \in Heap /\ k \in Lists /\ k \in Units
        /\ ListOf(heap, k, Runnable(k)) /\ x \in Nodes \ Runnable(k)
    BY <1>0, <2>1 DEF Queued, Runnable
  <2>8. /\ heap' \in Heap /\ ListOf(heap', k, Runnable(k) \cup {x})
        /\ \A v \in Lists \ {k} : \A T : ListOf(heap, v, T) /\ T \cap (Runnable(k) \cup {x}) = {}
              => ListOf(heap', v, T)
    <3>1. heap' = AddHead(heap, k, x) BY <2>2, <2>6a
    <3> QED BY <2>7, <3>1, AddHeadList
  <2>9. Runnable(k)' = Runnable(k) \cup {x}
    BY <2>1, <2>2, <2>4, <2>6a DEF Runnable, Pinned, Ready, Started
  <2>10. \A v \in Units \ {k} : /\ Runnable(v)' = Runnable(v)
                                /\ Runnable(v) \cap (Runnable(k) \cup {x}) = {}
    BY <2>1, <2>2, <2>4, <2>6a DEF Runnable, Pinned, Ready
  <2>11. ASSUME NEW v \in Units PROVE ListOf(heap', v, Runnable(v)')
    <3>1. CASE v = k BY <3>1, <2>8, <2>9
    <3>2. CASE v # k
      <4>1. ListOf(heap, v, Runnable(v)) /\ v \in Lists BY <1>0 DEF Queued
      <4> QED BY <3>2, <4>1, <2>8, <2>10
    <3> QED BY <3>1, <3>2
  <2>12. \A v \in Units : cur[v] \in Threads => cur[v] # x BY <1>0, <2>1 DEF Queued
  <2>13. Queued' BY <1>0, <2>2, <2>4, <2>8, <2>11, <2>12 DEF Queued
  <2> QED BY <2>3, <2>6, <2>13
<1> QED BY <1>1, <1>2, <1>3

(* Whatever the units do on their own.                                     *)
LEMMA QueueUnit ==
  ASSUME QueueInv, NEW u \in Units, UnitNext(u)
  PROVE  QueueInv'
<1> USE SchedAssumption
<1>1. CASE UnitInit(u)
  <2>1. /\ units' = Append(units, u)
        /\ UNCHANGED <<cur, preempt, irq, start, unit, flags, cpuLeft, pc, timer, heap, clean>>
    BY <1>1 DEF UnitInit, threadVars
  <2>2. ASSUME clean PROVE units' \in Seq(Units) /\ units' # <<>>
    <3>1. units \in Seq(Units) BY <2>2 DEF QueueInv, Shape
    <3> QED BY <2>1, <3>1, AppendProperties
  <2>3. clean => Shape BY DEF QueueInv
  <2> QED BY <2>1, <2>2, <2>3, QueueKept DEF Shape, Ready
<1>2. CASE FirstSchedule(u)
  <2>1. Switch(u) /\ UNCHANGED <<units, preempt, irq, start, unit, flags, pc, timer, clean>> /\ units # <<>>
    BY <1>2 DEF FirstSchedule
  <2>2. clean => Shape BY DEF QueueInv
  <2> QED BY <2>1, <2>2, QueueSwitch DEF Shape
<1>3. CASE Tick(u)
  <2>1. /\ cur[u] # NULL /\ irq' = [irq EXCEPT ![u] = TRUE]
        /\ \/ flags' = flags
           \/ flags' = [flags EXCEPT ![cur[u]] = flags[cur[u]] \cup {"NEED_RESCHEDULE"}]
        /\ UNCHANGED <<units, cur, preempt, start, unit, pc, timer, heap, clean>>
    BY <1>3 DEF Tick, Open
  <2>2. clean => Shape BY DEF QueueInv
  <2>3. ASSUME clean PROVE DOMAIN flags' = All /\ \A t \in Threads : Ready(t)' <=> Ready(t)
    <3>1. DOMAIN flags = All /\ \A t \in Threads : t \in All BY <2>2, <2>3 DEF Shape, All
    <3>2. CASE flags' = flags BY <3>1, <3>2 DEF Ready
    <3>3. CASE flags' = [flags EXCEPT ![cur[u]] = flags[cur[u]] \cup {"NEED_RESCHEDULE"}]
      <4>1. \A t \in All : /\ t = cur[u] => flags'[t] = flags[t] \cup {"NEED_RESCHEDULE"}
                           /\ t # cur[u] => flags'[t] = flags[t]
        BY <3>1, <3>3
      <4> QED BY <3>1, <3>3, <4>1 DEF Ready
    <3> QED BY <2>1, <3>2, <3>3
  <2> QED BY <2>1, <2>2, <2>3, QueueKept DEF Shape
<1>4. CASE IsrEnd(u)
  <2>1. /\ irq[u] /\ irq' = [irq EXCEPT ![u] = FALSE]
        /\ UNCHANGED <<units, preempt, start, unit, flags, pc, timer, clean>>
        /\ Switch(u) \/ UNCHANGED <<heap, cur, cpuLeft>>
    BY <1>4 DEF IsrEnd
  <2>2. clean => Shape BY DEF QueueInv
  <2>3. clean => irq' \in [Units -> BOOLEAN] /\ \A v \in Units : irq'[v] => irq[v]
    BY <2>1, <2>2 DEF Shape
  <2>4. CASE UNCHANGED <<heap, cur, cpuLeft>>
    BY <2>1, <2>2, <2>3, <2>4, QueueKept DEF Shape, Ready
  <2>5. CASE Switch(u)
    <3>1. CASE ~clean BY <2>1, <3>1 DEF QueueInv
    <3>2. CASE clean
      <4>1. units # <<>> BY <2>1, <2>2, <3>2 DEF Shape
      <4> QED BY <2>1, <2>2, <2>3, <2>5, <4>1, QueueSwitch DEF Shape
    <3> QED BY <3>1, <3>2
  <2> QED BY <2>1, <2>4, <2>5
<1>5. ASSUME NEW t \in Threads, TimerIsr(u, t) PROVE QueueInv'
  <2>1. /\ cur[u] # NULL /\ timer[t] /\ irq' = [irq EXCEPT ![u] = TRUE]
        /\ timer' = [timer EXCEPT ![t] = FALSE] /\ Wakes(t)
        /\ UNCHANGED <<units, cur, preempt, start, unit, cpuLeft, pc>>
    BY <1>5 DEF TimerIsr, Open
  <2>2. clean => Shape /\ Begun BY DEF QueueInv
  <2>3. clean => Started(t) BY <2>1, <2>2 DEF Begun
  <2>4. clean => /\ irq' \in [Units -> BOOLEAN] /\ \A v \in Units : irq'[v] => cur[v] # NULL
                 /\ timer' \in [Threads -> BOOLEAN] /\ \A x \in Threads : timer'[x] => timer[x]
    BY <2>1, <2>2 DEF Shape
  <2> QED BY <2>1, <2>3, <2>4, QueueWakes
<1>6. PICK x \in Threads : TRUE OBVIOUS
<1> QED BY <1>1, <1>2, <1>3, <1>4, <1>5, <1>6, QueueStart DEF UnitNext

(* The calls of a thread: schedule(), and the steps by which it only goes  *)
(* on to another place.                                                    *)
LEMMA QueueCalls ==
  ASSUME QueueInv, NEW t \in Threads, NEW from, NEW to, Calls(t, from, to),
         from \notin {"new", "starting"}, to \notin {"new", "starting"}
  PROVE  QueueInv'
<1>1. /\ pc[t] = from /\ unit[t] # NULL /\ cur[unit[t]] = t /\ Switch(unit[t])
      /\ pc' = [pc EXCEPT ![t] = to]
      /\ UNCHANGED <<units, preempt, irq, start, unit, flags, timer, clean>>
  BY DEF Calls, At, Goto
<1>2. CASE ~clean BY <1>1, <1>2 DEF QueueInv
<1>3. CASE clean
  <2>1. Shape BY <1>3 DEF QueueInv
  <2>2. unit[t] \in Units /\ units # <<>> BY <1>1, <2>1, SchedAssumption, ListAssumption DEF Shape
  <2>3. DOMAIN pc' = Threads /\ \A x \in Threads : pc'[x] = pc[x] \/ (Started(x) /\ Started(x)')
    BY <1>1, <2>1 DEF Shape, Started
  <2> QED BY <1>1, <2>1, <2>2, <2>3, QueueSwitch DEF Shape
<1> QED BY <1>2, <1>3

LEMMA QueueMoves ==
  ASSUME QueueInv, NEW t \in Threads, Started(t), NEW to, to \notin {"new", "starting"},
         pc' = [pc EXCEPT ![t] = to],
         UNCHANGED <<units, cur, irq, start, unit, heap, clean>>,
         flags' = flags \/ flags' = [flags EXCEPT ![t] = flags[t] \cup {"DEAD"}],
         timer' = timer \/ timer' = [timer EXCEPT ![t] = FALSE]
  PROVE  QueueInv'
<1>1. clean => Shape BY DEF QueueInv
<1>2. ASSUME clean
      PROVE  /\ DOMAIN flags' = All /\ timer' \in [Threads -> BOOLEAN]
             /\ \A x \in Threads : (Ready(x)' <=> Ready(x)) /\ (timer'[x] => timer[x])
  <2>1. DOMAIN flags = All /\ timer \in [Threads -> BOOLEAN] /\ \A x \in Threads : x \in All
    BY <1>1, <1>2 DEF Shape, All
  <2>2. timer' \in [Threads -> BOOLEAN] /\ \A x \in Threads : timer'[x] => timer[x] BY <2>1
  <2>3. CASE flags' = flags BY <2>1, <2>2, <2>3 DEF Ready
  <2>4. CASE flags' = [flags EXCEPT ![t] = flags[t] \cup {"DEAD"}]
    <3>1. \A x \in Threads : /\ x = t => flags'[x] = flags[x] \cup {"DEAD"}
                             /\ x # t => flags'[x] = flags[x]
      BY <2>1, <2>4
    <3> QED BY <2>1, <2>2, <2>4, <3>1 DEF Ready
  <2> QED BY <2>3, <2>4
<1>3. clean => /\ DOMAIN pc' = Threads
               /\ \A x \in Threads : pc'[x] = pc[x] \/ (Started(x) /\ Started(x)')
  BY <1>1 DEF Shape, Started
<1> QED BY <1>1, <1>2, <1>3, QueueKept DEF Shape

LEMMA QueueThread ==
  ASSUME QueueInv, NEW t \in Threads, ThreadNext(t)
  PROVE  QueueInv'
<1>1. CASE SleepSchedule(t) \/ ExitYield(t) \/ Yield(t)
  BY <1>1, QueueCalls DEF SleepSchedule, ExitYield, Yield
<1>2. CASE Sleep(t) BY <1>2, QueueSleep DEF Sleep, At
<1>3. CASE SleepReturn(t) \/ Exit(t) \/ EntryReturns(t)
  <2>1. Started(t)
    BY <1>3 DEF SleepReturn, SleepEnd, Exit, EntryReturns, At, Started
  <2>2. /\ \E to \in {"run", "exiting", "ended"} : pc' = [pc EXCEPT ![t] = to]
        /\ UNCHANGED <<units, cur, irq, start, unit, heap, clean>>
        /\ flags' = flags \/ flags' = [flags EXCEPT ![t] = flags[t] \cup {"DEAD"}]
        /\ timer' = timer \/ timer' = [timer EXCEPT ![t] = FALSE]
    BY <1>3 DEF SleepReturn, SleepEnd, Exit, EntryReturns, Goto, unitVars
  <2> QED BY <2>1, <2>2, QueueMoves
<1>4. CASE DisablePreempt(t) \/ EnablePreempt(t)
  <2>1. UNCHANGED <<units, cur, irq, start, unit, flags, pc, timer, heap, clean>>
    BY <1>4 DEF DisablePreempt, EnablePreempt, threadVars
  <2>2. clean => Shape BY DEF QueueInv
  <2> QED BY <2>1, <2>2, QueueKept DEF Shape, Ready
<1> QED BY <1>1, <1>2, <1>3, <1>4 DEF ThreadNext, CallNext

LEMMA QueueStep == QueueInv /\ [SchedNext]_schedVars => QueueInv'
<1> SUFFICES ASSUME QueueInv, [SchedNext]_schedVars PROVE QueueInv' OBVIOUS
<1>1. CASE UNCHANGED schedVars
  <2>1. UNCHANGED <<units, cur, irq, start, unit, flags, pc, timer, heap, clean>>
    BY <1>1 DEF schedVars, unitVars, threadVars
  <2>2. clean => Shape BY DEF QueueInv
  <2> QED BY <2>1, <2>2, QueueKept DEF Shape, Ready
<1> QED BY <1>1, QueueUnit, QueueThread DEF SchedNext

(* While every wake has found its thread asleep, the run queue of every    *)
(* unit is a well formed list, read either way and through its count, of   *)
(* exactly the threads that can run and the one that does: sched_main,     *)
(* sched_wake_thread and sched_start_thread between them neither lose a    *)
(* thread nor queue one twice.                                             *)
THEOREM QueuesExact == SchedSpec => []QueueExact
<1>1. QueueInv => QueueExact
  <2> SUFFICES ASSUME QueueInv, clean, NEW u \in Units
               PROVE  LET q == Forward(heap, u, Cardinality(Threads) + 1)
                      IN  /\ IsList(heap, u, q)
                          /\ {q[i] : i \in DOMAIN q} = Runnable(u)
                          /\ Len(q) = Cardinality(Runnable(u))
    BY DEF QueueExact
  <2>1. Cardinality(Threads) \in Nat BY SchedAssumption, FS_CardinalityType
  <2>2. Cardinality(Threads) + 1 \in Nat /\ Cardinality(Threads) <= Cardinality(Threads) + 1
    BY <2>1
  <2> QED BY <2>2, ReadList DEF QueueInv, Queued
<1> QED BY <1>1, QueueInit, QueueStep, PTL DEF SchedSpec

-------------------------------------------------------------------------------
(* Even once early wakes have tangled the queues, no code is starting a    *)
(* thread that runs.                                                       *)
StartInv ==
  /\ DOMAIN start = Units /\ DOMAIN pc = Threads
  /\ \A u \in Units, t \in Threads :
       Starting(u, t) => pc[t] = "starting" /\ \A v \in Units : Starting(v, t) => u = v

LEMMA StartInit == SchedInit => StartInv
BY DEF SchedInit, StartInv, Starting

(* The scheduler moves only threads that are being started.                *)
LEMMA StartUnit ==
  ASSUME StartInv, NEW u \in Units, UnitNext(u)
  PROVE  /\ StartInv'
         /\ \A x \in Threads : \/ pc'[x] = pc[x]
                               \/ ~Started(x) /\ pc'[x] \in {"starting", "run"}
<1>1. DOMAIN pc = Threads /\ DOMAIN start = Units BY DEF StartInv
<1>2. CASE \/ UnitInit(u) \/ FirstSchedule(u) \/ StartPin(u) \/ Tick(u) \/ IsrEnd(u)
           \/ \E t \in Threads : TimerIsr(u, t)
  <2>1. pc' = pc /\ start' = start
    BY <1>2 DEF UnitInit, FirstSchedule, StartPin, Tick, IsrEnd, TimerIsr, threadVars, unitVars
  <2> QED BY <2>1 DEF StartInv, Starting
<1>3. ASSUME NEW t \in Threads, StartPick(u, t)
      PROVE  /\ StartInv'
             /\ \A x \in Threads : \/ pc'[x] = pc[x]
                                   \/ ~Started(x) /\ pc'[x] \in {"starting", "run"}
  <2>1. /\ pc[t] = "new" /\ pc' = [pc EXCEPT ![t] = "starting"]
        /\ start' = [start EXCEPT ![u] = <<t, LeastUsed>>]
    BY <1>3 DEF StartPick, MayStart, Goto
  <2>2. /\ DOMAIN pc' = Threads /\ pc'[t] = "starting"
        /\ \A x \in Threads : x # t => pc'[x] = pc[x]
    BY <1>1, <2>1
  <2>3. \A x \in Threads : Starting(u, x)' <=> x = t BY <1>1, <2>1 DEF Starting
  <2>4. \A v \in Units, x \in Threads : v # u => (Starting(v, x)' <=> Starting(v, x))
    BY <1>1, <2>1 DEF Starting
  <2>5. StartInv' BY <1>1, <2>1, <2>2, <2>3, <2>4 DEF StartInv
  <2> QED BY <2>1, <2>2, <2>5 DEF Started
<1>4. CASE StartEnq(u)
  <2> DEFINE t == start[u][1]
  <2>1. /\ start[u] # <<>> /\ pc' = [pc EXCEPT ![t] = "run"]
        /\ start' = [start EXCEPT ![u] = <<>>]
    BY <1>4 DEF StartEnq, Goto
  <2>2. t \in Threads => pc[t] = "starting" /\ pc'[t] = "run"
    BY <1>1, <2>1 DEF StartInv, Starting
  <2>3. DOMAIN pc' = Threads /\ \A x \in Threads : x # t => pc'[x] = pc[x] BY <1>1, <2>1
  <2>4. Starting(u, t) BY <2>1 DEF Starting
  <2>5. \A v \in Units, x \in Threads : Starting(v, x)' <=> v # u /\ Starting(v, x)
    BY <1>1, <2>1 DEF Starting
  <2>6. StartInv' BY <1>1, <2>1, <2>3, <2>4, <2>5 DEF StartInv
  <2> QED BY <2>2, <2>3, <2>6 DEF Started
<1> QED BY <1>2, <1>3, <1>4 DEF UnitNext

(* A thread that is not being started goes on to another place.            *)
LEMMA StartMoves ==
  ASSUME StartInv, NEW t \in Threads, pc[t] # "starting", start' = start,
         NEW to, pc' = [pc EXCEPT ![t] = to]
  PROVE  StartInv'
<1>1. DOMAIN pc' = Threads /\ \A x \in Threads : x # t => pc'[x] = pc[x] BY DEF StartInv
<1> QED BY <1>1 DEF StartInv, Starting

-------------------------------------------------------------------------------
(* Who is awake, where nobody disables preemption: threads sleep in two    *)
(* places, before and after their schedule(), and elsewhere they are       *)
(* ready.  A thread that is past the schedule() and runs is ready as well. *)
AwakeInv(slept, asleep) ==
  /\ \A u \in Units : preempt[u] = 0
  /\ clean => /\ \A t \in Threads : pc[t] \notin {slept, asleep} => Ready(t)
              /\ \A u \in Units : cur[u] \in Threads /\ pc[cur[u]] = asleep => Ready(cur[u])

(* A step in which only threads move that are ready.                       *)
LEMMA AwakeKept ==
  ASSUME NEW slept, NEW asleep, AwakeInv(slept, asleep), clean' => clean,
         UNCHANGED <<preempt, cur>>,
         clean' => \A t \in Threads : /\ Ready(t) => Ready(t)'
                                      /\ pc'[t] = pc[t] \/ Ready(t)
  PROVE  AwakeInv(slept, asleep)'
BY DEF AwakeInv

LEMMA AwakeWakes ==
  ASSUME NEW slept, NEW asleep, QueueInv, AwakeInv(slept, asleep),
         NEW t \in Threads, Wakes(t), UNCHANGED <<preempt, cur, pc>>
  PROVE  AwakeInv(slept, asleep)'
<1>1. flags' = [flags EXCEPT ![t] = flags[t] \cup {"READY"}] /\ (clean' => clean) BY DEF Wakes
<1>2. ASSUME clean, NEW x \in Threads, Ready(x) PROVE Ready(x)'
  <2>1. x \in DOMAIN flags BY <1>2 DEF QueueInv, Shape, All
  <2> QED BY <2>1, <1>1, <1>2 DEF Ready
<1> QED BY <1>1, <1>2, AwakeKept

LEMMA AwakeSleep ==
  ASSUME NEW slept, NEW asleep, slept # asleep, QueueInv, AwakeInv(slept, asleep),
         NEW t \in Threads, NEW at, SleepPrep(t, at, slept)
  PROVE  AwakeInv(slept, asleep)'
<1>1. /\ flags' = [flags EXCEPT ![t] = flags[t] \ {"READY"}]
      /\ pc' = [pc EXCEPT ![t] = slept] /\ UNCHANGED <<cur, preempt, clean>>
  BY DEF SleepPrep, Goto, unitVars
<1>2. ASSUME clean
      PROVE  /\ pc'[t] = slept
             /\ \A x \in Threads : x # t => (Ready(x)' <=> Ready(x)) /\ pc'[x] = pc[x]
  BY <1>1, <1>2 DEF QueueInv, Shape, Ready
<1> QED BY <1>1, <1>2 DEF AwakeInv

LEMMA AwakeSwitch ==
  ASSUME NEW slept, NEW asleep, QueueInv, AwakeInv(slept, asleep),
         NEW u \in Units, Switch(u), UNCHANGED <<preempt, flags, clean>>,
         clean => \A t \in Threads :
                    pc'[t] = pc[t] \/ Ready(t) \/ (pc[t] = slept /\ pc'[t] = asleep /\ cur[u] = t)
  PROVE  AwakeInv(slept, asleep)'
<1> SUFFICES ASSUME clean
             PROVE  /\ \A t \in Threads : pc'[t] \notin {slept, asleep} => Ready(t)'
                    /\ \A v \in Units : cur'[v] \in Threads /\ pc'[cur'[v]] = asleep => Ready(cur[v])'
  BY DEF AwakeInv
<1>1. Shape /\ Begun /\ Queued /\ ~(preempt[u] > 0) BY DEF QueueInv, AwakeInv
<1>2. \A t \in Threads : Ready(t)' <=> Ready(t) BY DEF Ready
<1>3. \A t \in Threads : pc'[t] \notin {slept, asleep} => Ready(t)'
  BY <1>2 DEF AwakeInv
<1>4. /\ cur' = [cur EXCEPT ![u] = Pick(QueueWithout(u, cur[u]), u)]
      /\ Pick(QueueWithout(u, cur[u]), u) \in Rest(u) \cup {u}
  BY <1>1, PickRest DEF Switch
<1>5. cur'[u] \in Rest(u) \cup {u} /\ \A v \in Units \ {u} : cur'[v] = cur[v]
  BY <1>1, <1>4 DEF Shape
<1>6. ASSUME NEW v \in Units, cur'[v] \in Threads, pc'[cur'[v]] = asleep PROVE Ready(cur[v])'
  <2>1. CASE v = u BY <2>1, <1>2, <1>5, <1>6, SchedAssumption DEF Rest, Ready
  <2>2. CASE v # u
    <3>1. cur'[v] = cur[v] /\ cur[v] # cur[u] BY <2>2, <1>1, <1>5, <1>6 DEF Queued
    <3>2. Ready(cur[v])
      <4>1. pc'[cur[v]] = pc[cur[v]] \/ Ready(cur[v]) BY <3>1, <1>6
      <4> QED BY <3>1, <4>1, <1>6 DEF AwakeInv
    <3> QED BY <3>1, <3>2, <1>2, <1>6 DEF Ready
  <2> QED BY <2>1, <2>2
<1> QED BY <1>3, <1>6

LEMMA AwakeUnit ==
  ASSUME NEW slept, NEW asleep, QueueInv, AwakeInv(slept, asleep),
         {slept, asleep} \cap {"new", "starting"} = {}, NEW u \in Units, UnitNext(u)
  PROVE  AwakeInv(slept, asleep)'
<1>0. clean => Shape /\ Begun BY DEF QueueInv
<1>1. CASE UnitInit(u) \/ StartPin(u)
  <2>1. UNCHANGED <<preempt, cur, flags, pc, clean>>
    BY <1>1 DEF UnitInit, StartPin, threadVars, unitVars
  <2> QED BY <2>1, AwakeKept DEF Ready
<1>2. CASE FirstSchedule(u)
  <2>1. Switch(u) /\ UNCHANGED <<preempt, flags, pc, clean>> BY <1>2 DEF FirstSchedule
  <2> QED BY <2>1, AwakeSwitch
<1>3. CASE StartEnq(u)
  <2>1. /\ start[u] # <<>> /\ pc' = [pc EXCEPT ![start[u][1]] = "run"]
        /\ UNCHANGED <<preempt, cur, flags, clean>>
    BY <1>3 DEF StartEnq, Goto
  <2>2. ASSUME clean, NEW t \in Threads PROVE pc'[t] = pc[t] \/ Ready(t)
    <3>1. CASE t # start[u][1] BY <2>1, <2>2, <3>1, <1>0 DEF Shape
    <3>2. CASE t = start[u][1]
      <4>1. pc[t] = "starting" BY <2>1, <2>2, <3>2, <1>0 DEF Begun, Starting
      <4> QED BY <4>1, <2>2, <1>0 DEF Begun, Started
    <3> QED BY <3>1, <3>2
  <2> QED BY <2>1, <2>2, AwakeKept DEF Ready
<1>4. CASE Tick(u)
  <2>1. /\ \/ flags' = flags
           \/ flags' = [flags EXCEPT ![cur[u]] = flags[cur[u]] \cup {"NEED_RESCHEDULE"}]
        /\ UNCHANGED <<preempt, cur, pc, clean>>
    BY <1>4 DEF Tick
  <2>2. ASSUME clean, NEW t \in Threads, Ready(t) PROVE Ready(t)'
    <3>1. t \in DOMAIN flags BY <2>2, <1>0 DEF Shape, All
    <3> QED BY <2>1, <2>2, <3>1 DEF Ready
  <2> QED BY <2>1, <2>2, AwakeKept
<1>5. CASE IsrEnd(u)
  <2>1. /\ UNCHANGED <<preempt, flags, pc, clean>>
        /\ Switch(u) \/ UNCHANGED <<heap, cur, cpuLeft>>
    BY <1>5 DEF IsrEnd
  <2> QED BY <2>1, AwakeSwitch, AwakeKept DEF Ready
<1>6. ASSUME NEW t \in Threads, StartPick(u, t) PROVE AwakeInv(slept, asleep)'
  <2>1. /\ pc[t] = "new" /\ pc' = [pc EXCEPT ![t] = "starting"]
        /\ UNCHANGED <<preempt, cur, flags, clean>>
    BY <1>6 DEF StartPick, MayStart, Goto
  <2>2. ASSUME clean, NEW x \in Threads PROVE pc'[x] = pc[x] \/ Ready(x)
    BY <2>1, <2>2, <1>0 DEF Shape, Begun, Started
  <2> QED BY <2>1, <2>2, AwakeKept DEF Ready
<1>7. ASSUME NEW t \in Threads, TimerIsr(u, t) PROVE AwakeInv(slept, asleep)'
  <2>1. Wakes(t) /\ UNCHANGED <<preempt, cur, pc>> BY <1>7 DEF TimerIsr
  <2> QED BY <2>1, AwakeWakes
<1> QED BY <1>1, <1>2, <1>3, <1>4, <1>5, <1>6, <1>7 DEF UnitNext

(* A wake that finds its thread off the queue finds it asleep.             *)
LEMMA WakesSleeper ==
  ASSUME NEW slept, NEW asleep, QueueInv, AwakeInv(slept, asleep),
         NEW t \in Threads, clean => Started(t), Wakes(t), clean'
  PROVE  clean /\ ~Ready(t) /\ pc[t] \in {slept, asleep}
<1>1. clean /\ ~OnQueue(heap, unit[t], t) BY DEF Wakes
<1>2. unit[t] \in Units /\ Started(t) BY <1>1 DEF QueueInv, Shape, Begun
<1>3. t \notin Runnable(unit[t]) BY <1>1, <1>2, OnQueueIs DEF QueueInv, Queued
<1>4. ~Ready(t) BY <1>2, <1>3 DEF Runnable, Pinned, Started
<1> QED BY <1>1, <1>4 DEF AwakeInv

(* The scheduler makes no thread unready, and untangles no queue.          *)
LEMMA UnitKeepsReady ==
  ASSUME QueueInv, NEW u \in Units, UnitNext(u)
  PROVE  /\ clean' => clean
         /\ clean => \A t \in Threads : Ready(t) => "READY" \in flags'[t]
<1>1. CASE \/ UnitInit(u) \/ FirstSchedule(u) \/ StartPin(u) \/ StartEnq(u) \/ IsrEnd(u)
           \/ \E t \in Threads : StartPick(u, t)
  <2>1. UNCHANGED <<flags, clean>>
    BY <1>1 DEF UnitInit, FirstSchedule, StartPin, StartEnq, IsrEnd, StartPick, threadVars
  <2> QED BY <2>1 DEF Ready
<1>2. CASE Tick(u) \/ \E t \in Threads : TimerIsr(u, t)
  <2>1. clean' => clean BY <1>2 DEF Tick, TimerIsr, Wakes
  <2>2. \/ flags' = flags
        \/ flags' = [flags EXCEPT ![cur[u]] = flags[cur[u]] \cup {"NEED_RESCHEDULE"}]
        \/ \E t \in Threads : flags' = [flags EXCEPT ![t] = flags[t] \cup {"READY"}]
    BY <1>2 DEF Tick, TimerIsr, Wakes
  <2>3. clean => \A t \in Threads : t \in DOMAIN flags BY DEF QueueInv, Shape, All
  <2> QED BY <2>1, <2>2, <2>3 DEF Ready
<1> QED BY <1>1, <1>2 DEF UnitNext
===============================================================================
