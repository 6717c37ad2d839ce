-------------------------------- MODULE VmExtent --------------------------------
(* mm/vm_extent.c: a list of headers (slots), each a page with room for so *)
(* many extents.  A list is a sequence of headers, a header the sequence   *)
(* of its busy extents; addresses and lengths are in pages.                *)
EXTENDS Integers, Sequences, FiniteSets

RemoveAt(s, i) == SubSeq(s, 1, i - 1) \o SubSeq(s, i + 1, Len(s))

Region(e) == e.flags \cap {"LOW", "HIGH"}
PagesOf(e) == e.base .. e.base + e.len - 1
Avail(hdr) == hdr.size - Len(hdr.busy)

(* A place in a list, and the order in which the loops go through them.    *)
Places(q) == UNION {{h} \X DOMAIN q[h].busy : h \in DOMAIN q}
At(q, at) == q[at[1]].busy[at[2]]
Before(a, b) == a[1] < b[1] \/ (a[1] = b[1] /\ a[2] < b[2])
FirstOf(S) == CHOOSE a \in S : \A b \in S \ {a} : Before(a, b)

(* vm_is_in_range, for a request that is not empty.                        *)
InRange(e, base, len) == base >= e.base /\ base + len <= e.base + e.len

(* Faulty: the flags are not compared.                                     *)
CanJoin_AnyFlags(src, dest) ==
  /\ src.prot = dest.prot
  /\ dest.base = src.base + src.len \/ dest.base + dest.len = src.base

(* vm_extent_can_join and vm_extent_join                                   *)
CanJoin(src, dest) ==
  /\ src.prot = dest.prot /\ src.flags = dest.flags
  /\ dest.base = src.base + src.len \/ dest.base + dest.len = src.base

Join(src, dest) ==
  [dest EXCEPT !.base = IF src.base < @ THEN src.base ELSE @, !.len = @ + src.len]

(* The extent at i takes in the first one behind it that now adjoins.      *)
TakeIn(busy, i, j) == RemoveAt([busy EXCEPT ![i] = Join(busy[j], @)], j)
MergeAt(busy, i) ==
  LET js == {j \in i + 1 .. Len(busy) : CanJoin(busy[j], busy[i])}
  IN  IF js = {} THEN busy ELSE TakeIn(busy, i, CHOOSE j \in js : \A k \in js : j <= k)

Joinable(q, e) == \E at \in Places(q) : CanJoin(e, At(q, at))
JoinedIn(busy, i, e) == MergeAt([busy EXCEPT ![i] = Join(e, @)], i)
JoinedAt(q, e, at) == [q EXCEPT ![at[1]].busy = JoinedIn(@, at[2], e)]

Roomy(q) == {h \in DOMAIN q : Avail(q[h]) > 0}
Fullest(q, H) == CHOOSE h \in H : \A k \in H \ {h} :
  Avail(q[h]) < Avail(q[k]) \/ (Avail(q[h]) = Avail(q[k]) /\ h < k)

(* vm_extent_insert: joined where that is possible, otherwise into the     *)
(* fullest header that has room.                                           *)
Insert(q, e) ==
  IF Cardinality(Region(e)) # 1 THEN [st |-> "FAIL", q |-> q]
  ELSE IF e.len = 0 THEN [st |-> "NOENT", q |-> q]
  ELSE IF Joinable(q, e)
  THEN [st |-> "OK", q |-> JoinedAt(q, e, FirstOf({a \in Places(q) : CanJoin(e, At(q, a))}))]
  ELSE IF Roomy(q) = {} THEN [st |-> "NOMEM", q |-> q]
  ELSE [st |-> "OK", q |-> [q EXCEPT ![Fullest(q, Roomy(q))].busy = Append(@, e)]]

(* vm_extent_extract: the extent that holds the range, or, at BaseAuto,    *)
(* the one of the region that fits best.  Its header becomes the first.    *)
BaseAuto == -1

Extracted(q, at) ==
  [st  |-> "OK", ext |-> At(q, at),
   q   |-> <<[q[at[1]] EXCEPT !.busy = RemoveAt(@, at[2])]>> \o RemoveAt(q, at[1])]

Fits(e, req) ==
  IF req.base # BaseAuto THEN InRange(e, req.base, req.len)
  ELSE Region(e) = Region(req) /\ e.len >= req.len
Best(q, req, S) == {a \in S : req.base = BaseAuto => \A b \in S : At(q, a).len <= At(q, b).len}

ExtractFrom(q, req, S) ==
  IF req.len = 0 \/ S = {} THEN [st |-> "FAIL", q |-> q, ext |-> req]
  ELSE Extracted(q, FirstOf(Best(q, req, S)))

Extract(q, req) == ExtractFrom(q, req, {a \in Places(q) : Fits(At(q, a), req)})

(* Faulty: the right part begins with the last page of the middle.         *)
Split_Overlap(e, mid, len) ==
  LET from  == mid + len - 1
      right == [e EXCEPT !.base = from, !.len = e.base + e.len - from]
  IN  [left |-> [e EXCEPT !.len = mid - e.base], right |-> right]

(* vm_extent_split of an extent that holds the middle: what is left of it. *)
(* With nothing on the left, the right part goes there.                    *)
Split(e, mid, len) ==
  LET end   == e.base + e.len
      left  == [e EXCEPT !.len = mid - e.base]
      right == [e EXCEPT !.base = mid + len, !.len = end - (mid + len)]
      none  == [e EXCEPT !.base = 0, !.len = 0]
  IN  IF right.len = 0 THEN [left |-> left, right |-> none]
      ELSE IF left.len = 0 THEN [left |-> right, right |-> none]
      ELSE [left |-> left, right |-> right]
===============================================================================
