-------------------------------- MODULE VmProofs ------------------------------
(***************************************************************************)
(* For regions, headers and requests of any size, and for as long as no    *)
(* operation has met with a mishap: every page of the kernel space is in   *)
(* exactly one extent, of the free list or of the allocated one; the pages *)
(* of the lists themselves are locked and present; between two calls the   *)
(* page table agrees with the allocated extents; what a caller was given   *)
(* lies in one extent, and nobody else was given any of it.                *)
(*                                                                         *)
(* The inductive invariant, IInv, says of the lists that they are Listed   *)
(* and Tiled (State), and of what surrounds them: Tidy, every locked page  *)
(* is present and the headers are among them; Exact, the page table is     *)
(* what the extents say; Sep and Holding, the grants have no page in       *)
(* common, are noted, are not locked, and are in one extent while nobody   *)
(* changed them. None of the last three is inductive without State and     *)
(* Tidy: a slot that is taken in the middle of a call changes lists,       *)
(* extents and page table. Inside of an operation the pages under way are  *)
(* in neither list, so every lemma of a step takes the set M of those that *)
(* are missing: extracting adds to M, inserting takes from it.  What a     *)
(* step does to all the rest is Keeps (every extent is within one like     *)
(* it), Carried (the same, but for the pages that are freed) and Grown (no *)
(* new page, header or entry of the page table but those asked for and     *)
(* those of slots); a request that is refused in the middle is undone      *)
(* exactly where it was Safe.                                              *)
(***************************************************************************)
EXTENDS Vm, FiniteSetTheorems, SequenceTheorems, WellFoundedInduction, TLAPS

(* Sets of numbers, sequences, and the lists of extents.                   *)

(* A least number, by the well-founded order of the finite sets: the       *)
(* induction theorems themselves take an operator.                         *)
LEMMA LeastNat ==
  ASSUME NEW S \in SUBSET Nat, S # {}
  PROVE  \E i \in S : \A j \in S : i <= j
<1> DEFINE F == {1 .. n : n \in S}
<1>1. F \subseteq FiniteSubsetsOf(Nat)
  <2>1. ASSUME NEW n \in S PROVE 1 .. n \in FiniteSubsetsOf(Nat)
    <3>1. n \in Nat OBVIOUS
    <3>2. IsFiniteSet(1 .. n) BY <3>1, FS_Interval
    <3> QED BY <3>1, <3>2 DEF FiniteSubsetsOf
  <2> QED BY <2>1
<1>2. F # {} OBVIOUS
<1>3. PICK A \in F : \A B \in F : <<B, A>> \notin StrictSubsetOrdering(Nat)
  <2> HIDE DEF F
  <2>1. IsWellFoundedOn(StrictSubsetOrdering(Nat), FiniteSubsetsOf(Nat))
    BY FS_StrictSubsetOrderingWellFounded
  <2> QED BY <2>1, <1>1, <1>2, WFMin
<1>4. PICK i \in S : A = 1 .. i OBVIOUS
<1>5. ASSUME NEW j \in S, j < i PROVE FALSE
  <2>1. i \in Nat /\ j \in Nat OBVIOUS
  <2>2. 1 .. j \in F OBVIOUS
  <2>3. 1 .. j \subseteq 1 .. i /\ i \in 1 .. i /\ i \notin 1 .. j BY <2>1, <1>5
  <2>4. <<1 .. j, A>> \in StrictSubsetOrdering(Nat)
    BY <2>1, <2>3, <1>4 DEF StrictSubsetOrdering
  <2> QED BY <2>4, <1>3, <2>2
<1> QED BY <1>5

-------------------------------------------------------------------------------
(* Sequences.                                                              *)
LEMMA Removed ==
  ASSUME NEW S, NEW s \in Seq(S), NEW i \in DOMAIN s
  PROVE  /\ RemoveAt(s, i) \in Seq(S) /\ Len(RemoveAt(s, i)) = Len(s) - 1
         /\ \A j \in DOMAIN RemoveAt(s, i) :
              RemoveAt(s, i)[j] = IF j < i THEN s[j] ELSE s[j + 1]
<1> DEFINE a == SubSeq(s, 1, i - 1)
           b == SubSeq(s, i + 1, Len(s))
<1>1. i \in 1 .. Len(s) /\ Len(s) \in Nat /\ \A j \in 1 .. Len(s) : s[j] \in S
  BY LenProperties
<1>2. a \in Seq(S) /\ Len(a) = i - 1 /\ \A j \in 1 .. i - 1 : a[j] = s[j]
  BY <1>1, SubSeqProperties
<1>3. b \in Seq(S) /\ Len(b) = Len(s) - i /\ \A j \in 1 .. Len(s) - i : b[j] = s[j + i]
  <2>1. \A j \in 1 .. Len(s) - (i + 1) + 1 : b[j] = s[(i + 1) + j - 1]
    BY <1>1, SubSeqProperties
  <2> QED BY <1>1, <2>1, SubSeqProperties
<1> HIDE DEF a, b
<1>4. /\ a \o b \in Seq(S) /\ Len(a \o b) = Len(a) + Len(b)
      /\ \A j \in 1 .. Len(a) + Len(b) : (a \o b)[j] = IF j <= Len(a) THEN a[j] ELSE b[j - Len(a)]
  <2>1. a \in Seq(S) /\ b \in Seq(S) BY <1>2, <1>3
  <2> QED BY ONLY <2>1, ConcatProperties
<1>5. Len(a \o b) = Len(s) - 1 BY <1>1, <1>2, <1>3, <1>4
<1>6. DOMAIN (a \o b) = 1 .. Len(s) - 1 BY <1>4, <1>5, LenProperties
<1>7. ASSUME NEW j \in 1 .. Len(s) - 1
      PROVE (a \o b)[j] = IF j < i THEN s[j] ELSE s[j + 1]
  <2>1. i \in Nat /\ j \in Nat /\ Len(a) = i - 1 /\ Len(b) = Len(s) - i
    BY <1>1, <1>2, <1>3
  <2>2. CASE j < i
    <3>1. (a \o b)[j] = a[j] BY <2>1, <2>2, <1>1, <1>4
    <3> QED BY <3>1, <2>1, <2>2, <1>2
  <2>3. CASE ~(j < i)
    <3>0. j \in 1 .. Len(a) + Len(b) /\ ~(j <= Len(a)) BY <2>1, <2>3, <1>1
    <3>1. (a \o b)[j] = b[j - (i - 1)] BY <3>0, <2>1, <1>4
    <3>2. j - (i - 1) \in 1 .. Len(s) - i /\ (j - (i - 1)) + i = j + 1 BY <2>1, <2>3, <1>1
    <3> QED BY <3>1, <3>2, <2>3, <1>3
  <2> QED BY <2>2, <2>3
<1> QED BY <1>4, <1>5, <1>6, <1>7 DEF RemoveAt, a, b

LEMMA Consed ==
  ASSUME NEW S, NEW s \in Seq(S), NEW x \in S
  PROVE  /\ <<x>> \o s \in Seq(S) /\ Len(<<x>> \o s) = Len(s) + 1
         /\ \A j \in DOMAIN (<<x>> \o s) : (<<x>> \o s)[j] = IF j = 1 THEN x ELSE s[j - 1]
<1> DEFINE a == <<x>>
<1>1. a \in Seq(S) /\ Len(a) = 1 /\ a[1] = x OBVIOUS
<1>2. Len(s) \in Nat BY LenProperties
<1> HIDE DEF a
<1>3. /\ a \o s \in Seq(S) /\ Len(a \o s) = Len(a) + Len(s)
      /\ \A j \in 1 .. Len(a) + Len(s) : (a \o s)[j] = IF j <= Len(a) THEN a[j] ELSE s[j - Len(a)]
  BY <1>1, ConcatProperties
<1>4. DOMAIN (a \o s) = 1 .. Len(s) + 1 BY <1>1, <1>2, <1>3, LenProperties
<1>5. ASSUME NEW j \in 1 .. Len(s) + 1 PROVE (a \o s)[j] = IF j = 1 THEN x ELSE s[j - 1]
  BY <1>1, <1>2, <1>3
<1> QED BY <1>1, <1>2, <1>3, <1>4, <1>5 DEF a

LEMMA Appended ==
  ASSUME NEW S, NEW s \in Seq(S), NEW x \in S
  PROVE  /\ Append(s, x) \in Seq(S) /\ Len(Append(s, x)) = Len(s) + 1
         /\ Append(s, x)[Len(s) + 1] = x
         /\ \A j \in DOMAIN s : Append(s, x)[j] = s[j]
BY LenProperties
-------------------------------------------------------------------------------
(* Extents and lists of them.                                              *)
Flags == {"LOW", "HIGH", "ALLOCATED", "MAPPED", "PERMANENT", "LOCKED"}
Ext == [base : Nat, len : Nat, flags : SUBSET Flags, prot : SUBSET {"W"}]
Hdr == [at : Nat, size : Nat, busy : Seq(Ext)]
Zone(e) == IF "HIGH" \in e.flags THEN High ELSE Low
Sound(e) ==
  e \in Ext /\ e.len > 0 /\ Region(e) \in {{"LOW"}, {"HIGH"}} /\ PagesOf(e) \subseteq Zone(e)

Exts(q) == {At(q, a) : a \in Places(q)}
Apart(e, f) == PagesOf(e) \cap PagesOf(f) = {}

(* A list whose extents are sound and have no page in common.              *)
Listed(q, size) ==
  /\ q \in Seq(Hdr)
  /\ \A h \in DOMAIN q : q[h].size = size /\ Len(q[h].busy) <= size
  /\ \A a \in Places(q) : Sound(At(q, a))
  /\ \A a, b \in Places(q) : a # b => Apart(At(q, a), At(q, b))
Pgs(q) == UNION {PagesOf(e) : e \in Exts(q)}
Heads(q) == {q[h].at : h \in DOMAIN q}

(* The places of a list, in terms of its headers.                          *)
LEMMA PlaceOf ==
  ASSUME NEW q \in Seq(Hdr)
  PROVE  /\ \A h, i : <<h, i>> \in Places(q) <=> h \in DOMAIN q /\ i \in DOMAIN q[h].busy
         /\ \A a \in Places(q) : \E h \in DOMAIN q : \E i \in DOMAIN q[h].busy : a = <<h, i>>
         /\ \A h, i : At(q, <<h, i>>) = q[h].busy[i]
BY DEF Places, At

LEMMA HeaderIn ==
  ASSUME NEW q \in Seq(Hdr), NEW h \in DOMAIN q
  PROVE  /\ h \in Nat \ {0} /\ h <= Len(q) /\ q[h] \in Hdr /\ q[h].busy \in Seq(Ext) /\ q[h].at \in Nat
         /\ Len(q[h].busy) \in Nat /\ DOMAIN q[h].busy = 1 .. Len(q[h].busy)
         /\ q[h].size \in Nat
<1>1. q[h] \in Hdr /\ h \in 1 .. Len(q) BY LenProperties
<1> QED BY <1>1, LenProperties DEF Hdr

LEMMA SoundPages ==
  ASSUME NEW e, Sound(e)
  PROVE  /\ e.base \in PagesOf(e) /\ e.base + e.len - 1 \in PagesOf(e)
         /\ e.base \in Nat /\ e.len \in Nat \ {0}
         /\ PagesOf(e) \subseteq Nat
BY DEF Sound, Ext, PagesOf

(* In such a list every extent has one place.                              *)
LEMMA OnePlace ==
  ASSUME NEW size, NEW q, Listed(q, size), NEW a \in Places(q), NEW b \in Places(q),
         At(q, a) = At(q, b)
  PROVE  a = b
BY SoundPages DEF Listed, Apart

-------------------------------------------------------------------------------
(* One extent less, one more, one in place of another.                     *)

(* A list whose extents all come from places of a sound one, each from its own. *)
LEMMA Relisted ==
  ASSUME NEW size, NEW q, Listed(q, size), NEW r \in Seq(Hdr), NEW f,
         \A h \in DOMAIN r : r[h].size = size /\ Len(r[h].busy) <= size,
         \A a \in Places(r) : f[a] \in Places(q) /\ At(r, a) = At(q, f[a]),
         \A a, b \in Places(r) : a # b => f[a] # f[b]
  PROVE  Listed(r, size)
BY DEF Listed

(* An extent is taken out of its header.                                   *)
Without(q, h, i) == [q EXCEPT ![h].busy = RemoveAt(@, i)]
LEMMA DropList ==
  ASSUME NEW size \in Nat, NEW q, Listed(q, size), NEW h \in DOMAIN q, NEW i \in DOMAIN q[h].busy
  PROVE  LET r == Without(q, h, i) IN
         /\ Listed(r, size) /\ Exts(r) = Exts(q) \ {q[h].busy[i]}
         /\ DOMAIN r = DOMAIN q /\ Heads(r) = Heads(q)
         /\ \A k \in DOMAIN q : k # h => r[k] = q[k]
         /\ r[h].busy = RemoveAt(q[h].busy, i) /\ Avail(r[h]) > 0
<1> DEFINE r == Without(q, h, i)
           u == RemoveAt(q[h].busy, i)
           d == [q[h] EXCEPT !.busy = u]
           n == Len(q[h].busy)
           f == [a \in Places(r) |-> <<a[1], IF a[1] = h /\ a[2] >= i THEN a[2] + 1 ELSE a[2]>>]
<1>1. q \in Seq(Hdr) BY DEF Listed
<1>2. /\ q[h] \in Hdr /\ q[h].busy \in Seq(Ext) /\ n \in Nat
      /\ DOMAIN q[h].busy = 1 .. n /\ i \in 1 .. n
  BY <1>1, HeaderIn
<1>3. DOMAIN q = 1 .. Len(q) /\ Len(q) \in Nat BY <1>1, LenProperties
<1>4. /\ u \in Seq(Ext) /\ Len(u) = n - 1
      /\ \A j \in DOMAIN u : u[j] = IF j < i THEN q[h].busy[j] ELSE q[h].busy[j + 1]
  BY <1>2, Removed
<1> HIDE DEF u
<1>5. DOMAIN u = 1 .. n - 1 BY <1>4, LenProperties
<1>6. d \in Hdr /\ d.busy = u /\ d.at = q[h].at /\ d.size = q[h].size
  BY <1>2, <1>4 DEF Hdr
<1>7. r = [q EXCEPT ![h] = d] BY DEF Without, u
<1> HIDE DEF d
<1>8. /\ r \in Seq(Hdr) /\ DOMAIN r = DOMAIN q /\ r[h] = d /\ \A k \in DOMAIN q : k # h => r[k] = q[k]
  BY <1>1, <1>3, <1>6, <1>7, ExceptSeq, LenProperties
<1> HIDE DEF r
<1>9. \A k \in DOMAIN r : r[k].size = size /\ Len(r[k].busy) <= size
  BY <1>2, <1>4, <1>6, <1>8 DEF Listed
<1>10. ASSUME NEW k \in DOMAIN r, NEW j \in DOMAIN r[k].busy
       PROVE  f[<<k, j>>] = <<k, IF k = h /\ j >= i THEN j + 1 ELSE j>>
  <2>1. <<k, j>> \in Places(r) BY <1>8, PlaceOf
  <2> QED BY <2>1
<1> HIDE DEF f
<1>11. ASSUME NEW j \in DOMAIN u, j >= i
       PROVE  j \in Nat /\ j + 1 \in 1 .. n /\ u[j] = q[h].busy[j + 1] /\ j + 1 # i
  <2>1. i \in Nat /\ j \in Nat BY <1>2, <1>5
  <2> QED BY <2>1, <1>2, <1>4, <1>5, <1>11
<1>12. ASSUME NEW j \in DOMAIN u, ~(j >= i)
       PROVE  j \in Nat /\ j \in 1 .. n /\ u[j] = q[h].busy[j] /\ j # i
  <2>1. i \in Nat /\ j \in Nat BY <1>2, <1>5
  <2> QED BY <2>1, <1>2, <1>4, <1>5, <1>12
<1>13. ASSUME NEW k \in DOMAIN r, NEW j \in DOMAIN r[k].busy
       PROVE  /\ f[<<k, j>>] \in Places(q) /\ f[<<k, j>>] # <<h, i>>
              /\ At(r, <<k, j>>) = At(q, f[<<k, j>>])
  <2>1. At(r, <<k, j>>) = r[k].busy[j] BY <1>8, PlaceOf
  <2>2. CASE k = h /\ j >= i
    <3>1. f[<<k, j>>] = <<h, j + 1>> BY <1>10, <2>2
    <3>2. j \in DOMAIN u /\ r[k].busy[j] = u[j] BY <2>2, <1>6, <1>8
    <3>3. j + 1 \in DOMAIN q[h].busy /\ u[j] = q[h].busy[j + 1] /\ j + 1 # i
      BY <3>2, <2>2, <1>2, <1>11
    <3> QED BY <3>1, <3>2, <3>3, <2>1, <1>1, PlaceOf
  <2>3. CASE k = h /\ ~(j >= i)
    <3>1. f[<<k, j>>] = <<h, j>> BY <1>10, <2>3
    <3>2. j \in DOMAIN u /\ r[k].busy[j] = u[j] BY <2>3, <1>6, <1>8
    <3>3. j \in DOMAIN q[h].busy /\ u[j] = q[h].busy[j] /\ j # i
      BY <3>2, <2>3, <1>2, <1>12
    <3> QED BY <3>1, <3>2, <3>3, <2>1, <1>1, PlaceOf
  <2>4. CASE k # h
    <3>1. f[<<k, j>>] = <<k, j>> BY <1>10, <2>4
    <3> QED BY <3>1, <2>1, <2>4, <1>1, <1>8, PlaceOf
  <2> QED BY <2>2, <2>3, <2>4
<1>14. \A a \in Places(r) : f[a] \in Places(q) /\ f[a] # <<h, i>> /\ At(r, a) = At(q, f[a])
  BY <1>13, <1>8, PlaceOf
<1>15. ASSUME NEW k \in DOMAIN r, NEW j \in DOMAIN r[k].busy, NEW l \in DOMAIN r, NEW m \in DOMAIN r[l].busy,
              f[<<k, j>>] = f[<<l, m>>]
       PROVE  <<k, j>> = <<l, m>>
  <2>1. j \in Nat /\ m \in Nat BY <1>8, HeaderIn
  <2> QED BY <2>1, <1>2, <1>10, <1>15
<1>16. \A a, b \in Places(r) : a # b => f[a] # f[b]
  BY <1>15, <1>8, PlaceOf
<1>17. Listed(r, size)
  BY <1>8, <1>9, <1>14, <1>16, Relisted
<1>18. ASSUME NEW b \in Places(q), b # <<h, i>> PROVE At(q, b) \in Exts(r)
  <2> PICK k \in DOMAIN q : \E j \in DOMAIN q[k].busy : b = <<k, j>> BY <1>1, PlaceOf
  <2> PICK j \in DOMAIN q[k].busy : b = <<k, j>> OBVIOUS
  <2>1. At(q, b) = q[k].busy[j] BY <1>1, PlaceOf
  <2>2. SUFFICES \E m \in DOMAIN r[k].busy : r[k].busy[m] = q[k].busy[j]
    <3>1. PICK m \in DOMAIN r[k].busy : r[k].busy[m] = q[k].busy[j] BY <2>2
    <3>2. <<k, m>> \in Places(r) /\ At(r, <<k, m>>) = q[k].busy[j] BY <3>1, <1>8, PlaceOf
    <3> QED BY <3>2, <2>1 DEF Exts
  <2>3. CASE k # h BY <2>3, <1>8
  <2>4. CASE k = h
    <3>1. j \in 1 .. n /\ j # i /\ r[k].busy = u /\ i \in Nat /\ j \in Nat
      BY <2>4, <1>2, <1>6, <1>8, <1>18
    <3>2. CASE j > i
      <4>1. j - 1 \in DOMAIN u /\ j - 1 >= i /\ (j - 1) + 1 = j BY <3>1, <3>2, <1>2, <1>5
      <4>2. u[j - 1] = q[h].busy[j] BY <4>1, <1>11
      <4> QED BY <4>1, <4>2, <3>1, <2>4
    <3>3. CASE ~(j > i)
      <4>1. j \in DOMAIN u /\ ~(j >= i) BY <3>1, <3>3, <1>2, <1>5
      <4>2. u[j] = q[h].busy[j] BY <4>1, <1>12
      <4> QED BY <4>1, <4>2, <3>1, <2>4
    <3> QED BY <3>2, <3>3
  <2> QED BY <2>3, <2>4
<1>19. Exts(r) = Exts(q) \ {q[h].busy[i]}
  <2>1. <<h, i>> \in Places(q) /\ At(q, <<h, i>>) = q[h].busy[i] BY <1>1, PlaceOf
  <2>2. \A b \in Places(q) : At(q, b) = q[h].busy[i] => b = <<h, i>> BY <2>1, OnePlace
  <2>3. Exts(q) \ {q[h].busy[i]} \subseteq Exts(r) BY <1>18, <2>1 DEF Exts
  <2>4. Exts(r) \subseteq Exts(q) \ {q[h].busy[i]} BY <1>14, <2>2 DEF Exts
  <2> QED BY <2>3, <2>4
<1>20. Avail(r[h]) > 0
  <2>1. n <= size /\ q[h].size = size BY DEF Listed
  <2>2. Avail(r[h]) = size - (n - 1) BY <2>1, <1>4, <1>6, <1>8 DEF Avail
  <2>3. size \in Nat /\ n \in Nat BY <1>2
  <2> HIDE DEF n
  <2>4. size - (n - 1) > 0 BY ONLY <2>1, <2>3
  <2> QED BY <2>2, <2>4
<1>21. Heads(r) = Heads(q) BY <1>6, <1>8 DEF Heads
<1> QED BY <1>6, <1>8, <1>17, <1>19, <1>20, <1>21 DEF r, u

(* A list with one extent that is new, apart from all the others.          *)
LEMMA Placed ==
  ASSUME NEW size, NEW q, Listed(q, size), NEW r \in Seq(Hdr), NEW p, NEW y, Sound(y),
         \A h \in DOMAIN r : r[h].size = size /\ Len(r[h].busy) <= size,
         At(r, p) = y,
         \A a \in Places(r) : a = p \/ (a \in Places(q) /\ At(r, a) = At(q, a) /\ Apart(y, At(q, a)))
  PROVE  Listed(r, size)
BY DEF Listed, Apart

(* An extent is replaced by another.                                       *)
Instead(q, h, i, y) == [q EXCEPT ![h].busy = [@ EXCEPT ![i] = y]]
LEMMA PutList ==
  ASSUME NEW size \in Nat, NEW q, Listed(q, size), NEW h \in DOMAIN q, NEW i \in DOMAIN q[h].busy,
         NEW y, Sound(y), \A x \in Exts(q) : x # q[h].busy[i] => Apart(y, x)
  PROVE  LET r == Instead(q, h, i, y) IN
         /\ Listed(r, size) /\ Exts(r) = (Exts(q) \ {q[h].busy[i]}) \cup {y}
         /\ DOMAIN r = DOMAIN q /\ Heads(r) = Heads(q)
         /\ \A k \in DOMAIN q : Avail(r[k]) = Avail(q[k])
         /\ r[h].busy = [q[h].busy EXCEPT ![i] = y]
<1> DEFINE r == Instead(q, h, i, y)
           u == [q[h].busy EXCEPT ![i] = y]
           d == [q[h] EXCEPT !.busy = u]
<1>1. q \in Seq(Hdr) BY DEF Listed
<1>2. /\ q[h] \in Hdr /\ q[h].busy \in Seq(Ext) /\ Len(q[h].busy) \in Nat
      /\ DOMAIN q[h].busy = 1 .. Len(q[h].busy) /\ i \in 1 .. Len(q[h].busy)
  BY <1>1, HeaderIn
<1>3. DOMAIN q = 1 .. Len(q) /\ Len(q) \in Nat BY <1>1, LenProperties
<1>4. /\ u \in Seq(Ext) /\ Len(u) = Len(q[h].busy) /\ DOMAIN u = DOMAIN q[h].busy
      /\ u[i] = y /\ \A j \in DOMAIN u : j # i => u[j] = q[h].busy[j]
  BY <1>2, ExceptSeq DEF Sound
<1> HIDE DEF u
<1>6. d \in Hdr /\ d.busy = u /\ d.at = q[h].at /\ d.size = q[h].size
  BY <1>2, <1>4 DEF Hdr
<1>7. r = [q EXCEPT ![h] = d] BY DEF Instead, u
<1> HIDE DEF d
<1>8. /\ r \in Seq(Hdr) /\ DOMAIN r = DOMAIN q /\ r[h] = d /\ \A k \in DOMAIN q : k # h => r[k] = q[k]
  BY <1>1, <1>3, <1>6, <1>7, ExceptSeq, LenProperties
<1> HIDE DEF r
<1>9. \A k \in DOMAIN r : r[k].size = size /\ Len(r[k].busy) <= size
  BY <1>4, <1>6, <1>8 DEF Listed
<1>10. \A k \in DOMAIN q : DOMAIN r[k].busy = DOMAIN q[k].busy BY <1>4, <1>6, <1>8
<1>11. Places(r) = Places(q) BY <1>8, <1>10 DEF Places
<1>12. <<h, i>> \in Places(r) /\ At(r, <<h, i>>) = y /\ At(q, <<h, i>>) = q[h].busy[i]
  <2>1. <<h, i>> \in Places(q) BY <1>1, PlaceOf
  <2> QED BY <2>1, <1>1, <1>4, <1>6, <1>8, <1>11, PlaceOf
<1>13. \A a \in Places(r) : a # <<h, i>> => At(r, a) = At(q, a)
  <2>1. ASSUME NEW k \in DOMAIN r, NEW j \in DOMAIN r[k].busy, <<k, j>> # <<h, i>>
        PROVE  At(r, <<k, j>>) = At(q, <<k, j>>)
    <3>1. r[k].busy[j] = q[k].busy[j] BY <2>1, <1>4, <1>6, <1>8
    <3> QED BY <3>1 DEF At
  <2> QED BY <2>1, <1>8, PlaceOf
<1>14. \A a \in Places(q) : a # <<h, i>> => At(q, a) # q[h].busy[i] /\ At(q, a) \in Exts(q)
  BY <1>11, <1>12, OnePlace DEF Exts
<1>15. Listed(r, size)
  <2>1. \A a \in Places(r) : a = <<h, i>>
              \/ (a \in Places(q) /\ At(r, a) = At(q, a) /\ Apart(y, At(q, a)))
    BY <1>11, <1>13, <1>14
  <2> QED BY <2>1, <1>8, <1>9, <1>12, Placed
<1>16. Exts(r) = (Exts(q) \ {q[h].busy[i]}) \cup {y}
  BY <1>11, <1>12, <1>13, <1>14 DEF Exts
<1>17. \A k \in DOMAIN q : Avail(r[k]) = Avail(q[k]) BY <1>4, <1>6, <1>8 DEF Avail
<1>18. Heads(r) = Heads(q) BY <1>6, <1>8 DEF Heads
<1> QED BY <1>6, <1>8, <1>15, <1>16, <1>17, <1>18 DEF r, u

(* An extent is added to a header that has room.                           *)
With(q, h, e) == [q EXCEPT ![h].busy = Append(@, e)]
LEMMA AddList ==
  ASSUME NEW size \in Nat, NEW q, Listed(q, size), NEW h \in DOMAIN q, Avail(q[h]) > 0,
         NEW e, Sound(e), \A x \in Exts(q) : Apart(e, x)
  PROVE  LET r == With(q, h, e) IN
         /\ Listed(r, size) /\ Exts(r) = Exts(q) \cup {e}
         /\ DOMAIN r = DOMAIN q /\ Heads(r) = Heads(q)
         /\ \A k \in DOMAIN q : k # h => r[k] = q[k]
         /\ Avail(r[h]) = Avail(q[h]) - 1
<1> DEFINE r == With(q, h, e)
           u == Append(q[h].busy, e)
           d == [q[h] EXCEPT !.busy = u]
           n == Len(q[h].busy)
<1>1. q \in Seq(Hdr) BY DEF Listed
<1>2. /\ q[h] \in Hdr /\ q[h].busy \in Seq(Ext) /\ n \in Nat
      /\ DOMAIN q[h].busy = 1 .. n
  BY <1>1, HeaderIn
<1>3. DOMAIN q = 1 .. Len(q) /\ Len(q) \in Nat BY <1>1, LenProperties
<1>4. /\ u \in Seq(Ext) /\ Len(u) = n + 1
      /\ u[n + 1] = e /\ \A j \in 1 .. n : u[j] = q[h].busy[j]
  <2>1. e \in Ext BY DEF Sound
  <2> QED BY <1>2, <2>1, AppendProperties
<1> HIDE DEF u
<1>5. DOMAIN u = 1 .. n + 1 BY <1>4, LenProperties
<1>6. d \in Hdr /\ d.busy = u /\ d.at = q[h].at /\ d.size = q[h].size
  BY <1>2, <1>4 DEF Hdr
<1>7. r = [q EXCEPT ![h] = d] BY DEF With, u
<1> HIDE DEF d
<1>8. /\ r \in Seq(Hdr) /\ DOMAIN r = DOMAIN q /\ r[h] = d /\ \A k \in DOMAIN q : k # h => r[k] = q[k]
  BY <1>1, <1>3, <1>6, <1>7, ExceptSeq, LenProperties
<1> HIDE DEF r
<1>9. /\ q[h].size = size /\ size - n > 0 /\ Avail(q[h]) = size - n /\ Avail(r[h]) = size - (n + 1)
  <2>1. q[h].size = size BY DEF Listed
  <2> QED BY <2>1, <1>4, <1>6, <1>8 DEF Avail
<1>10. \A k \in DOMAIN r : r[k].size = size /\ Len(r[k].busy) <= size
  <2>1. size \in Nat /\ n \in Nat BY <1>2
  <2>2. n + 1 <= size
    <3> HIDE DEF n
    <3> QED BY ONLY <2>1, <1>9
  <2> QED BY <2>2, <1>4, <1>6, <1>8, <1>9 DEF Listed
<1>11. n + 1 \notin DOMAIN q[h].busy /\ \A j : j \in DOMAIN u <=> j \in DOMAIN q[h].busy \/ j = n + 1
  <2> HIDE DEF n
  <2> QED BY <1>2, <1>5
<1>12. Places(r) = Places(q) \cup {<<h, n + 1>>} /\ <<h, n + 1>> \notin Places(q)
  <2> HIDE DEF n
  <2>1. \A k, j : <<k, j>> \in Places(r) <=> <<k, j>> \in Places(q) \/ <<k, j>> = <<h, n + 1>>
    <3> TAKE k, j
    <3>1. CASE k = h BY <3>1, <1>1, <1>6, <1>8, <1>11, PlaceOf
    <3>2. CASE k # h BY <3>2, <1>1, <1>6, <1>8, PlaceOf
    <3> QED BY <3>1, <3>2
  <2>2. <<h, n + 1>> \notin Places(q) BY <1>1, <1>11, PlaceOf
  <2> QED BY <2>1, <2>2, <1>1, <1>8, PlaceOf
<1>13. At(r, <<h, n + 1>>) = e BY <1>4, <1>6, <1>8 DEF At
<1>14. \A a \in Places(q) : At(r, a) = At(q, a) /\ At(q, a) \in Exts(q)
  <2> HIDE DEF n
  <2>1. ASSUME NEW k \in DOMAIN q, NEW j \in DOMAIN q[k].busy
        PROVE  At(r, <<k, j>>) = At(q, <<k, j>>)
    <3>1. r[k].busy[j] = q[k].busy[j]
      <4>1. CASE k = h BY <4>1, <1>2, <1>4, <1>6, <1>8
      <4> QED BY <4>1, <1>8
    <3> QED BY <3>1 DEF At
  <2> QED BY <2>1, <1>1, PlaceOf DEF Exts
<1>15. Listed(r, size)
  <2>1. \A a \in Places(r) : a = <<h, n + 1>>
              \/ (a \in Places(q) /\ At(r, a) = At(q, a) /\ Apart(e, At(q, a)))
    BY <1>12, <1>14
  <2> QED BY <2>1, <1>8, <1>10, <1>13, Placed
<1>16. Exts(r) = Exts(q) \cup {e}
  BY <1>12, <1>13, <1>14 DEF Exts
<1>17. Heads(r) = Heads(q) BY <1>6, <1>8 DEF Heads
<1>18. size - (n + 1) = (size - n) - 1
  <2>1. size \in Nat /\ n \in Nat BY <1>2
  <2> HIDE DEF n
  <2> QED BY ONLY <2>1
<1> QED BY <1>8, <1>9, <1>15, <1>16, <1>17, <1>18 DEF r

(* The header that has been used comes first.                              *)
First(q, h) == <<q[h]>> \o RemoveAt(q, h)
LEMMA FirstList ==
  ASSUME NEW size \in Nat, NEW q, Listed(q, size), NEW h \in DOMAIN q
  PROVE  LET r == First(q, h) IN
         Listed(r, size) /\ Exts(r) = Exts(q) /\ Heads(r) = Heads(q) /\ 1 \in DOMAIN r /\ r[1] = q[h]
<1> DEFINE r == First(q, h)
           w == RemoveAt(q, h)
           n == Len(q)
           g == [k \in DOMAIN r |-> IF k = 1 THEN h ELSE IF k <= h THEN k - 1 ELSE k]
           f == [a \in Places(r) |-> <<g[a[1]], a[2]>>]
<1>1. q \in Seq(Hdr) BY DEF Listed
<1>2. n \in Nat /\ DOMAIN q = 1 .. n /\ h \in 1 .. n /\ q[h] \in Hdr
  BY <1>1, HeaderIn, LenProperties
<1>3. /\ w \in Seq(Hdr) /\ Len(w) = n - 1
      /\ \A k \in DOMAIN w : w[k] = IF k < h THEN q[k] ELSE q[k + 1]
  BY <1>1, Removed
<1>4. /\ r \in Seq(Hdr) /\ Len(r) = Len(w) + 1
      /\ \A k \in DOMAIN r : r[k] = IF k = 1 THEN q[h] ELSE w[k - 1]
  <2> DEFINE x == q[h]
             z == <<x>> \o w
  <2>1. r = z BY DEF First
  <2>2. x \in Hdr BY <1>2
  <2> HIDE DEF w, r, x
  <2>3. /\ z \in Seq(Hdr) /\ Len(z) = Len(w) + 1
        /\ \A k \in DOMAIN z : z[k] = IF k = 1 THEN x ELSE w[k - 1]
    BY <2>2, <1>3, Consed
  <2> HIDE DEF z
  <2> QED BY <2>1, <2>3 DEF x
<1> HIDE DEF r, w, n
<1>5. DOMAIN w = 1 .. n - 1 /\ DOMAIN r = 1 .. n BY <1>2, <1>3, <1>4, LenProperties
<1>6. ASSUME NEW k \in DOMAIN r PROVE g[k] \in DOMAIN q /\ r[k] = q[g[k]]
  <2>1. k \in 1 .. n /\ k \in Nat /\ h \in Nat BY <1>2, <1>5
  <2>2. CASE k = 1 BY <2>2, <1>2, <1>4
  <2>3. CASE k # 1 /\ k <= h
    <3>1. k - 1 \in DOMAIN w /\ k - 1 < h /\ k - 1 \in DOMAIN q BY <2>1, <2>3, <1>2, <1>5
    <3> QED BY <3>1, <2>3, <1>3, <1>4
  <2>4. CASE k # 1 /\ ~(k <= h)
    <3>1. k - 1 \in DOMAIN w /\ ~(k - 1 < h) /\ (k - 1) + 1 = k /\ k \in DOMAIN q
      BY <2>1, <2>4, <1>2, <1>5
    <3> QED BY <3>1, <2>4, <1>3, <1>4
  <2> QED BY <2>2, <2>3, <2>4
<1>7. \A k, l \in DOMAIN r : g[k] = g[l] => k = l
  <2>1. h \in Nat BY <1>2
  <2> QED BY <2>1, <1>2, <1>5
<1>8. ASSUME NEW k \in DOMAIN q PROVE \E l \in DOMAIN r : g[l] = k
  <2>1. k \in 1 .. n /\ k \in Nat /\ h \in Nat BY <1>2
  <2>2. CASE k = h BY <2>2, <1>2, <1>5
  <2>3. CASE k < h
    <3>1. k + 1 \in DOMAIN r /\ g[k + 1] = k BY <2>1, <2>3, <1>2, <1>5
    <3> QED BY <3>1
  <2>4. CASE k > h
    <3>1. k \in DOMAIN r /\ g[k] = k BY <2>1, <2>4, <1>2, <1>5
    <3> QED BY <3>1
  <2> QED BY <2>1, <2>2, <2>3, <2>4
<1> HIDE DEF g
<1>9. ASSUME NEW k \in DOMAIN r, NEW j \in DOMAIN r[k].busy
      PROVE  /\ f[<<k, j>>] = <<g[k], j>> /\ f[<<k, j>>] \in Places(q)
             /\ At(r, <<k, j>>) = At(q, f[<<k, j>>])
  <2>1. <<k, j>> \in Places(r) BY <1>4, PlaceOf
  <2>2. f[<<k, j>>] = <<g[k], j>> BY <2>1
  <2>3. <<g[k], j>> \in Places(q) BY <1>1, <1>6, PlaceOf
  <2>4. At(r, <<k, j>>) = At(q, <<g[k], j>>) BY <1>6 DEF At
  <2> QED BY <2>2, <2>3, <2>4
<1> HIDE DEF f
<1>10. \A a \in Places(r) : f[a] \in Places(q) /\ At(r, a) = At(q, f[a])
  BY <1>9, <1>4, PlaceOf
<1>11. \A a, b \in Places(r) : a # b => f[a] # f[b]
  <2>1. ASSUME NEW k \in DOMAIN r, NEW j \in DOMAIN r[k].busy, NEW l \in DOMAIN r, NEW m \in DOMAIN r[l].busy,
               f[<<k, j>>] = f[<<l, m>>]
        PROVE  <<k, j>> = <<l, m>>
    <3>1. g[k] = g[l] /\ j = m BY <2>1, <1>9
    <3> QED BY <3>1, <1>7
  <2> QED BY <2>1, <1>4, PlaceOf
<1>12. \A k \in DOMAIN r : r[k].size = size /\ Len(r[k].busy) <= size
  BY <1>6 DEF Listed
<1>13. Listed(r, size) BY <1>4, <1>10, <1>11, <1>12, Relisted
<1>14. Exts(q) \subseteq Exts(r)
  <2>1. ASSUME NEW k \in DOMAIN q, NEW j \in DOMAIN q[k].busy
        PROVE  At(q, <<k, j>>) \in Exts(r)
    <3>1. PICK l \in DOMAIN r : g[l] = k BY <1>8
    <3>2. r[l] = q[k] BY <3>1, <1>6
    <3>3. <<l, j>> \in Places(r) /\ At(r, <<l, j>>) = At(q, <<k, j>>)
      BY <3>2, <1>4, PlaceOf DEF At
    <3> QED BY <3>3 DEF Exts
  <2> QED BY <2>1, <1>1, PlaceOf DEF Exts
<1>15. Exts(r) \subseteq Exts(q) BY <1>10 DEF Exts
<1>16. Heads(r) = Heads(q)
  <2>1. ASSUME NEW k \in DOMAIN q PROVE \E l \in DOMAIN r : r[l] = q[k] BY <1>6, <1>8
  <2> QED BY <2>1, <1>6 DEF Heads
<1>17. 1 \in DOMAIN r BY <1>2, <1>5
<1> QED BY <1>4, <1>13, <1>14, <1>15, <1>16, <1>17 DEF r

(* An empty header is appended.                                            *)
LEMMA NewList ==
  ASSUME NEW size \in Nat, NEW q, Listed(q, size), NEW page \in Nat
  PROVE  LET r == Append(q, Header(page, size)) IN
         /\ Listed(r, size) /\ Exts(r) = Exts(q) /\ Heads(r) = Heads(q) \cup {page}
         /\ Len(q) + 1 \in DOMAIN r /\ Avail(r[Len(q) + 1]) = size
<1> DEFINE d == Header(page, size)
           r == Append(q, d)
           n == Len(q)
<1>1. q \in Seq(Hdr) BY DEF Listed
<1>2. n \in Nat /\ DOMAIN q = 1 .. n BY <1>1, LenProperties
<1>3. d \in Hdr /\ d.busy = <<>> /\ d.size = size /\ d.at = page /\ Len(d.busy) = 0 /\ DOMAIN d.busy = {}
  BY EmptySeq DEF Header, Hdr
<1> HIDE DEF d
<1>4. r \in Seq(Hdr) /\ Len(r) = n + 1 /\ r[n + 1] = d /\ \A k \in 1 .. n : r[k] = q[k]
  BY <1>1, <1>3, AppendProperties
<1> HIDE DEF r
<1>5. DOMAIN r = 1 .. n + 1 BY <1>4, LenProperties
<1>6. n + 1 \notin DOMAIN q /\ \A k : k \in DOMAIN r <=> k \in DOMAIN q \/ k = n + 1
  <2> HIDE DEF n
  <2> QED BY <1>2, <1>5
<1>7. Places(r) = Places(q) /\ \A a \in Places(q) : At(r, a) = At(q, a)
  <2> HIDE DEF n
  <2>1. ASSUME NEW k, NEW j PROVE <<k, j>> \in Places(r) <=> <<k, j>> \in Places(q)
    <3>1. CASE k = n + 1 BY <3>1, <1>1, <1>3, <1>4, <1>6, PlaceOf
    <3>2. CASE k # n + 1
      <4>1. k \in DOMAIN r <=> k \in DOMAIN q BY <3>2, <1>6
      <4>2. k \in DOMAIN q => r[k] = q[k] BY <1>2, <1>4
      <4> QED BY <4>1, <4>2, <1>1, <1>4, PlaceOf
    <3> QED BY <3>1, <3>2
  <2>2. \A k, j : <<k, j>> \in Places(q) => At(r, <<k, j>>) = At(q, <<k, j>>)
    BY <1>1, <1>2, <1>4, PlaceOf
  <2>3. \A a \in Places(r) : \E k, j : a = <<k, j>> BY <1>4, PlaceOf
  <2>4. \A a \in Places(q) : \E k, j : a = <<k, j>> BY <1>1, PlaceOf
  <2> QED BY <2>1, <2>2, <2>3, <2>4
<1>8. \A k \in DOMAIN r : r[k].size = size /\ Len(r[k].busy) <= size
  <2> HIDE DEF n
  <2>1. 0 <= size OBVIOUS
  <2> QED BY <2>1, <1>2, <1>3, <1>4, <1>6 DEF Listed
<1>9. Listed(r, size) BY <1>4, <1>7, <1>8 DEF Listed
<1>10. Exts(r) = Exts(q) BY <1>7 DEF Exts
<1>11. Heads(r) = Heads(q) \cup {page}
  <2> HIDE DEF n
  <2> QED BY <1>2, <1>3, <1>4, <1>6 DEF Heads
<1>12. Avail(r[n + 1]) = size BY <1>3, <1>4 DEF Avail
<1> QED BY <1>6, <1>9, <1>10, <1>11, <1>12 DEF r, d

-------------------------------------------------------------------------------
(* Which places FirstOf and Best choose; extents that merge.               *)

LEMMA FirstOfIn ==
  ASSUME NEW S \in SUBSET (Nat \X Nat), S # {}
  PROVE  FirstOf(S) \in S
<1> DEFINE H == {a[1] : a \in S}
<1>1. H \in SUBSET Nat /\ H # {} OBVIOUS
<1>2. PICK h \in H : \A k \in H : h <= k BY <1>1, LeastNat
<1> DEFINE I == {a[2] : a \in {b \in S : b[1] = h}}
<1>3. I \in SUBSET Nat /\ I # {} OBVIOUS
<1>4. PICK i \in I : \A k \in I : i <= k BY <1>3, LeastNat
<1>5. PICK a \in S : a = <<h, i>> OBVIOUS
<1>6. ASSUME NEW b \in S \ {a} PROVE Before(a, b)
  <2>1. b = <<b[1], b[2]>> /\ b[1] \in Nat /\ b[2] \in Nat /\ h \in Nat /\ i \in Nat
    BY <1>1, <1>3
  <2>2. b[1] \in H /\ h <= b[1] BY <1>2
  <2>3. CASE b[1] = h
    <3>1. b[2] \in I /\ i <= b[2] BY <2>3, <1>4
    <3>2. b[2] # i BY <2>1, <2>3, <1>5
    <3> QED BY <3>1, <3>2, <2>1, <2>3, <1>5 DEF Before
  <2>4. CASE b[1] # h BY <2>1, <2>2, <2>4, <1>5 DEF Before
  <2> QED BY <2>3, <2>4
<1> QED BY <1>6 DEF FirstOf

LEMMA PlacesIn ==
  ASSUME NEW q \in Seq(Hdr)
  PROVE  Places(q) \in SUBSET (Nat \X Nat)
<1>1. ASSUME NEW h \in DOMAIN q, NEW i \in DOMAIN q[h].busy PROVE h \in Nat /\ i \in Nat
  BY HeaderIn
<1> QED BY <1>1 DEF Places

LEMMA FullestIn ==
  ASSUME NEW q \in Seq(Hdr), NEW H \in SUBSET Roomy(q), H # {}
  PROVE  Fullest(q, H) \in H
<1>1. ASSUME NEW h \in H PROVE h \in Nat /\ Avail(q[h]) \in Nat
  <2>1. h \in DOMAIN q /\ Avail(q[h]) > 0 BY DEF Roomy
  <2>2. q[h].size \in Nat /\ Len(q[h].busy) \in Nat /\ h \in Nat BY <2>1, HeaderIn
  <2>3. Avail(q[h]) \in Int BY <2>2 DEF Avail
  <2> QED BY <2>1, <2>2, <2>3
<1> DEFINE A == {Avail(q[h]) : h \in H}
<1>2. A \in SUBSET Nat /\ A # {} BY <1>1
<1>3. PICK m \in A : \A k \in A : m <= k BY <1>2, LeastNat
<1> DEFINE I == {h \in H : Avail(q[h]) = m}
<1>4. I \in SUBSET Nat /\ I # {} BY <1>1
<1>5. PICK i \in I : \A k \in I : i <= k BY <1>4, LeastNat
<1>6. ASSUME NEW k \in H \ {i}
      PROVE  Avail(q[i]) < Avail(q[k]) \/ (Avail(q[i]) = Avail(q[k]) /\ i < k)
  <2>1. m <= Avail(q[k]) /\ Avail(q[i]) = m BY <1>3
  <2>2. k \in Nat /\ i \in Nat /\ Avail(q[k]) \in Nat /\ m \in Nat BY <1>1, <1>2
  <2>3. CASE Avail(q[k]) = m BY <2>1, <2>2, <2>3, <1>5
  <2>4. CASE Avail(q[k]) # m BY <2>1, <2>2, <2>4
  <2> QED BY <2>3, <2>4
<1> QED BY <1>6 DEF Fullest

(* Two extents that meet and are alike make one.                           *)
LEMMA JoinSound ==
  ASSUME NEW e, NEW x, Sound(e), Sound(x), CanJoin(e, x)
  PROVE  /\ Sound(Join(e, x)) /\ PagesOf(Join(e, x)) = PagesOf(x) \cup PagesOf(e)
         /\ Join(e, x).flags = x.flags /\ Join(e, x).prot = x.prot
         /\ e.flags = x.flags /\ e.prot = x.prot
<1> DEFINE y == Join(e, x)
<1>1. /\ e.base \in Nat /\ e.len \in Nat /\ e.len > 0 /\ x.base \in Nat /\ x.len \in Nat /\ x.len > 0
      /\ e \in Ext /\ x \in Ext
  BY DEF Sound, Ext
<1>2. /\ x.base = e.base + e.len \/ x.base + x.len = e.base
      /\ e.flags = x.flags /\ e.prot = x.prot
  BY DEF CanJoin
<1>3. /\ y.base = IF e.base < x.base THEN e.base ELSE x.base
      /\ y.len = x.len + e.len /\ y.flags = x.flags /\ y.prot = x.prot
      /\ y \in Ext
  <2> DEFINE b == IF e.base < x.base THEN e.base ELSE x.base
             l == x.len + e.len
  <2>1. b \in Nat /\ l \in Nat BY <1>1
  <2>2. y = [x EXCEPT !.base = b, !.len = l] BY DEF Join
  <2>3. x \in Ext BY <1>1
  <2> HIDE DEF b, l, y
  <2>4. y.base = b /\ y.len = l /\ y.flags = x.flags /\ y.prot = x.prot /\ y \in Ext
    BY <2>1, <2>2, <2>3 DEF Ext
  <2> QED BY <2>4 DEF b, l
<1>4. PagesOf(y) = PagesOf(x) \cup PagesOf(e)
  <2> HIDE DEF y
  <2>1. CASE x.base = e.base + e.len
    <3>1. y.base = e.base BY <2>1, <1>1, <1>3
    <3> QED BY <3>1, <2>1, <1>1, <1>3 DEF PagesOf
  <2>2. CASE x.base + x.len = e.base
    <3>1. y.base = x.base BY <2>2, <1>1, <1>3
    <3> QED BY <3>1, <2>2, <1>1, <1>3 DEF PagesOf
  <2> QED BY <1>2, <2>1, <2>2
<1>5. y.len > 0 /\ Region(y) = Region(x) /\ Zone(y) = Zone(x) /\ Zone(e) = Zone(x)
  BY <1>1, <1>2, <1>3 DEF Region, Zone
<1>6. Sound(y) BY <1>3, <1>4, <1>5 DEF Sound
<1> QED BY <1>2, <1>3, <1>4, <1>6

LEMMA RemovedFrom ==
  ASSUME NEW S, NEW b \in Seq(S), NEW i \in DOMAIN b, NEW j \in DOMAIN b, i < j, NEW y \in S
  PROVE  /\ RemoveAt([b EXCEPT ![i] = y], j) = [RemoveAt(b, j) EXCEPT ![i] = y]
         /\ i \in DOMAIN RemoveAt(b, j) /\ RemoveAt(b, j)[i] = b[i]
<1> DEFINE c == [b EXCEPT ![i] = y]
           u == RemoveAt(b, j)
           v == RemoveAt(c, j)
           w == [u EXCEPT ![i] = y]
           n == Len(b)
<1>1. n \in Nat /\ DOMAIN b = 1 .. n /\ i \in 1 .. n /\ j \in 1 .. n BY LenProperties
<1>2. c \in Seq(S) /\ Len(c) = n /\ DOMAIN c = DOMAIN b /\ c[i] = y /\ \A k \in DOMAIN b : k # i => c[k] = b[k]
  BY <1>1, ExceptSeq
<1>3. /\ u \in Seq(S) /\ Len(u) = n - 1
      /\ \A k \in DOMAIN u : u[k] = IF k < j THEN b[k] ELSE b[k + 1]
  BY Removed
<1> HIDE DEF c
<1>4. /\ v \in Seq(S) /\ Len(v) = n - 1
      /\ \A k \in DOMAIN v : v[k] = IF k < j THEN c[k] ELSE c[k + 1]
  BY <1>2, Removed
<1>5. DOMAIN u = 1 .. n - 1 /\ DOMAIN v = 1 .. n - 1 BY <1>3, <1>4, LenProperties
<1> HIDE DEF u, v
<1>6. i \in 1 .. n - 1 BY <1>1
<1>7. w \in Seq(S) /\ Len(w) = n - 1 /\ w[i] = y /\ \A k \in 1 .. n - 1 : k # i => w[k] = u[k]
  BY <1>3, <1>5, <1>6, ExceptSeq
<1> HIDE DEF w
<1>8. ASSUME NEW k \in 1 .. n - 1 PROVE v[k] = w[k]
  <2>1. k \in Nat /\ k \in DOMAIN b /\ k + 1 \in DOMAIN b /\ i \in Nat /\ j \in Nat
    BY <1>1
  <2>2. CASE k = i
    <3>1. v[k] = c[k] BY <2>2, <1>4, <1>5
    <3> QED BY <3>1, <2>2, <1>2, <1>7
  <2>3. CASE k # i /\ k < j
    <3>1. v[k] = c[k] /\ u[k] = b[k] BY <2>3, <1>3, <1>4, <1>5
    <3> QED BY <3>1, <2>1, <2>3, <1>2, <1>7
  <2>4. CASE k # i /\ ~(k < j)
    <3>1. v[k] = c[k + 1] /\ u[k] = b[k + 1] /\ k + 1 # i BY <2>1, <2>4, <1>3, <1>4, <1>5
    <3> QED BY <3>1, <2>1, <2>4, <1>2, <1>7
  <2> QED BY <2>2, <2>3, <2>4
<1>9. v = w BY <1>4, <1>7, <1>8, SeqEqual
<1>10. u[i] = b[i] BY <1>3, <1>5, <1>6
<1> QED BY <1>5, <1>6, <1>9, <1>10 DEF u, v, w, c

-------------------------------------------------------------------------------
(* B has the pages of A, and every extent of A as a part of one of its kind. *)
Alike(x, y) == x.flags = y.flags /\ x.prot = y.prot
Within(x, B) == \E y \in B : PagesOf(x) \subseteq PagesOf(y) /\ Alike(x, y)
Cov(A, B) ==
  /\ UNION {PagesOf(x) : x \in A} = UNION {PagesOf(y) : y \in B}
  /\ \A x \in A : Within(x, B)
  /\ \A y \in B : \E x \in A : Alike(x, y)

LEMMA CovTrans ==
  ASSUME NEW A, NEW B, NEW C, Cov(A, B), Cov(B, C)
  PROVE  Cov(A, C)
<1>1. UNION {PagesOf(x) : x \in A} = UNION {PagesOf(y) : y \in C} BY DEF Cov
<1>2. ASSUME NEW x \in A PROVE Within(x, C)
  <2>1. PICK y \in B : PagesOf(x) \subseteq PagesOf(y) /\ Alike(x, y) BY DEF Cov, Within
  <2>2. PICK z \in C : PagesOf(y) \subseteq PagesOf(z) /\ Alike(y, z) BY DEF Cov, Within
  <2> QED BY <2>1, <2>2 DEF Within, Alike
<1>3. ASSUME NEW z \in C PROVE \E x \in A : Alike(x, z)
  <2>1. PICK y \in B : Alike(y, z) BY DEF Cov
  <2>2. PICK x \in A : Alike(x, y) BY DEF Cov
  <2> QED BY <2>1, <2>2 DEF Alike
<1> QED BY <1>1, <1>2, <1>3 DEF Cov

LEMMA CovSelf == ASSUME NEW A PROVE Cov(A, A)
BY DEF Cov, Within, Alike

(* Two extents of a set become one.                                        *)
LEMMA CovJoin ==
  ASSUME NEW A, NEW e \in A, NEW x \in A, NEW y,
         PagesOf(y) = PagesOf(x) \cup PagesOf(e), Alike(e, y), Alike(x, y)
  PROVE  Cov(A, (A \ {e, x}) \cup {y})
<1> DEFINE B == (A \ {e, x}) \cup {y}
<1>1. UNION {PagesOf(z) : z \in A} = UNION {PagesOf(z) : z \in B} OBVIOUS
<1>2. \A z \in A : Within(z, B) BY DEF Within, Alike
<1>3. \A z \in B : \E w \in A : Alike(w, z) BY DEF Alike
<1> QED BY <1>1, <1>2, <1>3 DEF Cov

LEMMA AvailIn ==
  ASSUME NEW size \in Nat, NEW q, Listed(q, size), NEW h \in DOMAIN q
  PROVE  Avail(q[h]) \in Nat
<1>1. q[h].size = size /\ Len(q[h].busy) <= size /\ q \in Seq(Hdr) BY DEF Listed
<1>2. Len(q[h].busy) \in Nat BY <1>1, HeaderIn
<1> QED BY <1>1, <1>2 DEF Avail

(* After a join, the extent takes in one of its header that it now meets.  *)
LEMMA MergeList ==
  ASSUME NEW size \in Nat, NEW q, Listed(q, size), NEW h \in DOMAIN q, NEW i \in DOMAIN q[h].busy
  PROVE  LET r == [q EXCEPT ![h].busy = MergeAt(@, i)] IN
         /\ Listed(r, size) /\ Cov(Exts(q), Exts(r))
         /\ DOMAIN r = DOMAIN q /\ Heads(r) = Heads(q)
         /\ \A k \in DOMAIN q : Avail(r[k]) >= Avail(q[k])
<1> DEFINE b == q[h].busy
           r == [q EXCEPT ![h].busy = MergeAt(@, i)]
           js == {j \in i + 1 .. Len(b) : CanJoin(b[j], b[i])}
<1>1. q \in Seq(Hdr) BY DEF Listed
<1>2. q[h] \in Hdr /\ b \in Seq(Ext) /\ Len(b) \in Nat /\ DOMAIN b = 1 .. Len(b) /\ i \in 1 .. Len(b)
  BY <1>1, HeaderIn
<1>3. \A k \in DOMAIN q : Avail(q[k]) \in Nat BY AvailIn
<1>4. CASE js = {}
  <2>1. MergeAt(b, i) = b BY <1>4 DEF MergeAt
  <2>2. r = q BY <2>1, <1>1, <1>2 DEF Hdr
  <2> QED BY <2>2, <1>3, CovSelf
<1>5. CASE js # {}
  <2>1. js \in SUBSET Nat BY <1>2
  <2> DEFINE j == CHOOSE j \in js : \A k \in js : j <= k
             y == Join(b[j], b[i])
             p == Without(q, h, j)
             s == Instead(p, h, i, y)
  <2>2. j \in js BY <2>1, <1>5, LeastNat
  <2> HIDE DEF j
  <2>3. j \in DOMAIN b /\ i < j /\ i # j /\ CanJoin(b[j], b[i]) BY <2>2, <1>2
  <2>4. <<h, i>> \in Places(q) /\ <<h, j>> \in Places(q) /\ At(q, <<h, i>>) = b[i] /\ At(q, <<h, j>>) = b[j]
    BY <2>3, <1>1, PlaceOf
  <2>5. Sound(b[i]) /\ Sound(b[j]) /\ b[i] # b[j] /\ b[i] \in Exts(q) /\ b[j] \in Exts(q)
    BY <2>3, <2>4, OnePlace DEF Listed, Exts
  <2>6. /\ Sound(y) /\ PagesOf(y) = PagesOf(b[i]) \cup PagesOf(b[j])
        /\ Alike(b[i], y) /\ Alike(b[j], y)
    BY <2>3, <2>5, JoinSound DEF Alike
  <2>7. /\ Listed(p, size) /\ Exts(p) = Exts(q) \ {b[j]}
        /\ DOMAIN p = DOMAIN q /\ Heads(p) = Heads(q)
        /\ \A k \in DOMAIN q : k # h => p[k] = q[k]
        /\ p[h].busy = RemoveAt(b, j)
    BY <2>3, DropList
  <2>8. y \in Ext BY <2>6 DEF Sound
  <2> HIDE DEF y, p
  <2>9. /\ RemoveAt([b EXCEPT ![i] = y], j) = [RemoveAt(b, j) EXCEPT ![i] = y]
        /\ i \in DOMAIN RemoveAt(b, j) /\ RemoveAt(b, j)[i] = b[i]
    <3>1. b \in Seq(Ext) /\ i \in DOMAIN b /\ j \in DOMAIN b /\ i < j /\ y \in Ext
      BY <2>3, <2>8, <1>2
    <3> HIDE DEF b
    <3> QED BY ONLY <3>1, RemovedFrom
  <2>10. \A x \in Exts(p) : x # p[h].busy[i] => Apart(y, x)
    <3>1. \A x \in Exts(q) : x = b[i] \/ Apart(b[i], x) BY <2>4 DEF Listed, Exts
    <3>2. \A x \in Exts(q) : x = b[j] \/ Apart(b[j], x) BY <2>4 DEF Listed, Exts
    <3> QED BY <3>1, <3>2, <2>6, <2>7, <2>9 DEF Apart
  <2>11. /\ Listed(s, size) /\ Exts(s) = (Exts(p) \ {b[i]}) \cup {y}
         /\ DOMAIN s = DOMAIN p /\ Heads(s) = Heads(p)
         /\ \A k \in DOMAIN p : Avail(s[k]) = Avail(p[k])
    BY <2>6, <2>7, <2>9, <2>10, PutList
  <2>12. MergeAt(b, i) = [RemoveAt(b, j) EXCEPT ![i] = y]
    <3>1. MergeAt(b, i) = TakeIn(b, i, j) BY <1>5 DEF MergeAt, j
    <3>2. TakeIn(b, i, j) = RemoveAt([b EXCEPT ![i] = y], j) BY DEF TakeIn, y
    <3> QED BY <3>1, <3>2, <2>9
  <2>13. r = s
    <3>1. r = [q EXCEPT ![h] = [q[h] EXCEPT !.busy = MergeAt(b, i)]] OBVIOUS
    <3>2. p = [q EXCEPT ![h] = [q[h] EXCEPT !.busy = RemoveAt(b, j)]] BY DEF p, Without
    <3>3. s = [p EXCEPT ![h] = [p[h] EXCEPT !.busy = [p[h].busy EXCEPT ![i] = y]]]
      BY DEF Instead
    <3> QED BY <3>1, <3>2, <3>3, <2>7, <2>12, <1>2 DEF Hdr
  <2>14. Exts(s) = (Exts(q) \ {b[j], b[i]}) \cup {y} BY <2>7, <2>11
  <2>15. Cov(Exts(q), Exts(s)) BY <2>5, <2>6, <2>14, CovJoin
  <2>16. \A k \in DOMAIN q : Avail(p[k]) >= Avail(q[k])
    <3>1. ASSUME NEW k \in DOMAIN q, k # h PROVE Avail(p[k]) >= Avail(q[k])
      BY <3>1, <2>7, <1>3
    <3>2. Avail(p[h]) >= Avail(q[h])
      <4>1. Len(p[h].busy) = Len(b) - 1 BY <2>3, <2>7, <1>2, Removed
      <4>2. p[h].size = size /\ q[h].size = size BY <2>7 DEF Listed
      <4>3. Avail(p[h]) = size - (Len(b) - 1) /\ Avail(q[h]) = size - Len(b)
        BY <4>1, <4>2 DEF Avail
      <4>4. size \in Nat /\ Len(b) \in Nat BY <1>2
      <4> QED BY ONLY <4>3, <4>4
    <3> QED BY <3>1, <3>2
  <2> HIDE DEF r, s
  <2>17. \A k \in DOMAIN q : Avail(r[k]) >= Avail(q[k]) BY <2>7, <2>11, <2>13, <2>16
  <2>18. Listed(r, size) /\ Cov(Exts(q), Exts(r)) /\ DOMAIN r = DOMAIN q /\ Heads(r) = Heads(q)
    BY <2>7, <2>11, <2>13, <2>15
  <2> QED BY <2>17, <2>18 DEF r
<1> QED BY <1>4, <1>5

-------------------------------------------------------------------------------
(* vm_extent_insert and vm_extent_extract.                                 *)

LEMMA CovAdd ==
  ASSUME NEW A, NEW e, NEW x \in A, NEW y,
         PagesOf(y) = PagesOf(x) \cup PagesOf(e), Alike(e, y), Alike(x, y)
  PROVE  Cov(A \cup {e}, (A \ {x}) \cup {y})
<1> DEFINE B == (A \ {x}) \cup {y}
<1>1. UNION {PagesOf(z) : z \in A \cup {e}} = UNION {PagesOf(z) : z \in B} OBVIOUS
<1>2. \A z \in A \cup {e} : Within(z, B) BY DEF Within, Alike
<1>3. \A z \in B : \E w \in A \cup {e} : Alike(w, z) BY DEF Alike
<1> QED BY <1>1, <1>2, <1>3 DEF Cov

LEMMA OneRegion ==
  ASSUME NEW e, Sound(e)
  PROVE  Cardinality(Region(e)) = 1
<1>1. Cardinality({"LOW"}) = 1 /\ Cardinality({"HIGH"}) = 1 BY FS_Singleton
<1> QED BY <1>1 DEF Sound

(* An extent is joined, or added where there is room, or not taken.        *)
LEMMA InsertList ==
  ASSUME NEW size \in Nat, NEW q, Listed(q, size), NEW e, Sound(e), \A x \in Exts(q) : Apart(e, x)
  PROVE  LET r == Insert(q, e) IN
         /\ Listed(r.q, size) /\ DOMAIN r.q = DOMAIN q /\ Heads(r.q) = Heads(q)
         /\ \A k \in DOMAIN q : Avail(r.q[k]) >= Avail(q[k]) - 1
         /\ \/ r.st = "OK" /\ HasRoom(q, e) /\ Cov(Exts(q) \cup {e}, Exts(r.q))
            \/ r.st = "NOMEM" /\ ~HasRoom(q, e) /\ r.q = q
<1> DEFINE r == Insert(q, e)
<1>1. q \in Seq(Hdr) BY DEF Listed
<1>2. Cardinality(Region(e)) = 1 /\ e.len # 0 BY OneRegion DEF Sound
<1>3. \A k \in DOMAIN q : Avail(q[k]) \in Nat BY AvailIn
<1>4. CASE Joinable(q, e)
  <2> DEFINE S == {a \in Places(q) : CanJoin(e, At(q, a))}
             at == FirstOf(S)
  <2>1. at \in S
    <3>1. S \in SUBSET (Nat \X Nat) /\ S # {} BY <1>1, <1>4, PlacesIn DEF Joinable
    <3> QED BY <3>1, FirstOfIn
  <2>2. r.st = "OK" /\ r.q = JoinedAt(q, e, at) BY <1>2, <1>4 DEF Insert
  <2> HIDE DEF at
  <2>3. PICK h \in DOMAIN q : \E i \in DOMAIN q[h].busy : at = <<h, i>>
    BY <2>1, <1>1, PlaceOf
  <2>4. PICK i \in DOMAIN q[h].busy : at = <<h, i>> BY <2>3
  <2> DEFINE x == q[h].busy[i]
             y == Join(e, x)
             p == Instead(q, h, i, y)
             s == [p EXCEPT ![h].busy = MergeAt(@, i)]
  <2>5. CanJoin(e, x) /\ Sound(x) /\ x \in Exts(q) /\ At(q, at) = x
    BY <2>1, <2>4, <1>1, PlaceOf DEF Listed, Exts
  <2>6. Sound(y) /\ PagesOf(y) = PagesOf(x) \cup PagesOf(e) /\ Alike(e, y) /\ Alike(x, y)
    BY <2>5, JoinSound DEF Alike
  <2>7. \A z \in Exts(q) : z # x => Apart(y, z)
    <3>1. \A z \in Exts(q) : z = x \/ Apart(x, z) BY <2>1, <2>5 DEF Listed, Exts
    <3> QED BY <3>1, <2>6 DEF Apart
  <2> HIDE DEF y
  <2>8. /\ Listed(p, size) /\ Exts(p) = (Exts(q) \ {x}) \cup {y}
        /\ DOMAIN p = DOMAIN q /\ Heads(p) = Heads(q)
        /\ \A k \in DOMAIN q : Avail(p[k]) = Avail(q[k])
        /\ p[h].busy = [q[h].busy EXCEPT ![i] = y]
    BY <2>6, <2>7, PutList
  <2>9. Cov(Exts(q) \cup {e}, Exts(p)) BY <2>5, <2>6, <2>8, CovAdd
  <2>10. i \in DOMAIN p[h].busy BY <2>8
  <2>11. JoinedAt(q, e, at) = s
    <3>1. s = [p EXCEPT ![h] = [p[h] EXCEPT !.busy = MergeAt(p[h].busy, i)]] OBVIOUS
    <3>2. p = [q EXCEPT ![h] = [q[h] EXCEPT !.busy = [q[h].busy EXCEPT ![i] = y]]]
      BY DEF Instead
    <3>3. JoinedAt(q, e, at) = [q EXCEPT ![h] = [q[h] EXCEPT !.busy = MergeAt([q[h].busy EXCEPT ![i] = y], i)]]
      <4>1. at[1] = h /\ at[2] = i BY <2>4
      <4>2. JoinedAt(q, e, at) = [q EXCEPT ![h] = [q[h] EXCEPT !.busy = JoinedIn(q[h].busy, i, e)]]
        BY <4>1 DEF JoinedAt
      <4>3. JoinedIn(q[h].busy, i, e) = MergeAt([q[h].busy EXCEPT ![i] = y], i)
        BY DEF JoinedIn, y
      <4> QED BY <4>2, <4>3
    <3>4. q[h] \in Hdr BY <1>1, HeaderIn
    <3> QED BY <3>1, <3>2, <3>3, <3>4, <2>8 DEF Hdr
  <2> HIDE DEF p
  <2>12. /\ Listed(s, size) /\ Cov(Exts(p), Exts(s))
         /\ DOMAIN s = DOMAIN p /\ Heads(s) = Heads(p)
         /\ \A k \in DOMAIN p : Avail(s[k]) >= Avail(p[k])
    BY <2>8, <2>10, MergeList
  <2> HIDE DEF s
  <2>13. Cov(Exts(q) \cup {e}, Exts(s)) BY <2>9, <2>12, CovTrans
  <2>14. \A k \in DOMAIN q : Avail(s[k]) >= Avail(q[k]) - 1
    <3> TAKE k \in DOMAIN q
    <3>1. Avail(s[k]) \in Nat BY <2>8, <2>12, AvailIn
    <3> QED BY <3>1, <2>8, <2>12, <1>3
  <2>15. HasRoom(q, e) BY <1>4 DEF HasRoom
  <2> HIDE DEF r
  <2>16. r.q = s /\ r.st = "OK" BY <2>2, <2>11
  <2>17. Listed(r.q, size) /\ DOMAIN r.q = DOMAIN q /\ Heads(r.q) = Heads(q) /\ Cov(Exts(q) \cup {e}, Exts(r.q))
    BY <2>8, <2>12, <2>13, <2>16
  <2>18. \A k \in DOMAIN q : Avail(r.q[k]) >= Avail(q[k]) - 1 BY <2>14, <2>16
  <2> QED BY <2>15, <2>16, <2>17, <2>18 DEF r
<1>5. CASE ~Joinable(q, e) /\ Roomy(q) = {}
  <2>1. r.st = "NOMEM" /\ r.q = q BY <1>2, <1>5 DEF Insert
  <2>2. ~HasRoom(q, e) BY <1>2, <1>5 DEF HasRoom
  <2>3. \A k \in DOMAIN q : Avail(q[k]) >= Avail(q[k]) - 1 BY <1>3
  <2> QED BY <2>1, <2>2, <2>3
<1>6. CASE ~Joinable(q, e) /\ Roomy(q) # {}
  <2> DEFINE h == Fullest(q, Roomy(q))
             s == With(q, h, e)
  <2>1. h \in Roomy(q) BY <1>1, <1>6, FullestIn
  <2>2. r.st = "OK" /\ r.q = s BY <1>2, <1>6 DEF Insert, With
  <2> HIDE DEF h
  <2>3. h \in DOMAIN q /\ Avail(q[h]) > 0 BY <2>1 DEF Roomy
  <2>4. /\ Listed(s, size) /\ Exts(s) = Exts(q) \cup {e}
        /\ DOMAIN s = DOMAIN q /\ Heads(s) = Heads(q)
        /\ \A k \in DOMAIN q : k # h => s[k] = q[k]
        /\ Avail(s[h]) = Avail(q[h]) - 1
    BY <2>3, AddList
  <2> HIDE DEF s
  <2>5. \A k \in DOMAIN q : Avail(s[k]) >= Avail(q[k]) - 1
    <3> TAKE k \in DOMAIN q
    <3>1. CASE k = h BY <3>1, <2>4, <1>3
    <3>2. CASE k # h
      <4>1. Avail(s[k]) = Avail(q[k]) /\ Avail(q[k]) \in Nat BY <3>2, <2>4, <1>3
      <4> QED BY <4>1
    <3> QED BY <3>1, <3>2
  <2>6. Cov(Exts(q) \cup {e}, Exts(s)) BY <2>4, CovSelf
  <2>7. HasRoom(q, e) BY <1>6 DEF HasRoom
  <2> HIDE DEF r
  <2>8. Listed(r.q, size) /\ DOMAIN r.q = DOMAIN q /\ Heads(r.q) = Heads(q) /\ Cov(Exts(q) \cup {e}, Exts(r.q))
    BY <2>2, <2>4, <2>6
  <2>9. \A k \in DOMAIN q : Avail(r.q[k]) >= Avail(q[k]) - 1 BY <2>2, <2>5
  <2> QED BY <2>2, <2>7, <2>8, <2>9 DEF r
<1> QED BY <1>4, <1>5, <1>6

LEMMA InsertNone ==
  ASSUME NEW q, NEW e, e.len = 0
  PROVE  Insert(q, e).q = q
BY DEF Insert

LEMMA SameEnd == ASSUME NEW m \in Nat, NEW n \in Nat, 1 .. m = 1 .. n PROVE m = n
<1>1. CASE m = 0 BY <1>1
<1>2. CASE n = 0 BY <1>2
<1>3. CASE m # 0 /\ n # 0
  <2>1. m \in 1 .. n /\ n \in 1 .. m BY <1>3
  <2> QED BY <2>1
<1> QED BY <1>1, <1>2, <1>3

(* The header from which an extent was taken comes first and has room.     *)
LEMMA ExtractedList ==
  ASSUME NEW size \in Nat, NEW q, Listed(q, size), NEW at \in Places(q)
  PROVE  LET r == Extracted(q, at) IN
         /\ r.st = "OK" /\ r.ext = At(q, at) /\ Listed(r.q, size)
         /\ Exts(r.q) = Exts(q) \ {At(q, at)} /\ Heads(r.q) = Heads(q) /\ Roomy(r.q) # {}
<1>1. q \in Seq(Hdr) BY DEF Listed
<1>2. PICK h \in DOMAIN q : \E i \in DOMAIN q[h].busy : at = <<h, i>> BY <1>1, PlaceOf
<1>3. PICK i \in DOMAIN q[h].busy : at = <<h, i>> BY <1>2
<1> DEFINE p == Without(q, h, i)
           s == First(p, h)
<1>4. At(q, at) = q[h].busy[i] BY <1>1, <1>3, PlaceOf
<1>5. /\ Listed(p, size) /\ Exts(p) = Exts(q) \ {q[h].busy[i]}
      /\ DOMAIN p = DOMAIN q /\ Heads(p) = Heads(q)
      /\ \A k \in DOMAIN q : k # h => p[k] = q[k]
      /\ p[h].busy = RemoveAt(q[h].busy, i) /\ Avail(p[h]) > 0
  BY DropList
<1>6. p[h] = [q[h] EXCEPT !.busy = RemoveAt(q[h].busy, i)]
  BY <1>1 DEF Without
<1> HIDE DEF p
<1>7. Listed(s, size) /\ Exts(s) = Exts(p) /\ Heads(s) = Heads(p) /\ 1 \in DOMAIN s /\ s[1] = p[h]
  BY <1>5, FirstList
<1>8. RemoveAt(p, h) = RemoveAt(q, h)
  <2>1. p \in Seq(Hdr) BY <1>5 DEF Listed
  <2>2. DOMAIN p = 1 .. Len(p) /\ DOMAIN q = 1 .. Len(q) /\ Len(p) \in Nat /\ Len(q) \in Nat
    BY <2>1, <1>1, LenProperties
  <2>3. Len(p) = Len(q)
    <3>1. 1 .. Len(p) = 1 .. Len(q) BY <2>2, <1>5
    <3> QED BY <3>1, <2>2, SameEnd
  <2> DEFINE u == RemoveAt(p, h)
             v == RemoveAt(q, h)
  <2>4. /\ u \in Seq(Hdr) /\ Len(u) = Len(p) - 1
        /\ \A k \in DOMAIN u : u[k] = IF k < h THEN p[k] ELSE p[k + 1]
    BY <2>1, <1>5, Removed
  <2>5. /\ v \in Seq(Hdr) /\ Len(v) = Len(q) - 1
        /\ \A k \in DOMAIN v : v[k] = IF k < h THEN q[k] ELSE q[k + 1]
    BY <1>1, Removed
  <2> HIDE DEF u, v
  <2>6. DOMAIN u = 1 .. Len(u) /\ DOMAIN v = 1 .. Len(v) BY <2>4, <2>5, LenProperties
  <2>7. ASSUME NEW k \in 1 .. Len(u) PROVE u[k] = v[k]
    <3>1. k \in DOMAIN u /\ k \in DOMAIN v /\ k \in DOMAIN q /\ k + 1 \in DOMAIN q /\ k \in Nat /\ h \in Nat
      BY <2>2, <2>3, <2>4, <2>5, <2>6
    <3>2. CASE k < h
      <4>1. k # h BY <3>1, <3>2
      <4> QED BY <4>1, <3>1, <3>2, <2>4, <2>5, <1>5
    <3>3. CASE ~(k < h)
      <4>1. k + 1 # h BY <3>1, <3>3
      <4> QED BY <4>1, <3>1, <3>3, <2>4, <2>5, <1>5
    <3> QED BY <3>2, <3>3
  <2> QED BY <2>3, <2>4, <2>5, <2>7, SeqEqual DEF u, v
<1>9. Extracted(q, at).q = s
  BY <1>3, <1>6, <1>8 DEF Extracted, First
<1> HIDE DEF s
<1>10. Roomy(s) # {} BY <1>5, <1>7 DEF Roomy
<1>11. Extracted(q, at).st = "OK" /\ Extracted(q, at).ext = At(q, at) BY DEF Extracted
<1> QED BY <1>4, <1>5, <1>7, <1>9, <1>10, <1>11

LEMMA BestIn ==
  ASSUME NEW size, NEW q, Listed(q, size), NEW req, NEW S \in SUBSET Places(q), S # {}
  PROVE  Best(q, req, S) \in SUBSET S /\ Best(q, req, S) # {}
<1> DEFINE L == {At(q, a).len : a \in S}
<1>1. L \in SUBSET Nat /\ L # {} BY DEF Listed, Sound, Ext
<1>2. PICK l \in L : \A k \in L : l <= k BY <1>1, LeastNat
<1>3. PICK a \in S : At(q, a).len = l OBVIOUS
<1>4. \A b \in S : At(q, a).len <= At(q, b).len BY <1>2, <1>3
<1>5. a \in Best(q, req, S) BY <1>4 DEF Best
<1> QED BY <1>5 DEF Best

(* vm_extent_extract: one extent less, or nothing changes.                 *)
LEMMA ExtractList ==
  ASSUME NEW size \in Nat, NEW q, Listed(q, size), NEW req
  PROVE  LET r == Extract(q, req) IN
         \/ /\ r.st = "OK" /\ req.len # 0 /\ r.ext \in Exts(q) /\ Fits(r.ext, req) /\ Sound(r.ext)
            /\ Listed(r.q, size) /\ Exts(r.q) = Exts(q) \ {r.ext} /\ Heads(r.q) = Heads(q) /\ Roomy(r.q) # {}
         \/ /\ r.st = "FAIL" /\ r.q = q /\ r.ext = req
            /\ req.len = 0 \/ \A x \in Exts(q) : ~Fits(x, req)
<1> DEFINE r == Extract(q, req)
           S == {a \in Places(q) : Fits(At(q, a), req)}
<1>1. q \in Seq(Hdr) BY DEF Listed
<1>2. r = ExtractFrom(q, req, S) BY DEF Extract
<1>3. CASE req.len = 0 \/ S = {}
  <2>1. r.st = "FAIL" /\ r.q = q /\ r.ext = req BY <1>2, <1>3 DEF ExtractFrom
  <2>2. req.len = 0 \/ \A x \in Exts(q) : ~Fits(x, req) BY <1>3 DEF Exts
  <2> QED BY <2>1, <2>2
<1>4. CASE ~(req.len = 0 \/ S = {})
  <2> DEFINE B == Best(q, req, S)
             at == FirstOf(B)
  <2>1. S \in SUBSET Places(q) /\ S # {} BY <1>4
  <2>2. r = Extracted(q, at) BY <1>2, <1>4 DEF ExtractFrom
  <2>3. at \in S
    <3> HIDE DEF S
    <3>1. B \in SUBSET S /\ B # {} BY <2>1, BestIn
    <3>2. B \in SUBSET (Nat \X Nat) BY <3>1, <2>1, <1>1, PlacesIn
    <3> QED BY <3>1, <3>2, FirstOfIn
  <2> HIDE DEF at
  <2>4. at \in Places(q) /\ Fits(At(q, at), req) BY <2>3
  <2>5. At(q, at) \in Exts(q) /\ Sound(At(q, at)) BY <2>4 DEF Exts, Listed
  <2>6. /\ Extracted(q, at).st = "OK" /\ Extracted(q, at).ext = At(q, at) /\ Listed(Extracted(q, at).q, size)
        /\ Exts(Extracted(q, at).q) = Exts(q) \ {At(q, at)} /\ Heads(Extracted(q, at).q) = Heads(q)
        /\ Roomy(Extracted(q, at).q) # {}
    BY <2>4, ExtractedList
  <2> HIDE DEF r
  <2>7. /\ r.st = "OK" /\ req.len # 0 /\ r.ext \in Exts(q) /\ Fits(r.ext, req) /\ Sound(r.ext)
        /\ Listed(r.q, size) /\ Exts(r.q) = Exts(q) \ {r.ext} /\ Heads(r.q) = Heads(q) /\ Roomy(r.q) # {}
    BY <1>4, <2>2, <2>4, <2>5, <2>6
  <2> QED BY <2>7 DEF r
<1> QED BY <1>3, <1>4

-------------------------------------------------------------------------------
(* The two lists together, while the pages of M are in neither.            *)

(* The two lists, while the pages of M are in neither.                     *)
Plain(e) == e.prot = {} /\ e.flags = Region(e)
Tiled(f, a, M) ==
  /\ Listed(f, FreePerSlot) /\ Listed(a, AllocPerSlot)
  /\ Pgs(f) \cap Pgs(a) = {} /\ Pgs(f) \cup Pgs(a) = Pages \ M
  /\ \A x \in Exts(f) : Plain(x)

LEMMA Sizes == FreePerSlot \in Nat /\ FreePerSlot >= 2 /\ AllocPerSlot \in Nat /\ AllocPerSlot >= 2
BY SlotAssumption

LEMMA InPages == ASSUME NEW e, Sound(e) PROVE PagesOf(e) \subseteq Pages
BY DEF Sound, Zone, Pages

LEMMA ApartExts ==
  ASSUME NEW size, NEW q, Listed(q, size), NEW x \in Exts(q), NEW y \in Exts(q), x # y
  PROVE  Apart(x, y) /\ Sound(x)
BY DEF Listed, Exts

LEMMA PgsWithout ==
  ASSUME NEW size, NEW q, Listed(q, size), NEW x \in Exts(q), NEW p, Exts(p) = Exts(q) \ {x}
  PROVE  Pgs(p) = Pgs(q) \ PagesOf(x) /\ PagesOf(x) \subseteq Pgs(q)
<1>1. \A y \in Exts(q) : y # x => PagesOf(y) \cap PagesOf(x) = {} BY ApartExts DEF Apart
<1> QED BY <1>1 DEF Pgs

LEMMA FreeOut ==
  ASSUME NEW f, NEW a, NEW M, Tiled(f, a, M), NEW req, Extract(f, req).st = "OK"
  PROVE  LET r == Extract(f, req) IN
         /\ Tiled(r.q, a, M \cup PagesOf(r.ext)) /\ Sound(r.ext) /\ Plain(r.ext) /\ Roomy(r.q) # {}
         /\ r.ext \in Exts(f) /\ Exts(r.q) = Exts(f) \ {r.ext} /\ Fits(r.ext, req)
         /\ PagesOf(r.ext) \subseteq Pages \ M /\ Pgs(r.q) \subseteq Pgs(f) /\ Heads(r.q) = Heads(f)
<1> DEFINE r == Extract(f, req)
<1>1. Listed(f, FreePerSlot) /\ FreePerSlot \in Nat BY Sizes DEF Tiled
<1>2. /\ r.ext \in Exts(f) /\ Fits(r.ext, req) /\ Sound(r.ext)
      /\ Listed(r.q, FreePerSlot) /\ Exts(r.q) = Exts(f) \ {r.ext} /\ Roomy(r.q) # {} /\ Heads(r.q) = Heads(f)
  BY <1>1, ExtractList
<1> HIDE DEF r
<1>3. Pgs(r.q) = Pgs(f) \ PagesOf(r.ext) /\ PagesOf(r.ext) \subseteq Pgs(f)
  BY <1>1, <1>2, PgsWithout
<1>4. /\ Listed(a, AllocPerSlot) /\ Pgs(f) \cap Pgs(a) = {} /\ Pgs(f) \cup Pgs(a) = Pages \ M
      /\ \A x \in Exts(f) : Plain(x)
  BY DEF Tiled
<1>5. Tiled(r.q, a, M \cup PagesOf(r.ext)) BY <1>2, <1>3, <1>4 DEF Tiled
<1> QED BY <1>2, <1>3, <1>4, <1>5 DEF r

LEMMA AllocOut ==
  ASSUME NEW f, NEW a, NEW M, Tiled(f, a, M), NEW req, Extract(a, req).st = "OK"
  PROVE  LET r == Extract(a, req) IN
         /\ Tiled(f, r.q, M \cup PagesOf(r.ext)) /\ Sound(r.ext) /\ Roomy(r.q) # {}
         /\ r.ext \in Exts(a) /\ Exts(r.q) = Exts(a) \ {r.ext} /\ Fits(r.ext, req)
         /\ PagesOf(r.ext) \subseteq Pages \ M /\ Heads(r.q) = Heads(a)
<1> DEFINE r == Extract(a, req)
<1>1. Listed(a, AllocPerSlot) /\ AllocPerSlot \in Nat BY Sizes DEF Tiled
<1>2. /\ r.ext \in Exts(a) /\ Fits(r.ext, req) /\ Sound(r.ext)
      /\ Listed(r.q, AllocPerSlot) /\ Exts(r.q) = Exts(a) \ {r.ext} /\ Roomy(r.q) # {} /\ Heads(r.q) = Heads(a)
  BY <1>1, ExtractList
<1> HIDE DEF r
<1>3. Pgs(r.q) = Pgs(a) \ PagesOf(r.ext) /\ PagesOf(r.ext) \subseteq Pgs(a)
  BY <1>1, <1>2, PgsWithout
<1>4. /\ Listed(f, FreePerSlot) /\ Pgs(f) \cap Pgs(a) = {} /\ Pgs(f) \cup Pgs(a) = Pages \ M
      /\ \A x \in Exts(f) : Plain(x)
  BY DEF Tiled
<1>5. Tiled(f, r.q, M \cup PagesOf(r.ext)) BY <1>2, <1>3, <1>4 DEF Tiled
<1> QED BY <1>2, <1>3, <1>4, <1>5 DEF r

LEMMA PgsCov ==
  ASSUME NEW q, NEW e, NEW p, Cov(Exts(q) \cup {e}, Exts(p))
  PROVE  Pgs(p) = Pgs(q) \cup PagesOf(e)
BY DEF Cov, Pgs

(* Pages that were missing become free, or allocated.                      *)
LEMMA FreeIn ==
  ASSUME NEW f, NEW a, NEW M \in SUBSET Pages, Tiled(f, a, M), NEW e, Sound(e), Plain(e), PagesOf(e) \subseteq M
  PROVE  LET r == Insert(f, e) IN
         /\ Heads(r.q) = Heads(f)
         /\ \A k \in DOMAIN f : k \in DOMAIN r.q /\ Avail(r.q[k]) >= Avail(f[k]) - 1
         /\ \/ /\ r.st = "OK" /\ HasRoom(f, e) /\ Tiled(r.q, a, M \ PagesOf(e))
               /\ Cov(Exts(f) \cup {e}, Exts(r.q)) /\ Pgs(r.q) = Pgs(f) \cup PagesOf(e)
            \/ r.st = "NOMEM" /\ ~HasRoom(f, e) /\ r.q = f
<1> DEFINE r == Insert(f, e)
<1>1. /\ Listed(f, FreePerSlot) /\ Listed(a, AllocPerSlot)
      /\ Pgs(f) \cap Pgs(a) = {} /\ Pgs(f) \cup Pgs(a) = Pages \ M
      /\ \A x \in Exts(f) : Plain(x)
  BY DEF Tiled
<1>2. \A x \in Exts(f) : Apart(e, x) BY <1>1 DEF Pgs, Apart
<1>3. /\ Listed(r.q, FreePerSlot) /\ DOMAIN r.q = DOMAIN f /\ Heads(r.q) = Heads(f)
      /\ \A k \in DOMAIN f : Avail(r.q[k]) >= Avail(f[k]) - 1
      /\ \/ r.st = "OK" /\ HasRoom(f, e) /\ Cov(Exts(f) \cup {e}, Exts(r.q))
         \/ r.st = "NOMEM" /\ ~HasRoom(f, e) /\ r.q = f
  BY <1>1, <1>2, Sizes, InsertList
<1> HIDE DEF r
<1>4. CASE r.st = "OK" /\ HasRoom(f, e) /\ Cov(Exts(f) \cup {e}, Exts(r.q))
  <2>1. Pgs(r.q) = Pgs(f) \cup PagesOf(e) BY <1>4, PgsCov
  <2>2. \A x \in Exts(r.q) : Plain(x)
    <3>1. ASSUME NEW x \in Exts(r.q) PROVE Plain(x)
      <4>1. PICK y \in Exts(f) \cup {e} : Alike(y, x) BY <1>4 DEF Cov
      <4>2. Plain(y) BY <1>1
      <4> QED BY <4>1, <4>2 DEF Alike, Plain, Region
    <3> QED BY <3>1
  <2>3. Tiled(r.q, a, M \ PagesOf(e)) BY <2>1, <2>2, <1>1, <1>3 DEF Tiled
  <2> QED BY <2>1, <2>3, <1>3, <1>4 DEF r
<1> QED BY <1>3, <1>4 DEF r

LEMMA FreeInHeads ==
  ASSUME NEW f, NEW a, NEW M \in SUBSET Pages, Tiled(f, a, M), NEW e, Sound(e), Plain(e), PagesOf(e) \subseteq M
  PROVE  Heads(Insert(f, e).q) = Heads(f)
BY FreeIn

LEMMA AllocIn ==
  ASSUME NEW f, NEW a, NEW M \in SUBSET Pages, Tiled(f, a, M), NEW e, Sound(e), PagesOf(e) \subseteq M
  PROVE  LET r == Insert(a, e) IN
         /\ Heads(r.q) = Heads(a)
         /\ \A k \in DOMAIN a : k \in DOMAIN r.q /\ Avail(r.q[k]) >= Avail(a[k]) - 1
         /\ \/ /\ r.st = "OK" /\ HasRoom(a, e) /\ Tiled(f, r.q, M \ PagesOf(e))
               /\ Cov(Exts(a) \cup {e}, Exts(r.q)) /\ Pgs(r.q) = Pgs(a) \cup PagesOf(e)
            \/ r.st = "NOMEM" /\ ~HasRoom(a, e) /\ r.q = a
<1> DEFINE r == Insert(a, e)
<1>1. /\ Listed(f, FreePerSlot) /\ Listed(a, AllocPerSlot)
      /\ Pgs(f) \cap Pgs(a) = {} /\ Pgs(f) \cup Pgs(a) = Pages \ M
      /\ \A x \in Exts(f) : Plain(x)
  BY DEF Tiled
<1>2. \A x \in Exts(a) : Apart(e, x) BY <1>1 DEF Pgs, Apart
<1>3. /\ Listed(r.q, AllocPerSlot) /\ DOMAIN r.q = DOMAIN a /\ Heads(r.q) = Heads(a)
      /\ \A k \in DOMAIN a : Avail(r.q[k]) >= Avail(a[k]) - 1
      /\ \/ r.st = "OK" /\ HasRoom(a, e) /\ Cov(Exts(a) \cup {e}, Exts(r.q))
         \/ r.st = "NOMEM" /\ ~HasRoom(a, e) /\ r.q = a
  BY <1>1, <1>2, Sizes, InsertList
<1> HIDE DEF r
<1>4. CASE r.st = "OK" /\ HasRoom(a, e) /\ Cov(Exts(a) \cup {e}, Exts(r.q))
  <2>1. Pgs(r.q) = Pgs(a) \cup PagesOf(e) BY <1>4, PgsCov
  <2>2. Tiled(f, r.q, M \ PagesOf(e)) BY <2>1, <1>1, <1>3 DEF Tiled
  <2> QED BY <2>1, <2>2, <1>3, <1>4 DEF r
<1> QED BY <1>3, <1>4 DEF r

(* A list that grows has two places more, and one is left when one is used. *)
Wide(q) == \E k \in DOMAIN q : Avail(q[k]) >= 2

(* Room for two extents is left with room for one.                         *)
LEMMA WideInsert ==
  ASSUME NEW size \in Nat, NEW q, NEW p, Listed(q, size), Listed(p, size), Wide(q),
         \A k \in DOMAIN q : k \in DOMAIN p /\ Avail(p[k]) >= Avail(q[k]) - 1
  PROVE  Roomy(p) # {}
<1>1. PICK k \in DOMAIN q : Avail(q[k]) >= 2 BY DEF Wide
<1>2. k \in DOMAIN p /\ Avail(p[k]) >= Avail(q[k]) - 1 OBVIOUS
<1>3. Avail(q[k]) \in Nat /\ Avail(p[k]) \in Nat BY <1>2, AvailIn
<1>4. Avail(p[k]) > 0 BY ONLY <1>1, <1>2, <1>3
<1> QED BY <1>2, <1>4 DEF Roomy

LEMMA GrownFree ==
  ASSUME NEW f, NEW a, NEW M, Tiled(f, a, M), NEW page \in Nat
  PROVE  /\ Tiled(Append(f, Header(page, FreePerSlot)), a, M)
         /\ Exts(Append(f, Header(page, FreePerSlot))) = Exts(f)
         /\ Heads(Append(f, Header(page, FreePerSlot))) = Heads(f) \cup {page}
         /\ Wide(Append(f, Header(page, FreePerSlot)))
<1> DEFINE r == Append(f, Header(page, FreePerSlot))
<1>1. Listed(f, FreePerSlot) /\ FreePerSlot \in Nat /\ FreePerSlot >= 2 BY Sizes DEF Tiled
<1>2. Listed(r, FreePerSlot) /\ Exts(r) = Exts(f) /\ Len(f) + 1 \in DOMAIN r /\ Avail(r[Len(f) + 1]) = FreePerSlot
  BY <1>1, NewList
<1>h. Heads(r) = Heads(f) \cup {page} BY <1>1, NewList
<1> HIDE DEF r
<1>3. Pgs(r) = Pgs(f) BY <1>2 DEF Pgs
<1>4. Wide(r) BY <1>1, <1>2 DEF Wide
<1>5. Tiled(r, a, M) BY <1>2, <1>3 DEF Tiled
<1> QED BY <1>2, <1>h, <1>4, <1>5 DEF r

LEMMA GrownAlloc ==
  ASSUME NEW f, NEW a, NEW M, Tiled(f, a, M), NEW page \in Nat
  PROVE  /\ Tiled(f, Append(a, Header(page, AllocPerSlot)), M)
         /\ Exts(Append(a, Header(page, AllocPerSlot))) = Exts(a)
         /\ Heads(Append(a, Header(page, AllocPerSlot))) = Heads(a) \cup {page}
         /\ Wide(Append(a, Header(page, AllocPerSlot)))
<1> DEFINE r == Append(a, Header(page, AllocPerSlot))
<1>1. Listed(a, AllocPerSlot) /\ AllocPerSlot \in Nat /\ AllocPerSlot >= 2
  BY Sizes DEF Tiled
<1>2. Listed(r, AllocPerSlot) /\ Exts(r) = Exts(a) /\ Len(a) + 1 \in DOMAIN r /\ Avail(r[Len(a) + 1]) = AllocPerSlot
  BY <1>1, NewList
<1>h. Heads(r) = Heads(a) \cup {page} BY <1>1, NewList
<1> HIDE DEF r
<1>3. Pgs(r) = Pgs(a) BY <1>2 DEF Pgs
<1>4. Wide(r) BY <1>1, <1>2 DEF Wide
<1>5. Tiled(f, r, M) BY <1>2, <1>3 DEF Tiled
<1> QED BY <1>2, <1>h, <1>4, <1>5 DEF r

-------------------------------------------------------------------------------
(* vm_extent_alloc_slot: a header page goes from free to allocated.        *)

Space == [free : Seq(Hdr), alloc : Seq(Hdr), tab : [Pages -> {NoPage} \cup SUBSET {"W"}]]
State(s, M) == s \in Space /\ Tiled(s.free, s.alloc, M)

KeepsLow(f, g) == \A x \in Exts(f) : "HIGH" \notin x.flags => Within(x, Exts(g))
Keeps(f, g) == \A x \in Exts(f) : Within(x, Exts(g))

(* The pages that are noted as locked and are present; those of headers.   *)
Pinned(s) == {p \in Pages : s.tab[p] = {"W"}
  /\ \E y \in Exts(s.alloc) : p \in PagesOf(y) /\ "LOCKED" \in y.flags /\ y.prot = {"W"}}
AllHeads(s) == Heads(s.free) \cup Heads(s.alloc)

(* What t has that s had not: the pages of M, and slots.                   *)
Grown(s, t, M) ==
  /\ Pgs(t.alloc) \subseteq Pgs(s.alloc) \cup M \cup Pinned(t)
  /\ AllHeads(t) \subseteq AllHeads(s) \cup Pinned(t)
  /\ \A p \in Pages : t.tab[p] = s.tab[p] \/ p \in Pinned(t)

LEMMA GrownTrans ==
  ASSUME NEW s, NEW t, NEW u, NEW M, NEW N, Grown(s, t, M), Grown(t, u, N), Keeps(t.alloc, u.alloc)
  PROVE  Grown(s, u, M \cup N)
<1>1. Pinned(t) \subseteq Pinned(u)
  <2>1. ASSUME NEW p \in Pinned(t) PROVE p \in Pinned(u)
    <3>1. PICK y \in Exts(t.alloc) : p \in PagesOf(y) /\ "LOCKED" \in y.flags /\ y.prot = {"W"}
      BY DEF Pinned
    <3>2. PICK z \in Exts(u.alloc) : PagesOf(y) \subseteq PagesOf(z) /\ Alike(y, z)
      BY DEF Keeps, Within
    <3>3. p \in PagesOf(z) /\ "LOCKED" \in z.flags /\ z.prot = {"W"}
      BY <3>1, <3>2 DEF Alike
    <3>4. p \in Pages /\ t.tab[p] = {"W"} BY DEF Pinned
    <3>5. u.tab[p] = {"W"} \/ p \in Pinned(u) BY <3>4 DEF Grown
    <3> QED BY <3>3, <3>4, <3>5 DEF Pinned
  <2> QED BY <2>1
<1>2. Pgs(u.alloc) \subseteq Pgs(s.alloc) \cup (M \cup N) \cup Pinned(u) BY <1>1 DEF Grown
<1>3. AllHeads(u) \subseteq AllHeads(s) \cup Pinned(u) BY <1>1 DEF Grown
<1>4. \A p \in Pages : u.tab[p] = s.tab[p] \/ p \in Pinned(u) BY <1>1 DEF Grown
<1> QED BY <1>2, <1>3, <1>4 DEF Grown

LEMMA GrownSame ==
  ASSUME NEW s, NEW t, NEW M, Pgs(t.alloc) \subseteq Pgs(s.alloc) \cup M, AllHeads(t) \subseteq AllHeads(s), t.tab = s.tab
  PROVE  Grown(s, t, M)
BY DEF Grown

LEMMA GrownMore ==
  ASSUME NEW s, NEW t, NEW M, NEW N, Grown(s, t, M), M \subseteq N \cup Pgs(s.alloc)
  PROVE  Grown(s, t, N)
BY DEF Grown

LEMMA WithinCov ==
  ASSUME NEW x, NEW A, NEW B, Within(x, A), \A y \in A : Within(y, B)
  PROVE  Within(x, B)
BY DEF Within, Alike

LEMMA UntouchedFree ==
  ASSUME NEW f, NEW a, NEW M \in SUBSET Pages, Tiled(f, a, M), NEW req, Extract(f, req).st = "OK"
  PROVE  LET r == Extract(f, req)
             u == Insert(r.q, r.ext).q
         IN  Tiled(u, a, M) /\ Cov(Exts(f), Exts(u)) /\ Heads(u) = Heads(f)
<1> DEFINE r == Extract(f, req)
           u == Insert(r.q, r.ext)
           P == PagesOf(r.ext)
<1>1. /\ Tiled(r.q, a, M \cup P) /\ Sound(r.ext) /\ Plain(r.ext) /\ Roomy(r.q) # {}
      /\ r.ext \in Exts(f) /\ Exts(r.q) = Exts(f) \ {r.ext} /\ P \subseteq Pages \ M /\ Heads(r.q) = Heads(f)
  BY FreeOut
<1> HIDE DEF r
<1>2. HasRoom(r.q, r.ext) BY <1>1 DEF HasRoom
<1>3. M \cup P \in SUBSET Pages /\ P \subseteq M \cup P BY <1>1
<1>4. Tiled(u.q, a, (M \cup P) \ P) /\ Cov(Exts(r.q) \cup {r.ext}, Exts(u.q)) /\ Heads(u.q) = Heads(r.q)
  BY <1>1, <1>2, <1>3, FreeIn
<1>5. (M \cup P) \ P = M /\ Exts(r.q) \cup {r.ext} = Exts(f) BY <1>1
<1> QED BY <1>1, <1>4, <1>5 DEF r

LEMMA UntouchedAlloc ==
  ASSUME NEW f, NEW a, NEW M \in SUBSET Pages, Tiled(f, a, M), NEW req, Extract(a, req).st = "OK"
  PROVE  LET r == Extract(a, req)
             u == Insert(r.q, r.ext).q
         IN  Tiled(f, u, M) /\ Cov(Exts(a), Exts(u)) /\ Heads(u) = Heads(a)
<1> DEFINE r == Extract(a, req)
           u == Insert(r.q, r.ext)
           P == PagesOf(r.ext)
<1>1. /\ Tiled(f, r.q, M \cup P) /\ Sound(r.ext) /\ Roomy(r.q) # {}
      /\ r.ext \in Exts(a) /\ Exts(r.q) = Exts(a) \ {r.ext} /\ P \subseteq Pages \ M /\ Heads(r.q) = Heads(a)
  BY AllocOut
<1> HIDE DEF r
<1>2. HasRoom(r.q, r.ext) BY <1>1 DEF HasRoom
<1>3. M \cup P \in SUBSET Pages /\ P \subseteq M \cup P BY <1>1
<1>4. Tiled(f, u.q, (M \cup P) \ P) /\ Cov(Exts(r.q) \cup {r.ext}, Exts(u.q)) /\ Heads(u.q) = Heads(r.q)
  BY <1>1, <1>2, <1>3, AllocIn
<1>5. (M \cup P) \ P = M /\ Exts(r.q) \cup {r.ext} = Exts(a) BY <1>1
<1> QED BY <1>1, <1>4, <1>5 DEF r

(* The last page of a high extent, and the rest.                           *)
LEMMA SlotParts ==
  ASSUME NEW e, Sound(e), "HIGH" \in e.flags
  PROVE  LET rest == [e EXCEPT !.len = @ - 1] IN
         /\ Sound(Slot(e)) /\ PagesOf(Slot(e)) = {SlotPage(e)} /\ SlotPage(e) \in Nat
         /\ SlotPage(e) \in PagesOf(e) /\ SlotPage(e) \in High
         /\ PagesOf(rest) = PagesOf(e) \ {SlotPage(e)}
         /\ rest.flags = e.flags /\ rest.prot = e.prot
         /\ rest.len = 0 \/ Sound(rest)
<1> DEFINE rest == [e EXCEPT !.len = @ - 1]
<1>1. e \in Ext /\ e.base \in Nat /\ e.len \in Nat /\ e.len > 0 /\ PagesOf(e) \subseteq High
  BY DEF Sound, Ext, Zone
<1>2. /\ SlotPage(e) \in Nat /\ SlotPage(e) \in PagesOf(e) BY <1>1 DEF SlotPage, PagesOf
<1>3. SlotPage(e) \in High BY <1>1, <1>2
<1>4. Slot(e) \in Ext BY <1>2 DEF Slot, Ext, Flags
<1>5. PagesOf(Slot(e)) = {SlotPage(e)} BY <1>2 DEF Slot, PagesOf
<1>6. Region(Slot(e)) = {"HIGH"} /\ Zone(Slot(e)) = High BY DEF Region, Zone, Slot
<1>7. Slot(e).len > 0 BY DEF Slot
<1>8. Sound(Slot(e)) BY <1>3, <1>4, <1>5, <1>6, <1>7 DEF Sound
<1>9. /\ rest \in Ext /\ rest.base = e.base /\ rest.len = e.len - 1 /\ rest.flags = e.flags /\ rest.prot = e.prot
  BY <1>1 DEF Ext
<1> HIDE DEF rest
<1>10. PagesOf(rest) = PagesOf(e) \ {SlotPage(e)} BY <1>1, <1>9 DEF PagesOf, SlotPage
<1>11. rest.len = 0 \/ Sound(rest)
  <2>1. Region(rest) = Region(e) /\ Zone(rest) = Zone(e) BY <1>9 DEF Region, Zone
  <2>2. rest.len = 0 \/ rest.len > 0 BY <1>1, <1>9
  <2> QED BY <2>1, <2>2, <1>9, <1>10 DEF Sound
<1> QED BY <1>2, <1>3, <1>5, <1>8, <1>9, <1>10, <1>11 DEF rest

LEMMA WideRoomy == ASSUME NEW size \in Nat, NEW q, Listed(q, size), Wide(q) PROVE Roomy(q) # {}
<1>1. PICK k \in DOMAIN q : Avail(q[k]) >= 2 BY DEF Wide
<1>2. Avail(q[k]) \in Nat BY AvailIn
<1>3. Avail(q[k]) > 0 BY ONLY <1>1, <1>2
<1> QED BY <1>3 DEF Roomy

SlotReq == [base |-> BaseAuto, len |-> 1, flags |-> {"HIGH"}, prot |-> {}]

LEMMA FitsAuto ==
  ASSUME NEW e, NEW req, req.base = BaseAuto, Fits(e, req)
  PROVE  Region(e) = Region(req) /\ e.len >= req.len
BY DEF Fits

(* The free list gives the page of a slot, and grows if the slot is for it. *)
LEMMA SlotFromFree ==
  ASSUME NEW f, NEW a, NEW M \in SUBSET Pages, Tiled(f, a, M), NEW list \in {"free", "alloc"},
         Extract(f, SlotReq).st = "OK"
  PROVE  LET r == Extract(f, SlotReq)
             p == SlotPage(r.ext)
             g == Insert(WithHeader(r.q, "free", list, p), [r.ext EXCEPT !.len = @ - 1]).q
         IN  /\ Tiled(g, a, M \cup {p}) /\ p \in Pages \ M /\ p \in High /\ p \in Nat
             /\ Sound(Slot(r.ext)) /\ PagesOf(Slot(r.ext)) = {p}
             /\ list = "free" => Roomy(g) # {}
             /\ KeepsLow(f, g) /\ Pgs(g) \subseteq Pgs(f) /\ Heads(g) \subseteq Heads(f) \cup {p}
<1> DEFINE r == Extract(f, SlotReq)
           e == r.ext
           P == PagesOf(e)
           p == SlotPage(e)
           h == WithHeader(r.q, "free", list, p)
           rest == [e EXCEPT !.len = @ - 1]
           g == Insert(h, rest)
<1>1. /\ Tiled(r.q, a, M \cup P) /\ Sound(e) /\ Plain(e) /\ Roomy(r.q) # {}
      /\ e \in Exts(f) /\ Exts(r.q) = Exts(f) \ {e} /\ Fits(e, SlotReq) /\ P \subseteq Pages \ M
      /\ Pgs(r.q) \subseteq Pgs(f) /\ Heads(r.q) = Heads(f)
  BY FreeOut
<1> HIDE DEF r
<1>2. "HIGH" \in e.flags
  <2>1. SlotReq.base = BaseAuto /\ SlotReq.flags = {"HIGH"} BY DEF SlotReq
  <2>2. Region(e) = Region(SlotReq) BY <2>1, <1>1, FitsAuto
  <2> QED BY <2>1, <2>2 DEF Region
<1>3. /\ Sound(Slot(e)) /\ PagesOf(Slot(e)) = {p} /\ p \in Nat
      /\ p \in P /\ p \in High /\ PagesOf(rest) = P \ {p}
      /\ rest.flags = e.flags /\ rest.prot = e.prot
      /\ rest.len = 0 \/ Sound(rest)
  BY <1>1, <1>2, SlotParts
<1>4. Plain(rest) BY <1>1, <1>3 DEF Plain, Region
<1>r. rest.len = e.len - 1 BY <1>1 DEF Sound, Ext
<1> HIDE DEF rest, p
<1>5. /\ Tiled(h, a, M \cup P) /\ Exts(h) = Exts(r.q) /\ Roomy(h) # {}
      /\ list = "free" => Wide(h)
      /\ Heads(h) \subseteq Heads(f) \cup {p}
  <2>1. CASE list = "free"
    <3>1. h = Append(r.q, Header(p, FreePerSlot)) BY <2>1 DEF WithHeader
    <3> DEFINE w == Append(r.q, Header(p, FreePerSlot))
    <3>a. Tiled(w, a, M \cup P) /\ Exts(w) = Exts(r.q) /\ Wide(w) /\ Heads(w) = Heads(r.q) \cup {p}
      <4> HIDE DEF P
      <4> QED BY <1>1, <1>3, GrownFree
    <3>2. Tiled(h, a, M \cup P) /\ Exts(h) = Exts(r.q) /\ Wide(h) /\ Heads(h) = Heads(r.q) \cup {p}
      <4> HIDE DEF h, P
      <4> QED BY <3>1, <3>a
    <3>3. Roomy(h) # {} BY <3>2, Sizes, WideRoomy DEF Tiled
    <3> QED BY <3>2, <3>3, <1>1
  <2>2. CASE list # "free"
    <3>1. h = r.q BY <2>2 DEF WithHeader
    <3> QED BY <3>1, <2>2, <1>1
  <2> QED BY <2>1, <2>2
<1> HIDE DEF h
<1>6. Pgs(h) \subseteq Pgs(f) BY <1>1, <1>5 DEF Pgs
<1>7. \A x \in Exts(f) : "HIGH" \notin x.flags => x \in Exts(h) BY <1>1, <1>2, <1>5
<1>8. CASE rest.len = 0
  <2>1. g.q = h BY <1>8, InsertNone
  <2>2. e.len = 1 /\ e.base \in Nat BY <1>1, <1>r, <1>8 DEF Sound, Ext
  <2>3. M \cup P = M \cup {p} BY <2>2, <1>3 DEF PagesOf
  <2>4. \A x \in Exts(h) : Within(x, Exts(h)) BY DEF Within, Alike
  <2>5. KeepsLow(f, h) BY <2>4, <1>7 DEF KeepsLow
  <2> QED BY <2>1, <2>3, <2>5, <1>1, <1>3, <1>5, <1>6 DEF r, h, p, rest
<1>9. CASE Sound(rest)
  <2>1. HasRoom(h, rest) BY <1>5 DEF HasRoom
  <2>2. M \cup P \in SUBSET Pages /\ PagesOf(rest) \subseteq M \cup P BY <1>1, <1>3
  <2>3. /\ \A k \in DOMAIN h : k \in DOMAIN g.q /\ Avail(g.q[k]) >= Avail(h[k]) - 1
        /\ Tiled(g.q, a, (M \cup P) \ PagesOf(rest)) /\ Cov(Exts(h) \cup {rest}, Exts(g.q))
        /\ Pgs(g.q) = Pgs(h) \cup PagesOf(rest) /\ Heads(g.q) = Heads(h)
    BY <2>1, <2>2, <1>4, <1>5, <1>9, FreeIn
  <2> HIDE DEF g
  <2>4. (M \cup P) \ PagesOf(rest) = M \cup {p} BY <1>1, <1>3
  <2>5. list = "free" => Roomy(g.q) # {}
    <3>1. Listed(h, FreePerSlot) /\ Listed(g.q, FreePerSlot) BY <2>3, <1>5 DEF Tiled
    <3> QED BY <3>1, <2>3, <1>5, Sizes, WideInsert
  <2>6. KeepsLow(f, g.q) BY <2>3, <1>7 DEF KeepsLow, Cov
  <2>7. Pgs(g.q) \subseteq Pgs(f) BY <2>3, <1>1, <1>3, <1>6 DEF Pgs
  <2> QED BY <2>3, <2>4, <2>5, <2>6, <2>7, <1>1, <1>3, <1>5 DEF r, h, p, rest, g
<1> QED BY <1>3, <1>8, <1>9

(* The allocated list notes it, and grows if the slot is for that.         *)
SlotNoted(f, a, M, e, list, b) ==
  /\ Tiled(f, b, M) /\ Keeps(a, b) /\ Pgs(b) = Pgs(a) \cup {SlotPage(e)}
  /\ Within(Slot(e), Exts(b)) /\ Heads(b) \subseteq Heads(a) \cup {SlotPage(e)}
  /\ list = "alloc" => Roomy(b) # {}

LEMMA SlotToAlloc ==
  ASSUME NEW f, NEW a, NEW M \in SUBSET Pages, NEW e, NEW list \in {"free", "alloc"},
         LET p == SlotPage(e) IN
           Tiled(f, a, M \cup {p}) /\ p \in Pages \ M /\ p \in Nat /\ Sound(Slot(e)) /\ PagesOf(Slot(e)) = {p},
         list = "alloc" \/ HasRoom(a, Slot(e))
  PROVE  SlotNoted(f, a, M, e, list, Insert(WithHeader(a, "alloc", list, SlotPage(e)), Slot(e)).q)
<1> DEFINE p == SlotPage(e)
           h == WithHeader(a, "alloc", list, p)
           b == Insert(h, Slot(e))
<1>1. Tiled(f, a, M \cup {p}) /\ p \in Pages \ M /\ p \in Nat /\ Sound(Slot(e)) /\ PagesOf(Slot(e)) = {p}
  OBVIOUS
<1> HIDE DEF p
<1>2. /\ Tiled(f, h, M \cup {p}) /\ Exts(h) = Exts(a) /\ HasRoom(h, Slot(e))
      /\ Heads(h) \subseteq Heads(a) \cup {p}
      /\ list = "alloc" => Wide(h)
  <2>1. CASE list = "alloc"
    <3>1. h = Append(a, Header(p, AllocPerSlot)) BY <2>1 DEF WithHeader
    <3> DEFINE w == Append(a, Header(p, AllocPerSlot))
    <3>a. Tiled(f, w, M \cup {p}) /\ Exts(w) = Exts(a) /\ Wide(w) /\ Heads(w) = Heads(a) \cup {p}
      <4> DEFINE N == M \cup {p}
      <4>1. Tiled(f, a, N) BY <1>1
      <4> HIDE DEF N
      <4>2. Tiled(f, w, N) /\ Exts(w) = Exts(a) /\ Wide(w) /\ Heads(w) = Heads(a) \cup {p}
        BY <4>1, <1>1, GrownAlloc
      <4> QED BY <4>2 DEF N
    <3>2. Tiled(f, h, M \cup {p}) /\ Exts(h) = Exts(a) /\ Wide(h) /\ Heads(h) = Heads(a) \cup {p}
      <4> HIDE DEF h
      <4> QED BY <3>1, <3>a
    <3>3. Roomy(h) # {} BY <3>2, Sizes, WideRoomy DEF Tiled
    <3> QED BY <3>2, <3>3 DEF HasRoom
  <2>2. CASE list # "alloc"
    <3>1. h = a BY <2>2 DEF WithHeader
    <3> QED BY <3>1, <2>2, <1>1
  <2> QED BY <2>1, <2>2
<1> HIDE DEF h
<1>3. M \cup {p} \in SUBSET Pages BY <1>1
<1>4. /\ \A k \in DOMAIN h : k \in DOMAIN b.q /\ Avail(b.q[k]) >= Avail(h[k]) - 1
      /\ Tiled(f, b.q, (M \cup {p}) \ {p}) /\ Cov(Exts(h) \cup {Slot(e)}, Exts(b.q))
      /\ Pgs(b.q) = Pgs(h) \cup {p} /\ Heads(b.q) = Heads(h)
  <2> DEFINE N == M \cup {p}
             x == Slot(e)
  <2>1. N \in SUBSET Pages /\ Tiled(f, h, N) /\ Sound(x) /\ PagesOf(x) \subseteq N /\ HasRoom(h, x)
    BY <1>1, <1>2, <1>3
  <2> HIDE DEF N, x
  <2>2. LET r == Insert(h, x) IN
        /\ \A k \in DOMAIN h : k \in DOMAIN r.q /\ Avail(r.q[k]) >= Avail(h[k]) - 1
        /\ Tiled(f, r.q, N \ PagesOf(x)) /\ Cov(Exts(h) \cup {x}, Exts(r.q))
        /\ Pgs(r.q) = Pgs(h) \cup PagesOf(x) /\ Heads(r.q) = Heads(h)
    BY <2>1, AllocIn
  <2> QED BY <2>2, <1>1 DEF N, x
<1> HIDE DEF b
<1>5. (M \cup {p}) \ {p} = M BY <1>1
<1>6. list = "alloc" => Roomy(b.q) # {}
  <2>1. Listed(h, AllocPerSlot) /\ Listed(b.q, AllocPerSlot) BY <1>2, <1>4 DEF Tiled
  <2> QED BY <2>1, <1>2, <1>4, Sizes, WideInsert
<1>7. Keeps(a, b.q) BY <1>2, <1>4 DEF Keeps, Cov
<1>8. Pgs(b.q) = Pgs(a) \cup {p} /\ Heads(b.q) \subseteq Heads(a) \cup {p}
  BY <1>2, <1>4 DEF Pgs
<1>9. Within(Slot(e), Exts(b.q)) BY <1>4 DEF Cov
<1> QED BY <1>4, <1>5, <1>6, <1>7, <1>8, <1>9 DEF b, h, p, SlotNoted

(* What a slot that is taken from the free list leaves of the lists.       *)
Progress(s, t) ==
  /\ KeepsLow(s.free, t.free) /\ Keeps(s.alloc, t.alloc)
  /\ Pgs(t.free) \subseteq Pgs(s.free) /\ Pgs(s.alloc) \subseteq Pgs(t.alloc)
  /\ Grown(s, t, {})

LEMMA WithinSelf == ASSUME NEW B, NEW x \in B PROVE Within(x, B)
BY DEF Within, Alike

LEMMA ProgressSelf == ASSUME NEW s PROVE Progress(s, s)
BY WithinSelf, GrownSame DEF Progress, KeepsLow, Keeps

LEMMA ProgressTrans ==
  ASSUME NEW s, NEW t, NEW u, Progress(s, t), Progress(t, u)
  PROVE  Progress(s, u)
<1>1. KeepsLow(s.free, u.free)
  <2>1. ASSUME NEW x \in Exts(s.free), "HIGH" \notin x.flags PROVE Within(x, Exts(u.free))
    <3>1. Within(x, Exts(t.free)) BY <2>1 DEF Progress, KeepsLow
    <3>2. PICK y \in Exts(t.free) : PagesOf(x) \subseteq PagesOf(y) /\ Alike(x, y)
      BY <3>1 DEF Within
    <3>3. "HIGH" \notin y.flags BY <2>1, <3>2 DEF Alike
    <3>4. Within(y, Exts(u.free)) BY <3>3 DEF Progress, KeepsLow
    <3> QED BY <3>2, <3>4 DEF Within, Alike
  <2> QED BY <2>1 DEF KeepsLow
<1>2. Keeps(s.alloc, u.alloc)
  <2>1. ASSUME NEW x \in Exts(s.alloc) PROVE Within(x, Exts(u.alloc))
    <3>1. Within(x, Exts(t.alloc)) BY DEF Progress, Keeps
    <3> QED BY <3>1, WithinCov DEF Progress, Keeps
  <2> QED BY <2>1 DEF Keeps
<1>3. Grown(s, u, {} \cup {}) BY GrownTrans DEF Progress
<1> QED BY <1>1, <1>2, <1>3 DEF Progress

LEMMA NewState ==
  ASSUME NEW s, NEW M, State(s, M), NEW f, NEW a, NEW N, Tiled(f, a, N), NEW tab,
         tab \in [Pages -> {NoPage} \cup SUBSET {"W"}]
  PROVE  /\ State([free |-> f, alloc |-> a, tab |-> tab], N)
         /\ [s EXCEPT !.free = f] = [free |-> f, alloc |-> s.alloc, tab |-> s.tab]
         /\ [s EXCEPT !.alloc = a] = [free |-> s.free, alloc |-> a, tab |-> s.tab]
         /\ [s EXCEPT !.alloc = a, !.free = f] = [free |-> f, alloc |-> a, tab |-> s.tab]
         /\ [s EXCEPT !.free = f, !.alloc = a] = [free |-> f, alloc |-> a, tab |-> s.tab]
         /\ s.tab \in [Pages -> {NoPage} \cup SUBSET {"W"}]
<1>1. f \in Seq(Hdr) /\ a \in Seq(Hdr) BY DEF Tiled, Listed
<1>2. s \in Space BY DEF State
<1>3. [free |-> f, alloc |-> a, tab |-> tab] \in Space BY <1>1 DEF Space
<1>4. State([free |-> f, alloc |-> a, tab |-> tab], N) BY <1>3 DEF State
<1>5. [s EXCEPT !.free = f] = [free |-> f, alloc |-> s.alloc, tab |-> s.tab]
  BY <1>2 DEF Space
<1>6. [s EXCEPT !.alloc = a] = [free |-> s.free, alloc |-> a, tab |-> s.tab]
  BY <1>2 DEF Space
<1>7. [s EXCEPT !.alloc = a, !.free = f] = [free |-> f, alloc |-> a, tab |-> s.tab]
  <2> DEFINE u == [s EXCEPT !.alloc = a, !.free = f]
  <2>1. DOMAIN u = {"free", "alloc", "tab"} /\ u.free = f /\ u.alloc = a /\ u.tab = s.tab
    BY <1>2 DEF Space
  <2>2. u = [x \in {"free", "alloc", "tab"} |-> u[x]] BY <2>1, <1>2 DEF Space
  <2> HIDE DEF u
  <2>3. u = [free |-> f, alloc |-> a, tab |-> s.tab] BY <2>1, <2>2
  <2> QED BY <2>3 DEF u
<1>8. [s EXCEPT !.free = f, !.alloc = a] = [free |-> f, alloc |-> a, tab |-> s.tab]
  <2> DEFINE u == [s EXCEPT !.free = f, !.alloc = a]
  <2>1. DOMAIN u = {"free", "alloc", "tab"} /\ u.free = f /\ u.alloc = a /\ u.tab = s.tab
    BY <1>2 DEF Space
  <2>2. u = [x \in {"free", "alloc", "tab"} |-> u[x]] BY <2>1, <1>2 DEF Space
  <2> HIDE DEF u
  <2>3. u = [free |-> f, alloc |-> a, tab |-> s.tab] BY <2>1, <2>2
  <2> QED BY <2>3 DEF u
<1>9. s.tab \in [Pages -> {NoPage} \cup SUBSET {"W"}] BY <1>2 DEF Space
<1> QED BY <1>4, <1>5, <1>6, <1>7, <1>8, <1>9

NoHigh(f) == \A x \in Exts(f) : Region(x) # {"HIGH"}

Tracked(s, M, list, ok, t) ==
  /\ State(t.s, M) /\ Progress(s, t.s)
  /\ \/ /\ t.st = "OK" /\ ok[list]
        /\ (list = "free" => Roomy(t.s.free) # {}) /\ (list = "alloc" => Roomy(t.s.alloc) # {})
     \/ /\ t.st \in {"NOMEM", "NOENT", "FAIL"}
        /\ t.s.alloc = s.alloc /\ Cov(Exts(s.free), Exts(t.s.free))
        /\ t.st = "NOENT" => list = "free" /\ Roomy(s.alloc) = {}
        /\ t.st = "NOMEM" => NoHigh(s.free)
        /\ t.st = "FAIL" => ~ok[list]

(* vm_extent_alloc_slot on either list: the missing pages stay the same.   *)
LEMMA Tracking ==
  ASSUME NEW s, NEW M \in SUBSET Pages, State(s, M), NEW list \in {"free", "alloc"}, NEW ok \in Supply
  PROVE  Tracked(s, M, list, ok, AllocTracking(s, list, ok))
<1> DEFINE r == Extract(s.free, SlotReq)
           t == AllocTracking(s, list, ok)
           u == Insert(r.q, r.ext).q
<1>1. t = TrackIn(s, list, ok, r) BY DEF AllocTracking, SlotReq
<1>2. s \in Space /\ Tiled(s.free, s.alloc, M) BY DEF State
<1>3. CASE r.st # "OK"
  <2>1. t.st = "NOMEM" /\ t.s = s BY <1>1, <1>3 DEF TrackIn
  <2>2. NoHigh(s.free)
    <3>1. Listed(s.free, FreePerSlot) /\ FreePerSlot \in Nat BY <1>2, Sizes DEF Tiled
    <3>2. SlotReq.len = 1 /\ SlotReq.base = BaseAuto /\ Region(SlotReq) = {"HIGH"}
      BY DEF SlotReq, Region
    <3>3. \A x \in Exts(s.free) : ~Fits(x, SlotReq) BY <1>3, <3>1, <3>2, ExtractList
    <3>4. ASSUME NEW x \in Exts(s.free), Region(x) = {"HIGH"} PROVE FALSE
      <4>1. Sound(x) BY <3>1 DEF Listed, Exts
      <4>2. x.len >= 1 BY <4>1 DEF Sound, Ext
      <4>3. Fits(x, SlotReq) BY <4>2, <3>2, <3>4 DEF Fits
      <4> QED BY <4>3, <3>3
    <3> QED BY <3>4 DEF NoHigh
  <2> HIDE DEF t
  <2> QED BY <2>1, <2>2, <1>2, ProgressSelf, CovSelf DEF t, Tracked, State
<1>4. CASE r.st = "OK" /\ t = [st |-> t.st, s |-> Untouched(s, r)]
           /\ \/ t.st = "NOENT" /\ list = "free" /\ ~HasRoom(s.alloc, Slot(r.ext))
              \/ t.st = "FAIL" /\ ~ok[list]
  <2>1. Tiled(u, s.alloc, M) /\ Cov(Exts(s.free), Exts(u)) /\ Heads(u) = Heads(s.free)
    BY <1>2, <1>4, UntouchedFree
  <2>2. Untouched(s, r) = [s EXCEPT !.free = u] BY DEF Untouched
  <2> HIDE DEF u, t
  <2>3. Untouched(s, r) = [free |-> u, alloc |-> s.alloc, tab |-> s.tab] /\ State(Untouched(s, r), M)
    <3>1. s.tab \in [Pages -> {NoPage} \cup SUBSET {"W"}] BY <1>2 DEF Space
    <3>2. Untouched(s, r) = [free |-> u, alloc |-> s.alloc, tab |-> s.tab]
      BY <2>1, <2>2, <3>1, NewState
    <3>3. State([free |-> u, alloc |-> s.alloc, tab |-> s.tab], M) BY <2>1, <3>1, NewState
    <3> QED BY <3>2, <3>3
  <2>4. t.s.free = u /\ t.s.alloc = s.alloc /\ t.s.tab = s.tab /\ State(t.s, M)
    BY <1>4, <2>3
  <2>5. Keeps(s.alloc, t.s.alloc) BY <2>4, WithinSelf DEF Keeps
  <2>6. KeepsLow(s.free, t.s.free) /\ Pgs(t.s.free) = Pgs(s.free)
    BY <2>1, <2>4 DEF KeepsLow, Cov, Pgs
  <2>9. Grown(s, t.s, {})
    <3>1. AllHeads(t.s) = AllHeads(s) /\ Pgs(t.s.alloc) = Pgs(s.alloc)
      BY <2>1, <2>4 DEF AllHeads
    <3> QED BY <3>1, <2>4, GrownSame
  <2>7. Progress(s, t.s) BY <2>4, <2>5, <2>6, <2>9 DEF Progress
  <2>8. t.st = "NOENT" => Roomy(s.alloc) = {} BY <1>4 DEF HasRoom
  <2> QED BY <1>4, <2>1, <2>4, <2>7, <2>8 DEF t, Tracked
<1>5. CASE r.st = "OK" /\ t = [st |-> "OK", s |-> TakeSlot(s, list, r)] /\ ok[list]
           /\ (list = "free" => HasRoom(s.alloc, Slot(r.ext)))
  <2> DEFINE p == SlotPage(r.ext)
             g == Insert(WithHeader(r.q, "free", list, p), [r.ext EXCEPT !.len = @ - 1]).q
             b == Insert(WithHeader(s.alloc, "alloc", list, p), Slot(r.ext)).q
             tab == [s.tab EXCEPT ![p] = {"W"}]
  <2>1. /\ Tiled(g, s.alloc, M \cup {p}) /\ p \in Pages \ M /\ p \in High /\ p \in Nat
        /\ Sound(Slot(r.ext)) /\ PagesOf(Slot(r.ext)) = {p}
        /\ list = "free" => Roomy(g) # {}
        /\ KeepsLow(s.free, g) /\ Pgs(g) \subseteq Pgs(s.free) /\ Heads(g) \subseteq Heads(s.free) \cup {p}
    BY <1>2, <1>5, SlotFromFree
  <2> HIDE DEF g, r
  <2>2. /\ Tiled(g, b, M) /\ Keeps(s.alloc, b) /\ Pgs(b) = Pgs(s.alloc) \cup {p}
        /\ Within(Slot(r.ext), Exts(b)) /\ Heads(b) \subseteq Heads(s.alloc) \cup {p}
        /\ list = "alloc" => Roomy(b) # {}
    <3>1. list = "alloc" \/ HasRoom(s.alloc, Slot(r.ext)) BY <1>5
    <3>2. SlotNoted(g, s.alloc, M, r.ext, list, b) BY <3>1, <2>1, SlotToAlloc
    <3> QED BY <3>2 DEF SlotNoted
  <2>3. TakeSlot(s, list, r) = [free |-> g, alloc |-> b, tab |-> tab] BY DEF TakeSlot, g
  <2> HIDE DEF b
  <2>4. tab \in [Pages -> {NoPage} \cup SUBSET {"W"}] BY <1>2 DEF Space
  <2>8. p \in Pages /\ tab[p] = {"W"} /\ \A x \in Pages : tab[x] = s.tab[x] \/ x = p
    BY <1>2, <2>1 DEF Space
  <2> HIDE DEF tab
  <2>5. State([free |-> g, alloc |-> b, tab |-> tab], M) BY <2>2, <2>4, NewState
  <2> HIDE DEF t
  <2>6. t.st = "OK" /\ t.s.free = g /\ t.s.alloc = b /\ t.s.tab = tab /\ State(t.s, M)
    BY <1>5, <2>3, <2>5
  <2>9. Grown(s, t.s, {})
    <3>1. PICK y \in Exts(b) : PagesOf(Slot(r.ext)) \subseteq PagesOf(y) /\ Alike(Slot(r.ext), y)
      BY <2>2 DEF Within
    <3>2. p \in PagesOf(y) /\ "LOCKED" \in y.flags /\ y.prot = {"W"}
      BY <3>1, <2>1 DEF Alike, Slot
    <3>3. p \in Pinned(t.s) BY <3>2, <2>6, <2>8 DEF Pinned
    <3> QED BY <3>3, <2>1, <2>2, <2>6, <2>8 DEF Grown, AllHeads
  <2>7. Progress(s, t.s) BY <2>1, <2>2, <2>6, <2>9 DEF Progress
  <2> QED BY <1>5, <2>1, <2>2, <2>6, <2>7 DEF t, Tracked
<1>6. \/ r.st # "OK"
      \/ r.st = "OK" /\ t = [st |-> t.st, s |-> Untouched(s, r)]
           /\ \/ t.st = "NOENT" /\ list = "free" /\ ~HasRoom(s.alloc, Slot(r.ext))
              \/ t.st = "FAIL" /\ ~ok[list]
      \/ r.st = "OK" /\ t = [st |-> "OK", s |-> TakeSlot(s, list, r)] /\ ok[list]
           /\ (list = "free" => HasRoom(s.alloc, Slot(r.ext)))
  <2> HIDE DEF r, t
  <2> QED BY <1>1 DEF TrackIn
<1> QED BY <1>3, <1>4, <1>5, <1>6

(* A slot has been added, or nothing has changed but the free list, or a   *)
(* slot has been added only to the allocated list.                         *)
Slotted(s, M, list, ok, t) ==
  /\ State(t.s, M) /\ Progress(s, t.s)
  /\ \/ /\ t.st = "OK"
        /\ (list = "free" => Roomy(t.s.free) # {}) /\ (list = "alloc" => Roomy(t.s.alloc) # {})
     \/ /\ t.st # "OK"
        /\ t.s.alloc = s.alloc /\ Cov(Exts(s.free), Exts(t.s.free))
        /\ list = "alloc" => ~ok.alloc \/ NoHigh(s.free)
     \/ t.st # "OK" /\ list = "free" /\ ok.alloc /\ Roomy(s.alloc) = {}

(* A slot is taken, if need be after one for the other list.               *)
LEMMA Slotting ==
  ASSUME NEW s, NEW M \in SUBSET Pages, State(s, M), NEW list \in {"free", "alloc"}, NEW ok \in Supply
  PROVE  Slotted(s, M, list, ok, AllocSlot(s, list, ok))
<1> DEFINE t == AllocSlot(s, list, ok)
           one == AllocTracking(s, list, ok)
           two == AllocTracking(one.s, "alloc", ok)
           three == AllocTracking(two.s, list, ok)
<1>1. Tracked(s, M, list, ok, one) BY Tracking
<1>2. t = SlotOr(one, list, ok) BY DEF AllocSlot
<1>3. CASE one.st # "NOENT"
  <2>1. t = one BY <1>2, <1>3 DEF SlotOr
  <2> HIDE DEF one, t
  <2>2. Slotted(s, M, list, ok, one) BY <1>1, <1>3 DEF Tracked, Slotted
  <2> QED BY <2>1, <2>2 DEF t
<1>4. CASE one.st = "NOENT"
  <2>1. t = SlotAfter(two, list, ok) BY <1>2, <1>4 DEF SlotOr
  <2> HIDE DEF one
  <2>2. /\ State(one.s, M) /\ Progress(s, one.s) /\ one.s.alloc = s.alloc
        /\ Cov(Exts(s.free), Exts(one.s.free)) /\ list = "free" /\ Roomy(s.alloc) = {}
    BY <1>1, <1>4 DEF Tracked
  <2>3. Tracked(one.s, M, "alloc", ok, two) BY <2>2, Tracking
  <2> HIDE DEF two
  <2>4. Progress(s, two.s) BY <2>2, <2>3, ProgressTrans DEF Tracked
  <2>5. CASE two.st # "OK"
    <3>1. t = two BY <2>1, <2>5 DEF SlotAfter
    <3>2. two.s.alloc = s.alloc /\ State(two.s, M) /\ Cov(Exts(one.s.free), Exts(two.s.free))
      BY <2>2, <2>3, <2>5 DEF Tracked
    <3>3. Cov(Exts(s.free), Exts(two.s.free)) BY <2>2, <3>2, CovTrans
    <3>4. Slotted(s, M, list, ok, two) BY <2>2, <2>4, <2>5, <3>2, <3>3 DEF Slotted
    <3> HIDE DEF t
    <3> QED BY <3>1, <3>4 DEF t
  <2>6. CASE two.st = "OK"
    <3>1. t = three BY <2>1, <2>6 DEF SlotAfter
    <3>2. State(two.s, M) /\ ok.alloc BY <2>3, <2>6 DEF Tracked
    <3>3. Tracked(two.s, M, list, ok, three) BY <3>2, Tracking
    <3> HIDE DEF three, t
    <3>4. Progress(s, three.s) BY <2>4, <3>3, ProgressTrans DEF Tracked
    <3>5. Slotted(s, M, list, ok, three) BY <2>2, <3>2, <3>3, <3>4 DEF Tracked, Slotted
    <3> QED BY <3>1, <3>5 DEF t
  <2> QED BY <2>5, <2>6
<1> QED BY <1>3, <1>4

-------------------------------------------------------------------------------
(* vm_extent_split, and the undo of an allocation.                         *)

LEMMA SameZone ==
  ASSUME NEW x, NEW y, Sound(x), Sound(y), NEW p \in PagesOf(x), p \in PagesOf(y)
  PROVE  Zone(x) = Zone(y)
BY PageAssumption DEF Sound, Zone

(* What Split makes of an extent that holds the middle.                    *)
IsCut(e, mid, c) ==
  /\ c.mid = mid /\ c.left \in Ext /\ c.right \in Ext
  /\ Alike(c.left, e) /\ Alike(c.right, e)
  /\ c.left.len = 0 \/ Sound(c.left)
  /\ c.right.len = 0 \/ (Sound(c.right) /\ c.left.len > 0)
  /\ PagesOf(c.left) \cup PagesOf(c.right) = PagesOf(e) \ PagesOf(mid)
  /\ PagesOf(c.left) \cap PagesOf(c.right) = {}
  /\ PagesOf(mid) \subseteq PagesOf(e)
  /\ \/ c.right.len = 0 /\ c.left.base + c.left.len > mid.base /\ e.base = mid.base
     \/ /\ c.left.base + c.left.len = mid.base
        /\ c.right.len = 0 \/ c.right.base = mid.base + mid.len
        /\ c.left.base = e.base
        /\ c.right.len = 0 => mid.base + mid.len = e.base + e.len

(* The middle, and what is left and right of it, make up the extent.       *)
LEMMA CutParts ==
  ASSUME NEW e, Sound(e), NEW mid, mid.base \in Nat, mid.len \in Nat \ {0}, InRange(e, mid.base, mid.len)
  PROVE  IsCut(e, mid, Cut(e, mid))
<1> DEFINE c == Cut(e, mid)
           b == mid.base
           n == mid.len
           end == e.base + e.len
           left == [e EXCEPT !.len = b - e.base]
           right == [e EXCEPT !.base = b + n, !.len = end - (b + n)]
           none == [e EXCEPT !.base = 0, !.len = 0]
<1>1. /\ e \in Ext /\ e.base \in Nat /\ e.len \in Nat /\ e.len > 0 /\ PagesOf(e) \subseteq Zone(e)
      /\ Region(e) \in {{"LOW"}, {"HIGH"}}
  BY DEF Sound, Ext
<1>2. b \in Nat /\ n \in Nat /\ n > 0 /\ b >= e.base /\ b + n <= end BY DEF InRange
<1>3. end \in Nat /\ b - e.base \in Nat /\ end - (b + n) \in Nat BY <1>1, <1>2
<1>4. left \in Ext /\ left.base = e.base /\ left.len = b - e.base /\ Alike(left, e)
  BY <1>1, <1>3 DEF Ext, Alike
<1>5. right \in Ext /\ right.base = b + n /\ right.len = end - (b + n) /\ Alike(right, e)
  <2> DEFINE k == b + n
             m == end - (b + n)
  <2>1. k \in Nat /\ m \in Nat BY <1>2, <1>3
  <2>2. right = [e EXCEPT !.base = k, !.len = m] OBVIOUS
  <2> HIDE DEF k, m, right
  <2>3. /\ DOMAIN right = {"base", "len", "flags", "prot"} /\ right.base = k /\ right.len = m
        /\ right.flags = e.flags /\ right.prot = e.prot
    BY <1>1, <2>2 DEF Ext
  <2>4. right \in Ext BY <1>1, <2>1, <2>2 DEF Ext
  <2> QED BY <2>3, <2>4 DEF Alike, k, m
<1>6. none \in Ext /\ none.base = 0 /\ none.len = 0 /\ Alike(none, e)
  BY <1>1 DEF Ext, Alike
<1>7. /\ c.mid = mid
      /\ c.left = IF right.len # 0 /\ left.len = 0 THEN right ELSE left
      /\ c.right = IF right.len = 0 \/ left.len = 0 THEN none ELSE right
  BY DEF Cut, Parts, Split
<1> HIDE DEF left, right, none, c
<1>8. /\ PagesOf(left) = {p \in PagesOf(e) : p < b} /\ PagesOf(right) = {p \in PagesOf(e) : p >= b + n}
      /\ PagesOf(none) = {} /\ PagesOf(mid) = {p \in PagesOf(e) : b <= p /\ p < b + n}
      /\ \A p \in PagesOf(e) : p \in Nat
  BY <1>1, <1>2, <1>3, <1>4, <1>5, <1>6 DEF PagesOf
<1>9. ASSUME NEW x \in Ext, Alike(x, e), PagesOf(x) \subseteq PagesOf(e), x.len # 0
      PROVE  Sound(x)
  <2>1. x.len > 0 BY <1>9 DEF Ext
  <2> QED BY <2>1, <1>1, <1>9 DEF Sound, Alike, Region, Zone
<1>10. PagesOf(left) \subseteq PagesOf(e) /\ PagesOf(right) \subseteq PagesOf(e) BY <1>8
<1>11. (left.len = 0 \/ Sound(left)) /\ (right.len = 0 \/ Sound(right))
  BY <1>4, <1>5, <1>9, <1>10
<1>12. /\ PagesOf(left) \cup PagesOf(right) = PagesOf(e) \ PagesOf(mid)
       /\ PagesOf(left) \cap PagesOf(right) = {} /\ PagesOf(mid) \subseteq PagesOf(e)
  BY <1>1, <1>2, <1>8
<1>13. /\ left.len = 0 => PagesOf(left) = {} /\ b = e.base
       /\ right.len = 0 => PagesOf(right) = {} /\ b + n = end
  <2>1. left.len = 0 => b = e.base BY <1>1, <1>2, <1>4
  <2>2. right.len = 0 => b + n = end BY <1>2, <1>3, <1>5
  <2>3. left.len = 0 => PagesOf(left) = {} BY <1>1, <1>4 DEF PagesOf
  <2>4. right.len = 0 => PagesOf(right) = {} BY <1>2, <1>5 DEF PagesOf
  <2> QED BY <2>1, <2>2, <2>3, <2>4
<1>14. left.base + left.len = b BY <1>1, <1>2, <1>4
<1>15. CASE right.len = 0
  <2>1. c.left = left /\ c.right = none BY <1>7, <1>15
  <2> QED BY <2>1, <1>4, <1>6, <1>7, <1>8, <1>11, <1>12, <1>13, <1>14, <1>15 DEF IsCut, c
<1>16. CASE right.len # 0 /\ left.len = 0
  <2>1. c.left = right /\ c.right = none BY <1>7, <1>16
  <2>2. right.base + right.len > b BY <1>1, <1>2, <1>3, <1>5
  <2> QED BY <2>1, <2>2, <1>5, <1>6, <1>7, <1>8, <1>11, <1>12, <1>13, <1>16 DEF IsCut, c
<1>17. CASE right.len # 0 /\ left.len # 0
  <2>1. c.left = left /\ c.right = right BY <1>7, <1>17
  <2>2. left.len > 0 BY <1>3, <1>4, <1>17
  <2> QED BY <2>1, <2>2, <1>4, <1>5, <1>7, <1>11, <1>12, <1>14, <1>17 DEF IsCut, c
<1> QED BY <1>15, <1>16, <1>17

-------------------------------------------------------------------------------
(* The undo finds the parts in the extents that hold them.                 *)
LEMMA NotFound ==
  ASSUME NEW size \in Nat, NEW q, Listed(q, size), NEW x, x.base \in Nat, x.len \in Nat \ {0}, x.base \notin Pgs(q)
  PROVE  Extract(q, x).q = q /\ Extract(q, x).ext = x
<1>1. \A y \in Exts(q) : ~Fits(y, x)
  <2>1. ASSUME NEW y \in Exts(q), Fits(y, x) PROVE FALSE
    <3>1. y.base \in Nat /\ y.len \in Nat BY DEF Listed, Exts, Sound, Ext
    <3>2. InRange(y, x.base, x.len) BY <2>1 DEF Fits, BaseAuto
    <3>3. x.base \in PagesOf(y) BY <3>1, <3>2 DEF InRange, PagesOf
    <3> QED BY <3>3 DEF Pgs
  <2> QED BY <2>1
<1>2. \/ Extract(q, x).ext \in Exts(q) /\ Fits(Extract(q, x).ext, x)
      \/ Extract(q, x).q = q /\ Extract(q, x).ext = x
  BY ExtractList
<1> QED BY <1>1, <1>2

LEMMA Found ==
  ASSUME NEW size \in Nat, NEW q, Listed(q, size), NEW x, Sound(x), Within(x, Exts(q))
  PROVE  Extract(q, x).st = "OK"
<1>1. PICK y \in Exts(q) : PagesOf(x) \subseteq PagesOf(y) BY DEF Within
<1>2. /\ y.base \in Nat /\ y.len \in Nat /\ y.len > 0
      /\ x.base \in Nat /\ x.len \in Nat /\ x.len > 0
  BY DEF Listed, Exts, Sound, Ext
<1>3. x.base \in PagesOf(y) /\ x.base + x.len - 1 \in PagesOf(y) BY <1>1, SoundPages
<1>4. Fits(y, x) BY <1>2, <1>3 DEF Fits, InRange, PagesOf, BaseAuto
<1>5. \/ Extract(q, x).st = "OK"
      \/ x.len = 0 \/ \A z \in Exts(q) : ~Fits(z, x)
  BY ExtractList
<1> QED BY <1>2, <1>4, <1>5

LEMMA FitsRange ==
  ASSUME NEW e, NEW x, x.base \in Nat, Fits(e, x)
  PROVE  InRange(e, x.base, x.len)
BY DEF Fits, BaseAuto

(* The left part, with what it was joined with.                            *)
LeftTaken(f, a, M, left, b, l) ==
  /\ l.ext \in Ext /\ l.ext.base + l.ext.len = b /\ Plain(l.ext)
  /\ Tiled(l.q, a, M \cup PagesOf(l.ext)) /\ PagesOf(l.ext) \subseteq Pages \ M
  /\ Zone(l.ext) = Zone(left) /\ Region(l.ext) = Region(left) /\ PagesOf(l.ext) \subseteq Zone(left)
  /\ \A x \in Exts(f) : x \in Exts(l.q) \/ x = l.ext

(* The undo takes the left part, with what it was joined to, off the list. *)
LEMMA LeftBack ==
  ASSUME NEW f, NEW a, NEW M \in SUBSET Pages, Tiled(f, a, M), NEW left \in Ext, Plain(left),
         NEW b \in M, left.base + left.len = b,
         left.len = 0 \/ (Sound(left) /\ Within(left, Exts(f)))
  PROVE  LeftTaken(f, a, M, left, b, Extract(f, left))
<1> DEFINE l == Extract(f, left)
<1>1. Listed(f, FreePerSlot) /\ FreePerSlot \in Nat BY Sizes DEF Tiled
<1>2. CASE left.len = 0
  <2>1. l.q = f /\ l.ext = left BY <1>1, <1>2, ExtractList
  <2>2. PagesOf(left) = {} BY <1>2 DEF PagesOf, Ext
  <2>3. M \cup {} = M OBVIOUS
  <2> HIDE DEF l
  <2> QED BY <2>1, <2>2, <2>3 DEF l, LeftTaken
<1>3. CASE left.len # 0
  <2>1. Sound(left) /\ Within(left, Exts(f)) BY <1>3
  <2>2. l.st = "OK" BY <2>1, <1>1, Found
  <2>3. /\ Tiled(l.q, a, M \cup PagesOf(l.ext)) /\ Sound(l.ext) /\ Plain(l.ext)
        /\ l.ext \in Exts(f) /\ Exts(l.q) = Exts(f) \ {l.ext} /\ Fits(l.ext, left)
        /\ PagesOf(l.ext) \subseteq Pages \ M
    BY <2>2, FreeOut
  <2> HIDE DEF l
  <2>4. /\ left.base \in Nat /\ left.len \in Nat /\ left.len > 0 /\ b \in Nat
        /\ l.ext.base \in Nat /\ l.ext.len \in Nat /\ l.ext \in Ext /\ PagesOf(l.ext) \subseteq Zone(l.ext)
    BY <1>3, <2>3 DEF Sound, Ext
  <2>5. InRange(l.ext, left.base, left.len) BY <2>3, <2>4, FitsRange
  <2>6. b \notin PagesOf(l.ext) BY <2>3
  <2>7. l.ext.base + l.ext.len = b BY <2>4, <2>5, <2>6 DEF InRange, PagesOf
  <2>8. left.base \in PagesOf(l.ext) /\ left.base \in PagesOf(left)
    BY <2>4, <2>5 DEF InRange, PagesOf
  <2>9. Zone(l.ext) = Zone(left) BY <2>1, <2>3, <2>8, SameZone
  <2>10. Region(l.ext) = Region(left)
    <3>1. \E x \in Exts(f) : PagesOf(left) \subseteq PagesOf(x) /\ Alike(left, x)
      BY <2>1 DEF Within
    <3>2. PICK x \in Exts(f) : PagesOf(left) \subseteq PagesOf(x) /\ Alike(left, x)
      BY <3>1
    <3>3. x = l.ext BY <3>2, <2>3, <2>8, <1>1, ApartExts DEF Apart
    <3> QED BY <3>2, <3>3 DEF Alike, Region
  <2> QED BY <2>3, <2>4, <2>7, <2>9, <2>10 DEF l, LeftTaken
<1> QED BY <1>2, <1>3

(* The right part, if it is there.                                         *)
RightTaken(a, M, N, right, b, r) ==
  /\ r.ext.len \in Nat /\ (r.ext.len = 0 \/ r.ext.base = b)
  /\ N \subseteq PagesOf(r.ext)
  /\ Tiled(r.q, a, M \cup PagesOf(r.ext)) /\ PagesOf(r.ext) \subseteq Pages
  /\ right.len = 0 => r.ext.len = 0
  /\ r.ext.len = 0 => PagesOf(r.ext) = {}
  /\ right.len # 0 => PagesOf(r.ext) \subseteq Zone(right)

LEMMA RightBack ==
  ASSUME NEW f, NEW a, NEW M \in SUBSET Pages, NEW N \in SUBSET Pages, Tiled(f, a, M \cup N), NEW right \in Ext,
         NEW b \in Nat \ {0}, b - 1 \in M, right.len = 0 \/ right.base = b,
         \/ right.len = 0 /\ N = {}
         \/ Sound(right) /\ Within(right, Exts(f)) /\ N = {}
         \/ Sound(right) /\ N = PagesOf(right)
  PROVE  RightTaken(a, M, N, right, b, RightPart(f, right))
<1> DEFINE r == RightPart(f, right)
           e == Extract(f, right)
<1>1. Listed(f, FreePerSlot) /\ FreePerSlot \in Nat BY Sizes DEF Tiled
<1>2. right.len \in Nat /\ right.base \in Nat BY DEF Ext
<1>3. CASE right.len = 0
  <2>1. r.q = f /\ r.ext = right BY <1>2, <1>3 DEF RightPart
  <2>2. PagesOf(right) = {} BY <1>2, <1>3 DEF PagesOf
  <2>3. N = {} BY <1>3 DEF Sound
  <2> HIDE DEF r
  <2> QED BY <2>1, <2>2, <2>3, <1>2, <1>3 DEF r, RightTaken
<1>4. CASE right.len # 0 /\ N = {}
  <2>1. r = e BY <1>2, <1>4 DEF RightPart
  <2>2. Sound(right) /\ Within(right, Exts(f)) /\ right.base = b
    <3>1. Sound(right) /\ right.base = b BY <1>4
    <3>2. PagesOf(right) # {} BY <3>1, SoundPages
    <3> QED BY <3>1, <3>2, <1>4
  <2>3. e.st = "OK" BY <2>2, <1>1, Found
  <2>4. M \cup N = M BY <1>4
  <2>5. /\ Tiled(e.q, a, M \cup PagesOf(e.ext)) /\ Sound(e.ext)
        /\ Fits(e.ext, right) /\ PagesOf(e.ext) \subseteq Pages \ M
    BY <2>3, <2>4, FreeOut
  <2> HIDE DEF e, r
  <2>6. e.ext.base \in Nat /\ e.ext.len \in Nat /\ PagesOf(e.ext) \subseteq Zone(e.ext)
    BY <2>5 DEF Sound, Ext
  <2>7. InRange(e.ext, right.base, right.len) BY <2>5, <1>2, FitsRange
  <2>8. b - 1 \notin PagesOf(e.ext) BY <2>5
  <2>9. e.ext.base = b BY <2>2, <2>6, <2>7, <2>8, <1>2, <1>4 DEF InRange, PagesOf
  <2>10. right.base \in PagesOf(e.ext) /\ right.base \in PagesOf(right)
    BY <2>6, <2>7, <1>2, <1>4 DEF InRange, PagesOf
  <2>11. Zone(e.ext) = Zone(right) BY <2>2, <2>5, <2>10, SameZone
  <2>12. e.ext.len # 0 BY <2>5 DEF Sound
  <2> QED BY <2>1, <2>5, <2>6, <2>9, <2>11, <2>12, <1>4 DEF r, RightTaken
<1>5. CASE right.len # 0 /\ N # {}
  <2>1. r = e BY <1>2, <1>5 DEF RightPart
  <2>2. Sound(right) /\ N = PagesOf(right) /\ right.base = b BY <1>5
  <2>3. right.base \in N BY <2>2, SoundPages
  <2>4. right.base \notin Pgs(f) BY <2>3 DEF Tiled
  <2>5. e.q = f /\ e.ext = right BY <2>4, <1>1, <1>2, <1>5, NotFound
  <2> HIDE DEF e, r
  <2>6. PagesOf(right) \subseteq Zone(right) BY <2>2 DEF Sound
  <2> QED BY <2>1, <2>2, <2>5, <2>6, <1>2, <1>5 DEF r, RightTaken
<1> QED BY <1>3, <1>4, <1>5

(* The extent that the undo puts together again.                           *)
Whole(l, n, r) == [l EXCEPT !.len = @ + n + r]

Adjoining(l, b, n, r) ==
  /\ l \in Ext /\ Plain(l) /\ b \in Nat /\ n \in Nat \ {0} /\ r.len \in Nat
  /\ l.base + l.len = b /\ (r.len = 0 \/ r.base = b + n)
  /\ Region(l) \in {{"LOW"}, {"HIGH"}} /\ PagesOf(l) \subseteq Zone(l) /\ b .. b + n - 1 \subseteq Zone(l)
  /\ r.len = 0 \/ PagesOf(r) \subseteq Zone(l)

IsWhole(l, b, n, r, x) ==
  /\ Sound(x) /\ Plain(x)
  /\ PagesOf(x) = PagesOf(l) \cup (b .. b + n - 1) \cup (IF r.len = 0 THEN {} ELSE PagesOf(r))

(* What the undo inserts is sound: it covers left, middle and right.       *)
LEMMA WholeSound ==
  ASSUME NEW l, NEW b, NEW n, NEW r, Adjoining(l, b, n, r)
  PROVE  IsWhole(l, b, n, r, Whole(l, n, r.len))
<1>0. /\ l \in Ext /\ Plain(l) /\ b \in Nat /\ n \in Nat \ {0} /\ r.len \in Nat
      /\ l.base + l.len = b /\ (r.len = 0 \/ r.base = b + n)
      /\ Region(l) \in {{"LOW"}, {"HIGH"}} /\ PagesOf(l) \subseteq Zone(l) /\ b .. b + n - 1 \subseteq Zone(l)
      /\ r.len = 0 \/ PagesOf(r) \subseteq Zone(l)
  BY DEF Adjoining
<1> DEFINE k == l.len + n + r.len
           x == Whole(l, n, r.len)
<1>1. l.base \in Nat /\ l.len \in Nat /\ k \in Nat /\ k > 0 BY <1>0 DEF Ext
<1>2. x = [l EXCEPT !.len = k] BY DEF Whole
<1> HIDE DEF k, x
<1>3. x \in Ext /\ x.base = l.base /\ x.len = k /\ x.flags = l.flags /\ x.prot = l.prot
  BY <1>0, <1>1, <1>2 DEF Ext
<1>4. PagesOf(x) = PagesOf(l) \cup (b .. b + n - 1) \cup (IF r.len = 0 THEN {} ELSE PagesOf(r))
  <2>1. k = l.len + n + r.len BY DEF k
  <2>2. CASE r.len = 0
    BY <2>1, <2>2, <1>0, <1>1, <1>3 DEF PagesOf
  <2>3. CASE r.len # 0
    <3>1. r.base = b + n BY <2>3, <1>0
    <3>2. PagesOf(r) = b + n .. b + n + r.len - 1 BY <3>1 DEF PagesOf
    <3>3. PagesOf(x) = l.base .. l.base + k - 1 BY <1>3 DEF PagesOf
    <3>4. PagesOf(l) = l.base .. b - 1
      <4>1. l.base + l.len - 1 = b - 1 BY <1>0, <1>1
      <4> QED BY <4>1 DEF PagesOf
    <3>5. l.base + k = b + n + r.len BY <2>1, <1>0, <1>1
    <3>6. PagesOf(x) = PagesOf(l) \cup (b .. b + n - 1) \cup PagesOf(r)
      <4> DEFINE B == l.base
                 m == r.len
                 K == k
      <4>1. B \in Nat /\ b \in Nat /\ n \in Nat /\ n > 0 /\ m \in Nat /\ K \in Nat /\ B <= b
        BY <1>0, <1>1
      <4>2. B + K = b + n + m BY <3>5
      <4>3. /\ PagesOf(r) = b + n .. b + n + m - 1 /\ PagesOf(x) = B .. B + K - 1
            /\ PagesOf(l) = B .. b - 1
        BY <3>2, <3>3, <3>4
      <4> HIDE DEF B, m, K
      <4>4. B .. B + K - 1 = (B .. b - 1) \cup (b .. b + n - 1) \cup (b + n .. b + n + m - 1)
        BY ONLY <4>1, <4>2
      <4> QED BY ONLY <4>3, <4>4
    <3> QED BY <3>6, <2>3
  <2> QED BY <2>2, <2>3
<1>5. PagesOf(x) \subseteq Zone(l) BY <1>0, <1>4
<1>6. Sound(x) BY <1>0, <1>1, <1>3, <1>5 DEF Sound, Region, Zone
<1>7. Plain(x) BY <1>0, <1>3 DEF Plain, Region
<1> QED BY <1>4, <1>6, <1>7 DEF x, IsWhole

LEMMA HeadsOut ==
  ASSUME NEW size \in Nat, NEW q, Listed(q, size), NEW x
  PROVE  Heads(Extract(q, x).q) = Heads(q) /\ Heads(RightPart(q, x).q) = Heads(q)
<1>1. Heads(Extract(q, x).q) = Heads(q) BY ExtractList
<1> QED BY <1>1 DEF RightPart

BackAgain(f, a, u) ==
  u.from = a /\ Tiled(u.into.q, a, {}) /\ Heads(u.into.q) = Heads(f)

(* An undo that does not refuse leaves the lists as they were before the   *)
(* extent was cut (mm/vm_space.c: vm_space_undo).                          *)
LEMMA UndoBack ==
  ASSUME NEW f, NEW a, NEW e, NEW mid, NEW c, NEW N \in SUBSET Pages, Sound(e), Plain(e), Sound(mid),
         IsCut(e, mid, c), Tiled(f, a, PagesOf(mid) \cup N),
         c.left.len = 0 \/ Within(c.left, Exts(f)),
         \/ N = {} /\ (c.right.len = 0 \/ Within(c.right, Exts(f)))
         \/ N = PagesOf(c.right) /\ c.right.len # 0,
         Undo(a, f, c).into.st = "OK"
  PROVE  BackAgain(f, a, Undo(a, f, c))
<1> DEFINE left == c.left
           right == c.right
           u == Undo(a, f, c)
           M == PagesOf(mid)
           b == mid.base + mid.len
           m == Extract(a, mid)
           l == Extract(f, left)
           r == RightPart(l.q, right)
<1>1. /\ c.mid = mid /\ left \in Ext /\ right \in Ext /\ Alike(left, e) /\ Alike(right, e)
      /\ left.len = 0 \/ Sound(left)
      /\ right.len = 0 \/ (Sound(right) /\ left.len > 0)
      /\ M \subseteq PagesOf(e)
  BY DEF IsCut
<1>2. /\ mid.base \in Nat /\ mid.len \in Nat /\ mid.len > 0 /\ M \subseteq Pages /\ PagesOf(e) \subseteq Zone(e)
      /\ e.base \in Nat /\ e.len \in Nat
      /\ left.base \in Nat /\ left.len \in Nat /\ right.base \in Nat /\ right.len \in Nat
  BY <1>1, InPages DEF Sound, Ext
<1>3. ~(left.base + left.len > mid.base)
  <2>1. u.into.st # "FAIL" OBVIOUS
  <2> QED BY <2>1, <1>1 DEF Undo
<1>4. left.base + left.len = mid.base /\ (right.len = 0 \/ right.base = b)
  BY <1>3 DEF IsCut
<1>5. u = Reunite(m, l, c)
  <2>1. ~(right.len > 0 /\ mid.base + mid.len > right.base) BY <1>2, <1>4
  <2> QED BY <2>1, <1>1, <1>3 DEF Undo
<1>6. m.q = a /\ m.ext = mid
  <2>1. Listed(a, AllocPerSlot) /\ AllocPerSlot \in Nat BY Sizes DEF Tiled
  <2>2. mid.base \in M BY <1>2, SoundPages
  <2>3. mid.base \notin Pgs(a) BY <2>2 DEF Tiled
  <2> QED BY <2>1, <2>3, <1>2, NotFound
<1>7. Plain(left) BY <1>1 DEF Plain, Alike, Region
<1>8. M \cup N \in SUBSET Pages /\ mid.base \in M \cup N BY <1>2, SoundPages
<1> HIDE DEF left, right, M, b, u
<1>90. LeftTaken(f, a, M \cup N, left, mid.base, l)
  <2>1. Tiled(f, a, M \cup N) BY DEF M
  <2>2. left.len = 0 \/ (Sound(left) /\ Within(left, Exts(f))) BY <1>1 DEF left
  <2> QED BY <1>1, <1>4, <1>7, <1>8, <2>1, <2>2, LeftBack
<1>9. /\ l.ext \in Ext /\ l.ext.base + l.ext.len = mid.base /\ Plain(l.ext)
      /\ Tiled(l.q, a, (M \cup N) \cup PagesOf(l.ext)) /\ PagesOf(l.ext) \subseteq Pages \ (M \cup N)
      /\ Zone(l.ext) = Zone(left) /\ Region(l.ext) = Region(left) /\ PagesOf(l.ext) \subseteq Zone(left)
      /\ \A x \in Exts(f) : x \in Exts(l.q) \/ x = l.ext
  BY <1>90 DEF LeftTaken
<1>h. Heads(l.q) = Heads(f) /\ Heads(r.q) = Heads(l.q)
  <2>1. FreePerSlot \in Nat /\ Listed(f, FreePerSlot) /\ Listed(l.q, FreePerSlot)
    BY <1>9, Sizes DEF Tiled
  <2> QED BY <2>1, HeadsOut
<1> HIDE DEF l
<1>100. RightTaken(a, M \cup PagesOf(l.ext), N, right, b, r)
  <2>1. M \cup PagesOf(l.ext) \in SUBSET Pages BY <1>2, <1>9 DEF M
  <2>2. Tiled(l.q, a, (M \cup PagesOf(l.ext)) \cup N)
    <3>1. (M \cup PagesOf(l.ext)) \cup N = (M \cup N) \cup PagesOf(l.ext) OBVIOUS
    <3> QED BY <3>1, <1>9
  <2>3. b \in Nat \ {0} /\ b - 1 \in M \cup PagesOf(l.ext) BY <1>2 DEF b, M, PagesOf
  <2>4. \/ right.len = 0 /\ N = {}
        \/ Sound(right) /\ Within(right, Exts(l.q)) /\ N = {}
        \/ Sound(right) /\ N = PagesOf(right)
    <3>1. ASSUME right.len # 0, Within(right, Exts(f)), Sound(right)
          PROVE  Within(right, Exts(l.q))
      <4>1. PICK y \in Exts(f) : PagesOf(right) \subseteq PagesOf(y) /\ Alike(right, y)
        BY <3>1 DEF Within
      <4>2. right.base \in PagesOf(y) /\ right.base >= mid.base
        BY <3>1, <4>1, SoundPages, <1>2, <1>4 DEF b
      <4>3. y # l.ext BY <4>2, <1>9, <1>2 DEF PagesOf, Ext
      <4> QED BY <4>1, <4>3, <1>9 DEF Within
    <3> QED BY <3>1, <1>1 DEF right
  <2> QED BY <2>1, <2>2, <2>3, <2>4, <1>1, <1>4, RightBack
<1>10. /\ r.ext.len \in Nat /\ (r.ext.len = 0 \/ r.ext.base = b)
       /\ N \subseteq PagesOf(r.ext)
       /\ Tiled(r.q, a, (M \cup PagesOf(l.ext)) \cup PagesOf(r.ext)) /\ PagesOf(r.ext) \subseteq Pages
       /\ right.len = 0 => r.ext.len = 0
       /\ r.ext.len = 0 => PagesOf(r.ext) = {}
       /\ right.len # 0 => PagesOf(r.ext) \subseteq Zone(right)
  BY <1>100 DEF RightTaken
<1> HIDE DEF r
<1>11. u.from = a /\ u.into = Insert(r.q, Whole(l.ext, mid.len, r.ext.len))
  BY <1>5, <1>6 DEF Reunite, Rejoined, Whole, r, left, right, l
<1> DEFINE J == Whole(l.ext, mid.len, r.ext.len)
<1>12. /\ Sound(J) /\ Plain(J)
       /\ PagesOf(J) = PagesOf(l.ext) \cup M \cup (IF r.ext.len = 0 THEN {} ELSE PagesOf(r.ext))
  <2>1. mid.base .. mid.base + mid.len - 1 = M BY DEF M, PagesOf
  <2>2. Zone(left) = Zone(e) /\ Zone(right) = Zone(e) /\ Region(left) = Region(e)
    BY <1>1 DEF Alike, Zone, Region
  <2>3. M \subseteq Zone(l.ext) /\ PagesOf(l.ext) \subseteq Zone(l.ext)
        /\ (r.ext.len = 0 \/ PagesOf(r.ext) \subseteq Zone(l.ext))
    BY <1>1, <1>2, <1>9, <1>10, <2>2
  <2>4. Region(l.ext) \in {{"LOW"}, {"HIGH"}} BY <1>9, <2>2 DEF Sound
  <2>5. mid.len \in Nat \ {0} BY <1>2
  <2>6. r.ext.len = 0 \/ r.ext.base = mid.base + mid.len BY <1>10 DEF b
  <2>7. mid.base .. mid.base + mid.len - 1 \subseteq Zone(l.ext) BY <2>1, <2>3
  <2>8. /\ l.ext \in Ext /\ mid.base \in Nat /\ r.ext.len \in Nat /\ Plain(l.ext)
        /\ l.ext.base + l.ext.len = mid.base
    BY <1>2, <1>9, <1>10
  <2> HIDE DEF J
  <2>9. Adjoining(l.ext, mid.base, mid.len, r.ext)
    BY <2>3, <2>4, <2>5, <2>6, <2>7, <2>8 DEF Adjoining
  <2>10. IsWhole(l.ext, mid.base, mid.len, r.ext, J) BY <2>9, WholeSound DEF J
  <2> QED BY <2>1, <2>10 DEF IsWhole
<1>13. PagesOf(J) = (M \cup PagesOf(l.ext)) \cup PagesOf(r.ext) BY <1>10, <1>12
<1>14. PagesOf(J) \in SUBSET Pages BY <1>12, InPages
<1>15. Tiled(r.q, a, PagesOf(J)) BY <1>10, <1>13
<1>16. u.into = Insert(r.q, J) BY <1>11 DEF J
<1>17. Insert(r.q, J).st = "OK" BY <1>16 DEF u
<1>18. Tiled(Insert(r.q, J).q, a, PagesOf(J) \ PagesOf(J))
  BY <1>12, <1>14, <1>15, <1>17, FreeIn
<1>19. PagesOf(J) \ PagesOf(J) = {} OBVIOUS
<1>20. Heads(Insert(r.q, J).q) = Heads(r.q) BY <1>12, <1>14, <1>15, FreeInHeads
<1>21. u.from = a /\ Tiled(u.into.q, a, {}) /\ Heads(u.into.q) = Heads(f)
  BY <1>11, <1>16, <1>18, <1>19, <1>20, <1>h
<1>22. BackAgain(f, a, u) BY <1>21 DEF BackAgain
<1> QED BY <1>22 DEF u

-------------------------------------------------------------------------------
(* vm_space_alloc: the note of what is taken.                              *)

(* What becomes of a request for the middle of e: it is noted, or all is   *)
(* as it was.                                                              *)
Kept(t, e, mid, r) ==
  \/ r.mishap
  \/ /\ State(r.s, {}) /\ Keeps(t.alloc, r.s.alloc)
     /\ \/ /\ r.addr = mid.base /\ Within(mid, Exts(r.s.alloc)) /\ Grown(t, r.s, PagesOf(mid))
        \/ /\ r.addr = BaseAuto /\ (r.s.alloc = t.alloc \/ "HIGH" \notin e.flags)
           /\ Grown(t, r.s, {}) /\ PagesOf(mid) \cap Pgs(r.s.alloc) = {}

LEMMA KeepsTrans ==
  ASSUME NEW f, NEW g, NEW h, Keeps(f, g), Keeps(g, h)
  PROVE  Keeps(f, h)
<1>1. ASSUME NEW x \in Exts(f) PROVE Within(x, Exts(h))
  <2>1. Within(x, Exts(g)) BY DEF Keeps
  <2> QED BY <2>1, WithinCov DEF Keeps
<1> QED BY <1>1 DEF Keeps

LEMMA KeepsSelf == ASSUME NEW f PROVE Keeps(f, f)
BY WithinSelf DEF Keeps

LEMMA WithinTrans ==
  ASSUME NEW x, NEW A, NEW B, Cov(A, B), Within(x, A)
  PROVE  Within(x, B)
BY WithinCov DEF Cov

LEMMA AlikeZone == ASSUME NEW x, NEW y, Alike(x, y) PROVE Region(x) = Region(y) /\ Zone(x) = Zone(y)
BY DEF Alike, Region, Zone

IsNoted(t, mid, wrong, n) ==
  /\ n.addr = mid.base /\ State(n.s, {}) /\ n.mishap = wrong
  /\ n.s = [t EXCEPT !.alloc = Insert(t.alloc, mid).q]
  /\ Keeps(t.alloc, n.s.alloc) /\ Within(mid, Exts(n.s.alloc)) /\ Grown(t, n.s, PagesOf(mid))

(* The middle is noted as allocated, where there is room.                  *)
LEMMA NotedState ==
  ASSUME NEW t, NEW c, NEW e, NEW mid, Sound(mid), State(t, PagesOf(mid)), c.mid = mid, HasRoom(t.alloc, mid),
         NEW wrong \in BOOLEAN
  PROVE  IsNoted(t, mid, wrong, Noted(t, c, Insert(t.alloc, mid), wrong))
<1> DEFINE i == Insert(t.alloc, mid)
           M == PagesOf(mid)
           n == Noted(t, c, i, wrong)
<1>1. Tiled(t.free, t.alloc, M) /\ M \in SUBSET Pages BY InPages DEF State
<1>2. /\ i.st = "OK" /\ Tiled(t.free, i.q, M \ M) /\ Cov(Exts(t.alloc) \cup {mid}, Exts(i.q))
      /\ Pgs(i.q) = Pgs(t.alloc) \cup M /\ Heads(i.q) = Heads(t.alloc)
  <2>1. i.st # "NOMEM" \/ HasRoom(t.alloc, mid) OBVIOUS
  <2>3. Heads(i.q) = Heads(t.alloc) BY <1>1, AllocIn
  <2>2. \/ /\ i.st = "OK" /\ HasRoom(t.alloc, mid) /\ Tiled(t.free, i.q, M \ M)
           /\ Cov(Exts(t.alloc) \cup {mid}, Exts(i.q)) /\ Pgs(i.q) = Pgs(t.alloc) \cup M
        \/ i.st = "NOMEM" /\ ~HasRoom(t.alloc, mid)
    BY <1>1, AllocIn
  <2> QED BY <2>2, <2>3
<1>3. M \ M = {} OBVIOUS
<1> HIDE DEF i, M, n
<1>4. Tiled(t.free, i.q, {}) BY <1>2, <1>3
<1>5. t.tab \in [Pages -> {NoPage} \cup SUBSET {"W"}] BY DEF State, Space
<1>6. /\ [t EXCEPT !.alloc = i.q] = [free |-> t.free, alloc |-> i.q, tab |-> t.tab]
      /\ State([free |-> t.free, alloc |-> i.q, tab |-> t.tab], {})
  BY <1>4, <1>5, NewState
<1>7. n = [addr |-> c.mid.base, s |-> [t EXCEPT !.alloc = i.q], mishap |-> wrong]
  BY <1>2 DEF Noted, n
<1>8. n.addr = mid.base /\ State(n.s, {}) /\ n.mishap = wrong /\ n.s = [t EXCEPT !.alloc = i.q]
  BY <1>6, <1>7
<1>9. n.s.alloc = i.q /\ n.s.free = t.free /\ n.s.tab = t.tab BY <1>6, <1>8
<1>10. Keeps(t.alloc, n.s.alloc) /\ Within(mid, Exts(n.s.alloc))
  BY <1>2, <1>9 DEF Cov, Keeps
<1>11. Grown(t, n.s, M)
  <2>1. Pgs(n.s.alloc) \subseteq Pgs(t.alloc) \cup M /\ AllHeads(n.s) = AllHeads(t)
    BY <1>2, <1>9 DEF AllHeads
  <2> QED BY <2>1, <1>9, GrownSame
<1> QED BY <1>8, <1>10, <1>11 DEF n, i, IsNoted, M

LEMMA Full ==
  ASSUME NEW q, NEW e, Sound(e), ~HasRoom(q, e)
  PROVE  Insert(q, e) = [st |-> "NOMEM", q |-> q]
<1>1. Cardinality(Region(e)) = 1 /\ e.len # 0 BY OneRegion DEF Sound
<1> QED BY <1>1 DEF Insert, HasRoom

LEMMA Room ==
  ASSUME NEW q, NEW e, Sound(e), HasRoom(q, e)
  PROVE  Insert(q, e).st = "OK"
<1>1. Cardinality(Region(e)) = 1 /\ e.len # 0 BY OneRegion DEF Sound
<1> QED BY <1>1 DEF Insert, HasRoom

(* A request that is refused, and undone.                                  *)
Undone(t, wrong, r) ==
  /\ r.addr = BaseAuto /\ (wrong => r.mishap)
  /\ r.mishap \/ (State(r.s, {}) /\ r.s.alloc = t.alloc /\ Grown(t, r.s, {}))

LEMMA UndoneState ==
  ASSUME NEW t, NEW c, NEW e, NEW mid, Sound(e), Plain(e), Sound(mid), IsCut(e, mid, c), NEW N \in SUBSET Pages,
         State(t, PagesOf(mid) \cup N),
         c.left.len = 0 \/ Within(c.left, Exts(t.free)),
         \/ N = {} /\ (c.right.len = 0 \/ Within(c.right, Exts(t.free)))
         \/ N = PagesOf(c.right) /\ c.right.len # 0,
         NEW wrong \in BOOLEAN
  PROVE  Undone(t, wrong, AllocUndone(t, c, wrong))
<1> DEFINE u == Undo(t.alloc, t.free, c)
           r == AllocUndone(t, c, wrong)
<1>1. r = Refused(t, u, wrong) BY DEF AllocUndone
<1>2. Tiled(t.free, t.alloc, PagesOf(mid) \cup N) BY DEF State
<1>3. u.into.st = "OK" => BackAgain(t.free, t.alloc, u) BY <1>2, UndoBack
<1> HIDE DEF u, r
<1>4. /\ r.addr = BaseAuto /\ r.s = [t EXCEPT !.alloc = u.from, !.free = u.into.q]
      /\ r.mishap = (wrong \/ u.into.st # "OK")
  BY <1>1 DEF Refused
<1>5. ASSUME u.into.st = "OK"
      PROVE  State(r.s, {}) /\ r.s.alloc = t.alloc /\ Grown(t, r.s, {})
  <2>1. u.from = t.alloc /\ Tiled(u.into.q, t.alloc, {}) /\ Heads(u.into.q) = Heads(t.free)
    BY <1>3, <1>5 DEF BackAgain
  <2>2. t.tab \in [Pages -> {NoPage} \cup SUBSET {"W"}] BY DEF State, Space
  <2>3. [t EXCEPT !.alloc = t.alloc, !.free = u.into.q] = [free |-> u.into.q, alloc |-> t.alloc, tab |-> t.tab]
    BY <2>1, <2>2, NewState
  <2>4. State([free |-> u.into.q, alloc |-> t.alloc, tab |-> t.tab], {})
    BY <2>1, <2>2, NewState
  <2>5. r.s.alloc = t.alloc /\ r.s.free = u.into.q /\ r.s.tab = t.tab BY <2>1, <2>3, <1>4
  <2>6. AllHeads(r.s) = AllHeads(t) BY <2>1, <2>5 DEF AllHeads
  <2>7. Grown(t, r.s, {}) BY <2>5, <2>6, GrownSame
  <2> QED BY <2>1, <2>3, <2>4, <2>7, <1>4
<1>6. Undone(t, wrong, r) BY <1>4, <1>5 DEF Undone
<1> QED BY <1>6 DEF r

(* The note of what is taken, with the slot it may need.                   *)
LEMMA TakenState ==
  ASSUME NEW t, NEW c, NEW e, NEW mid, Sound(e), Plain(e), Sound(mid), IsCut(e, mid, c), State(t, PagesOf(mid)),
         c.left.len = 0 \/ Within(c.left, Exts(t.free)),
         c.right.len = 0 \/ Within(c.right, Exts(t.free)),
         NEW wrong \in BOOLEAN, NEW ok \in Supply
  PROVE  Kept(t, e, mid, NoteTaken(t, c, wrong, ok))
<1> DEFINE n == NoteTaken(t, c, wrong, ok)
           slot == AllocSlot(t, "alloc", ok)
           i == Insert(slot.s.alloc, mid)
           r == AllocUndone(slot.s, c, wrong)
<1>1. c.mid = mid BY DEF IsCut
<1>2. CASE HasRoom(t.alloc, mid)
  <2>1. n = Noted(t, c, Insert(t.alloc, mid), wrong) BY <1>1, <1>2 DEF NoteTaken
  <2> HIDE DEF n
  <2>0. IsNoted(t, mid, wrong, Noted(t, c, Insert(t.alloc, mid), wrong))
    BY <1>1, <1>2, NotedState
  <2>2. /\ n.addr = mid.base /\ State(n.s, {}) /\ Keeps(t.alloc, n.s.alloc)
        /\ Within(mid, Exts(n.s.alloc)) /\ Grown(t, n.s, PagesOf(mid))
    BY <2>0, <2>1 DEF IsNoted
  <2>3. Kept(t, e, mid, n) BY <2>2 DEF Kept
  <2> QED BY <2>3 DEF n
<1>3. CASE ~HasRoom(t.alloc, mid)
  <2>1. n = Noted(slot.s, c, i, wrong) BY <1>1, <1>3 DEF NoteTaken, NoteInSlot
  <2>2. PagesOf(mid) \in SUBSET Pages BY InPages
  <2>3. Slotted(t, PagesOf(mid), "alloc", ok, slot) BY <2>2, Slotting
  <2> HIDE DEF slot, n
  <2>4. State(slot.s, PagesOf(mid)) /\ Keeps(t.alloc, slot.s.alloc) /\ Grown(t, slot.s, {})
    BY <2>3 DEF Slotted, Progress
  <2>5. CASE slot.st = "OK"
    <3>1. HasRoom(slot.s.alloc, mid) BY <2>3, <2>5 DEF Slotted, HasRoom
    <3>0. IsNoted(slot.s, mid, wrong, Noted(slot.s, c, Insert(slot.s.alloc, mid), wrong))
      BY <2>4, <3>1, <1>1, NotedState
    <3>2. /\ n.addr = mid.base /\ State(n.s, {}) /\ Keeps(slot.s.alloc, n.s.alloc)
          /\ Within(mid, Exts(n.s.alloc)) /\ Grown(slot.s, n.s, PagesOf(mid))
      BY <3>0, <2>1 DEF IsNoted
    <3>4. Keeps(t.alloc, n.s.alloc) BY <2>4, <3>2, KeepsTrans
    <3>5. Grown(t, n.s, {} \cup PagesOf(mid)) BY <2>4, <3>2, GrownTrans
    <3>6. {} \cup PagesOf(mid) = PagesOf(mid) OBVIOUS
    <3>3. Kept(t, e, mid, n) BY <3>2, <3>4, <3>5, <3>6 DEF Kept
    <3> QED BY <3>3 DEF n
  <2>6. CASE slot.st # "OK"
    <3>1. slot.s.alloc = t.alloc /\ Cov(Exts(t.free), Exts(slot.s.free))
      BY <2>3, <2>6 DEF Slotted
    <3>2. i.st # "OK"
      <4>1. ~HasRoom(slot.s.alloc, mid) BY <1>3, <3>1
      <4>2. i = [st |-> "NOMEM", q |-> slot.s.alloc] BY <4>1, Full
      <4> QED BY <4>2
    <3>3. n = r BY <2>1, <3>2 DEF Noted
    <3>4. /\ c.left.len = 0 \/ Within(c.left, Exts(slot.s.free))
          /\ c.right.len = 0 \/ Within(c.right, Exts(slot.s.free))
      BY <3>1, WithinTrans
    <3>5. State(slot.s, PagesOf(mid) \cup {}) BY <2>4
    <3>60. Undone(slot.s, wrong, r)
      <4> DEFINE z == slot.s
                 N == {}
      <4>1. /\ State(z, PagesOf(mid) \cup N) /\ N \in SUBSET Pages /\ N = {}
            /\ c.left.len = 0 \/ Within(c.left, Exts(z.free))
            /\ c.right.len = 0 \/ Within(c.right, Exts(z.free))
        BY <3>4, <3>5
      <4> HIDE DEF z, N
      <4>2. Undone(z, wrong, AllocUndone(z, c, wrong)) BY <4>1, UndoneState
      <4> QED BY <4>2 DEF z
    <3> HIDE DEF r
    <3>6. r.addr = BaseAuto /\ (r.mishap \/ (State(r.s, {}) /\ r.s.alloc = slot.s.alloc /\ Grown(slot.s, r.s, {})))
      BY <3>60 DEF Undone
    <3>8. ASSUME ~n.mishap
          PROVE  Grown(t, n.s, {}) /\ Keeps(t.alloc, n.s.alloc) /\ PagesOf(mid) \cap Pgs(n.s.alloc) = {}
      <4>1. n.s.alloc = t.alloc /\ Grown(slot.s, n.s, {}) BY <3>1, <3>3, <3>6, <3>8
      <4>2. Keeps(slot.s.alloc, n.s.alloc) BY <4>1, <3>1, KeepsSelf
      <4>3. Grown(t, n.s, {} \cup {}) BY <4>1, <4>2, <2>4, GrownTrans
      <4>4. PagesOf(mid) \cap Pgs(n.s.alloc) = {} BY <4>1, <3>1, <2>4 DEF State, Tiled
      <4> QED BY <4>1, <4>3, <4>4, KeepsSelf
    <3>7. Kept(t, e, mid, n) BY <3>1, <3>3, <3>6, <3>8 DEF Kept
    <3> QED BY <3>7 DEF n
  <2> QED BY <2>5, <2>6
<1> QED BY <1>2, <1>3

LEMMA WrongStays ==
  ASSUME NEW t, NEW c, NEW ok
  PROVE  NoteTaken(t, c, TRUE, ok).mishap
BY DEF NoteTaken, NoteInSlot, Noted, AllocUndone, Refused

LEMMA SlotRecord ==
  ASSUME NEW s, NEW list, NEW ok
  PROVE  LET t == AllocSlot(s, list, ok) IN t = [st |-> t.st, s |-> t.s]
<1>1. \A u, l : LET t == AllocTracking(u, l, ok) IN t = [st |-> t.st, s |-> t.s]
  BY DEF AllocTracking, TrackIn
<1> QED BY <1>1 DEF AllocSlot, SlotOr, SlotAfter

(* The right part goes back to the free list, where there is room.         *)
RightIn(t, right, M, u) ==
  /\ State(u, M) /\ u.alloc = t.alloc /\ Grown(t, u, {}) /\ u.tab = t.tab
  /\ right.len = 0 \/ Within(right, Exts(u.free))
  /\ \A x \in Exts(t.free) : Within(x, Exts(u.free))

LEMMA RightKept ==
  ASSUME NEW t, NEW right \in Ext, NEW M, State(t, M \cup PagesOf(right)), M \cap PagesOf(right) = {},
         M \in SUBSET Pages, right.len = 0 \/ (Sound(right) /\ Plain(right)), HasRoom(t.free, right)
  PROVE  RightIn(t, right, M, [t EXCEPT !.free = Insert(@, right).q])
<1> DEFINE i == Insert(t.free, right).q
           u == [t EXCEPT !.free = i]
<1>1. t.tab \in [Pages -> {NoPage} \cup SUBSET {"W"}] /\ Tiled(t.free, t.alloc, M \cup PagesOf(right))
  BY DEF State, Space
<1>2. /\ Tiled(i, t.alloc, M) /\ (right.len = 0 \/ Within(right, Exts(i)))
      /\ \A x \in Exts(t.free) : Within(x, Exts(i))
      /\ Heads(i) = Heads(t.free)
  <2>1. CASE right.len = 0
    <3>1. i = t.free BY <2>1, InsertNone
    <3>2. PagesOf(right) = {} BY <2>1 DEF PagesOf, Ext
    <3>3. M \cup {} = M OBVIOUS
    <3> QED BY <1>1, <2>1, <3>1, <3>2, <3>3, WithinSelf
  <2>2. CASE right.len # 0
    <3>1. Sound(right) /\ Plain(right) BY <2>2
    <3>2. M \cup PagesOf(right) \in SUBSET Pages BY <3>1, InPages
    <3>0. Insert(t.free, right).st = "OK" BY <3>1, Room
    <3> DEFINE K == M \cup PagesOf(right)
    <3>9. Tiled(t.free, t.alloc, K) /\ K \in SUBSET Pages /\ PagesOf(right) \subseteq K
      BY <1>1, <3>2
    <3>4. K \ PagesOf(right) = M OBVIOUS
    <3> HIDE DEF K
    <3>3. Tiled(i, t.alloc, K \ PagesOf(right)) /\ Cov(Exts(t.free) \cup {right}, Exts(i))
      BY <3>0, <3>1, <3>9, FreeIn
    <3>7. Heads(i) = Heads(t.free) BY <3>1, <3>9, FreeInHeads
    <3> HIDE DEF i
    <3>5. Tiled(i, t.alloc, M) BY <3>3, <3>4
    <3>6. \A x \in Exts(t.free) \cup {right} : Within(x, Exts(i)) BY <3>3 DEF Cov
    <3> QED BY <3>5, <3>6, <3>7
  <2> QED BY <2>1, <2>2
<1> HIDE DEF i
<1>3. u = [free |-> i, alloc |-> t.alloc, tab |-> t.tab] /\ State([free |-> i, alloc |-> t.alloc, tab |-> t.tab], M)
  BY <1>1, <1>2, NewState
<1> HIDE DEF u
<1>4. State(u, M) /\ u.alloc = t.alloc /\ u.free = i /\ u.tab = t.tab BY <1>3
<1>5. u = [t EXCEPT !.free = Insert(@, right).q] BY DEF u, i
<1>6. Grown(t, u, {})
  <2>1. AllHeads(u) = AllHeads(t) /\ Pgs(u.alloc) = Pgs(t.alloc)
    BY <1>2, <1>4 DEF AllHeads
  <2> QED BY <2>1, <1>4, GrownSame
<1>7. RightIn(t, right, M, u) BY <1>2, <1>4, <1>6 DEF RightIn
<1> QED BY <1>5, <1>7

LEMMA KeptAfter ==
  ASSUME NEW t, NEW u, NEW e, NEW mid, NEW r, Grown(t, u, {}), u.alloc = t.alloc, Kept(u, e, mid, r)
  PROVE  Kept(t, e, mid, r)
<1>1. Keeps(t.alloc, u.alloc) BY KeepsSelf
<1>2. CASE r.mishap BY <1>2 DEF Kept
<1>3. CASE ~r.mishap
  <2>1. State(r.s, {}) /\ Keeps(u.alloc, r.s.alloc) BY <1>3 DEF Kept
  <2>2. CASE r.addr = mid.base /\ Within(mid, Exts(r.s.alloc)) /\ Grown(u, r.s, PagesOf(mid))
    <3>1. Grown(t, r.s, {} \cup PagesOf(mid)) BY <2>1, <2>2, GrownTrans
    <3>2. {} \cup PagesOf(mid) = PagesOf(mid) OBVIOUS
    <3> QED BY <2>1, <2>2, <3>1, <3>2 DEF Kept
  <2>3. CASE /\ r.addr = BaseAuto /\ (r.s.alloc = u.alloc \/ "HIGH" \notin e.flags)
             /\ Grown(u, r.s, {}) /\ PagesOf(mid) \cap Pgs(r.s.alloc) = {}
    <3>1. Grown(t, r.s, {} \cup {}) BY <2>1, <2>3, GrownTrans
    <3> QED BY <2>1, <2>3, <3>1 DEF Kept
  <2> QED BY <1>3, <2>2, <2>3 DEF Kept
<1> QED BY <1>2, <1>3

(* The right part goes back to the free list, with the slot it may need.   *)
LEMMA KeepRightState ==
  ASSUME NEW t, NEW c, NEW e, NEW mid, Sound(e), Plain(e), Sound(mid), IsCut(e, mid, c),
         State(t, PagesOf(mid) \cup PagesOf(c.right)),
         c.left.len = 0 \/ Within(c.left, Exts(t.free)),
         c.right.len = 0 \/ "HIGH" \notin e.flags \/ Roomy(t.alloc) # {}, NEW ok \in Supply
  PROVE  Kept(t, e, mid, KeepRight(t, c, ok))
<1> DEFINE M == PagesOf(mid)
           right == c.right
           n == KeepRight(t, c, ok)
           u == [t EXCEPT !.free = Insert(@, right).q]
           slot == AllocSlot(t, "free", ok)
           k == InSlot(slot, c)
<1>1. /\ right \in Ext /\ Alike(right, e) /\ Alike(c.left, e) /\ (right.len = 0 \/ Sound(right))
      /\ M \in SUBSET Pages /\ M \cap PagesOf(right) = {}
  BY InPages DEF IsCut
<1>2. right.len = 0 \/ (Sound(right) /\ Plain(right)) BY <1>1 DEF Plain, Alike, Region
<1>3. CASE HasRoom(t.free, right)
  <2>1. n = NoteTaken(u, c, FALSE, ok) BY <1>3 DEF KeepRight
  <2>20. RightIn(t, right, M, u) BY <1>1, <1>2, <1>3, RightKept
  <2> HIDE DEF u, n
  <2>2. /\ State(u, M) /\ u.alloc = t.alloc /\ Grown(t, u, {})
        /\ right.len = 0 \/ Within(right, Exts(u.free))
        /\ \A x \in Exts(t.free) : Within(x, Exts(u.free))
    BY <2>20 DEF RightIn
  <2>3. c.left.len = 0 \/ Within(c.left, Exts(u.free)) BY <2>2, WithinCov
  <2>4. Kept(u, e, mid, NoteTaken(u, c, FALSE, ok)) BY <2>2, <2>3, TakenState
  <2>6. n = NoteTaken(u, c, FALSE, ok) BY <2>1
  <2>5. Kept(t, e, mid, n) BY <2>2, <2>4, <2>6, KeptAfter
  <2> QED BY <2>5 DEF n
<1>4. CASE ~HasRoom(t.free, right)
  <2>1. n = KeptRight(k, c, TRUE, ok) BY <1>4 DEF KeepRight
  <2>2. right.len # 0 /\ Sound(right) BY <1>1, <1>4 DEF HasRoom
  <2>3. PagesOf(right) \in SUBSET Pages /\ M \cup PagesOf(right) \in SUBSET Pages
    BY <1>1, <2>2, InPages
  <2>4. Slotted(t, M \cup PagesOf(right), "free", ok, slot) BY <2>3, Slotting
  <2>5. slot = [st |-> slot.st, s |-> slot.s] BY SlotRecord
  <2>6. CASE slot.st = "OK"
    <3>1. k = [slot EXCEPT !.s.free = Insert(@, c.left).q] BY <2>6 DEF InSlot
    <3> HIDE DEF slot, k, n
    <3>2. k.st = "OK" BY <2>5, <2>6, <3>1
    <3>3. n = NoteTaken(k.s, c, TRUE, ok) BY <2>1, <3>2 DEF KeptRight
    <3>4. n.mishap BY <3>3, WrongStays
    <3>5. Kept(t, e, mid, n) BY <3>4 DEF Kept
    <3> QED BY <3>5 DEF n
  <2>7. CASE slot.st # "OK"
    <3>1. k = slot BY <2>7 DEF InSlot
    <3> HIDE DEF slot, k, n
    <3>2. n = AllocUndone(slot.s, c, FALSE) BY <2>1, <2>7, <3>1 DEF KeptRight
    <3>3. State(slot.s, M \cup PagesOf(right)) /\ Progress(t, slot.s) BY <2>4 DEF Slotted
    <3>4. \/ slot.s.alloc = t.alloc /\ Cov(Exts(t.free), Exts(slot.s.free))
          \/ "HIGH" \notin e.flags
      <4>1. \/ slot.s.alloc = t.alloc /\ Cov(Exts(t.free), Exts(slot.s.free))
            \/ Roomy(t.alloc) = {}
        BY <2>4, <2>7 DEF Slotted
      <4> QED BY <4>1, <2>2
    <3>5. c.left.len = 0 \/ Within(c.left, Exts(slot.s.free))
      <4>1. CASE c.left.len # 0 /\ Cov(Exts(t.free), Exts(slot.s.free))
        BY <4>1, WithinTrans
      <4>2. CASE c.left.len # 0 /\ "HIGH" \notin e.flags
        <5>1. "HIGH" \notin c.left.flags BY <4>2, <1>1 DEF Alike
        <5>2. PICK x \in Exts(t.free) : PagesOf(c.left) \subseteq PagesOf(x) /\ Alike(c.left, x)
          BY <4>2 DEF Within
        <5>3. "HIGH" \notin x.flags BY <5>1, <5>2 DEF Alike
        <5>4. Within(x, Exts(slot.s.free)) BY <3>3, <5>3 DEF Progress, KeepsLow
        <5> QED BY <5>2, <5>4 DEF Within, Alike
      <4> QED BY <3>4, <4>1, <4>2
    <3>6. Undone(slot.s, FALSE, n) BY <2>2, <2>3, <3>2, <3>3, <3>5, UndoneState
    <3>8. ASSUME ~n.mishap
          PROVE  Grown(t, n.s, {}) /\ Keeps(t.alloc, n.s.alloc) /\ PagesOf(mid) \cap Pgs(n.s.alloc) = {}
      <4>1. n.s.alloc = slot.s.alloc /\ Grown(slot.s, n.s, {}) BY <3>6, <3>8 DEF Undone
      <4>2. Keeps(slot.s.alloc, n.s.alloc) BY <4>1, KeepsSelf
      <4>3. Grown(t, slot.s, {}) /\ Keeps(t.alloc, slot.s.alloc) BY <3>3 DEF Progress
      <4>4. Grown(t, n.s, {} \cup {}) BY <4>1, <4>2, <4>3, GrownTrans
      <4>5. PagesOf(mid) \cap Pgs(n.s.alloc) = {} BY <4>1, <3>3 DEF State, Tiled
      <4> QED BY <4>1, <4>3, <4>4, <4>5
    <3>7. Kept(t, e, mid, n) BY <3>2, <3>4, <3>6, <3>8 DEF Kept, Undone
    <3> QED BY <3>7 DEF n
  <2> QED BY <2>6, <2>7
<1> QED BY <1>3, <1>4

(* A request can be undone if it is refused: it lets the code choose, or   *)
(* is for the low region, or the slot of the allocated list will not be    *)
(* cut from beside it.                                                     *)
Closed(F, at, len) == \E Z \in {High, Low} :
  at .. at + len - 1 \subseteq Z /\ (at - 1 \notin F \cap Z \/ at + len \notin F \cap Z)
Safe(s, at, len) ==
  at = BaseAuto \/ at \in Low \/ Roomy(s.alloc) # {} \/ Closed(Pgs(s.free), at, len)

LEMMA NotAuto == \A n \in Nat : n # BaseAuto
BY DEF BaseAuto

LEMMA RegionZone ==
  ASSUME NEW x, NEW y, Region(x) = Region(y)
  PROVE  Zone(x) = Zone(y)
BY DEF Region, Zone

LEMMA MiddleSound ==
  ASSUME NEW e, Sound(e), NEW addr \in {BaseAuto} \cup Nat, NEW len \in Nat \ {0},
         NEW flags \in SUBSET Flags, NEW prot \in SUBSET {"W"},
         addr = BaseAuto => e.len >= len, addr # BaseAuto => InRange(e, addr, len)
  PROVE  LET mid == Middle(e, addr, len, flags, prot) IN
         /\ Sound(mid) /\ InRange(e, mid.base, mid.len) /\ mid.base \in Nat /\ mid.len = len
         /\ mid.base = IF addr = BaseAuto THEN e.base ELSE addr
<1> DEFINE mid == Middle(e, addr, len, flags, prot)
           b == IF addr = BaseAuto THEN e.base ELSE addr
           g == (flags \ {"LOW", "HIGH"}) \cup Region(e)
<1>1. e.base \in Nat /\ e.len \in Nat /\ PagesOf(e) \subseteq Zone(e) /\ Region(e) \in {{"LOW"}, {"HIGH"}}
  BY DEF Sound, Ext
<1>2. mid = [base |-> b, len |-> len, flags |-> g, prot |-> prot] BY DEF Middle
<1>3. b \in Nat /\ InRange(e, b, len) BY <1>1 DEF InRange
<1>4. g \in SUBSET Flags /\ g \cap {"LOW", "HIGH"} = Region(e) BY <1>1 DEF Flags
<1> HIDE DEF mid, b, g
<1>5. mid.base = b /\ mid.len = len /\ mid.flags = g /\ mid \in Ext
  BY <1>2, <1>3, <1>4 DEF Ext
<1>6. Region(mid) = Region(e) BY <1>4, <1>5 DEF Region
<1>7. PagesOf(mid) \subseteq PagesOf(e) BY <1>1, <1>3, <1>5 DEF PagesOf, InRange
<1>8. Sound(mid) BY <1>1, <1>5, <1>6, <1>7, RegionZone DEF Sound
<1> QED BY <1>3, <1>5, <1>8 DEF mid, b

(* The left part goes back first.                                          *)
LeftIn(s, mid, c, t) ==
  /\ State(t, PagesOf(mid) \cup PagesOf(c.right)) /\ t.alloc = s.alloc /\ t.tab = s.tab
  /\ c.left.len = 0 \/ Within(c.left, Exts(t.free))
  /\ Grown(s, t, {})

LEMMA LeftKept ==
  ASSUME NEW s, State(s, {}), NEW req, Extract(s.free, req).st = "OK", NEW mid, NEW c,
         IsCut(Extract(s.free, req).ext, mid, c)
  PROVE  LeftIn(s, mid, c, [s EXCEPT !.free = Insert(Extract(s.free, req).q, c.left).q])
<1> DEFINE r == Extract(s.free, req)
           e == r.ext
           left == c.left
           i == Insert(r.q, left).q
           t == [s EXCEPT !.free = i]
           N == PagesOf(mid) \cup PagesOf(c.right)
<1>1. s.tab \in [Pages -> {NoPage} \cup SUBSET {"W"}] /\ Tiled(s.free, s.alloc, {})
  BY DEF State, Space
<1>2. /\ Tiled(r.q, s.alloc, {} \cup PagesOf(e)) /\ Sound(e) /\ Plain(e) /\ Roomy(r.q) # {}
      /\ PagesOf(e) \subseteq Pages \ {} /\ Heads(r.q) = Heads(s.free)
  BY <1>1, FreeOut
<1>3. /\ left \in Ext /\ Alike(left, e) /\ (left.len = 0 \/ Sound(left))
      /\ PagesOf(left) \cup PagesOf(c.right) = PagesOf(e) \ PagesOf(mid)
      /\ PagesOf(left) \cap PagesOf(c.right) = {} /\ PagesOf(mid) \subseteq PagesOf(e)
  BY DEF IsCut
<1> HIDE DEF e, left, r
<1> DEFINE K == PagesOf(e)
<1>4. /\ K \in SUBSET Pages /\ Tiled(r.q, s.alloc, K) /\ PagesOf(left) \subseteq K
      /\ K \ PagesOf(left) = N
  <2>1. {} \cup PagesOf(e) = PagesOf(e) OBVIOUS
  <2> QED BY <2>1, <1>2, <1>3
<1> HIDE DEF K, N
<1>5. Tiled(i, s.alloc, N) /\ (left.len = 0 \/ Within(left, Exts(i))) /\ Heads(i) = Heads(s.free)
  <2>1. CASE left.len = 0
    <3>1. i = r.q BY <2>1, InsertNone
    <3>2. PagesOf(left) = {} BY <2>1, <1>3 DEF PagesOf, Ext
    <3>3. K = N BY <3>2, <1>4
    <3> QED BY <1>2, <1>4, <2>1, <3>1, <3>3
  <2>2. CASE left.len # 0
    <3>1. Sound(left) /\ Plain(left) BY <1>2, <1>3, <2>2 DEF Plain, Alike, Region
    <3>2. HasRoom(r.q, left) BY <1>2 DEF HasRoom
    <3>3. Insert(r.q, left).st = "OK" BY <3>1, <3>2, Room
    <3>4. Tiled(i, s.alloc, K \ PagesOf(left)) /\ Cov(Exts(r.q) \cup {left}, Exts(i))
      BY <1>4, <3>1, <3>3, FreeIn
    <3>6. Heads(i) = Heads(r.q) BY <1>4, <3>1, FreeInHeads
    <3> HIDE DEF i
    <3>5. Within(left, Exts(i)) BY <3>4 DEF Cov
    <3> QED BY <1>2, <1>4, <3>4, <3>5, <3>6
  <2> QED BY <2>1, <2>2
<1> HIDE DEF i
<1>6. t = [free |-> i, alloc |-> s.alloc, tab |-> s.tab] /\ State([free |-> i, alloc |-> s.alloc, tab |-> s.tab], N)
  BY <1>1, <1>5, NewState
<1> HIDE DEF t
<1>7. State(t, N) /\ t.alloc = s.alloc /\ t.free = i /\ t.tab = s.tab BY <1>6
<1>8. t = [s EXCEPT !.free = Insert(Extract(s.free, req).q, c.left).q]
  BY DEF t, i, r, left
<1>9. Grown(s, t, {})
  <2>1. AllHeads(t) = AllHeads(s) /\ Pgs(t.alloc) = Pgs(s.alloc)
    BY <1>5, <1>7 DEF AllHeads
  <2> QED BY <2>1, <1>7, GrownSame
<1>10. LeftIn(s, mid, c, t) BY <1>5, <1>7, <1>9 DEF LeftIn, N, left
<1> QED BY <1>8, <1>10

(* A part on both sides means that the pages beside the middle are free.   *)
LEMMA BothSides ==
  ASSUME NEW e, Sound(e), NEW mid, Sound(mid), NEW c, IsCut(e, mid, c), c.right.len # 0
  PROVE  /\ mid.base - 1 \in PagesOf(e) /\ mid.base + mid.len \in PagesOf(e)
         /\ mid.base # e.base
<1>1. /\ c.left \in Ext /\ Sound(c.left) /\ Sound(c.right) /\ c.left.len > 0
      /\ c.left.base + c.left.len = mid.base /\ c.right.base = mid.base + mid.len
      /\ c.left.base = e.base
      /\ PagesOf(c.left) \cup PagesOf(c.right) \subseteq PagesOf(e)
  BY DEF IsCut, Ext
<1>2. c.left.base \in Nat /\ c.left.len \in Nat /\ mid.base \in Nat /\ mid.len \in Nat
  BY <1>1 DEF Sound, Ext
<1>3. c.left.base + c.left.len - 1 \in PagesOf(e) /\ c.right.base \in PagesOf(e)
  BY <1>1, SoundPages
<1> QED BY <1>1, <1>2, <1>3

(* t has what s has, and an extent with the range that was asked for.      *)
Given(s, t, at, len, flags, prot) ==
  /\ Keeps(s.alloc, t.alloc) /\ Grown(s, t, Span(at, len))
  /\ Span(at, len) \subseteq Pages \ Pgs(s.alloc)
  /\ \E y \in Exts(t.alloc) : /\ Span(at, len) \subseteq PagesOf(y) /\ y.prot = prot
                             /\ ("LOCKED" \in y.flags <=> "LOCKED" \in flags)

(* t has what s has, and no new page of the range.                         *)
Denied(s, t, addr, len) ==
  /\ Keeps(s.alloc, t.alloc) /\ Grown(s, t, {}) /\ Safe(t, addr, len)
  /\ addr = BaseAuto \/ Span(addr, len) \cap Pgs(t.alloc) \subseteq Pgs(s.alloc)

Allocated(s, addr, len, flags, prot, r) ==
  \/ r.mishap
  \/ /\ State(r.s, {})
     /\ \/ r.addr = BaseAuto /\ Denied(s, r.s, addr, len)
        \/ /\ r.addr \in Nat /\ (addr = BaseAuto \/ r.addr = addr)
           /\ Given(s, r.s, r.addr, len, flags, prot)

(* vm_space_alloc.                                                         *)
LEMMA AllocState ==
  ASSUME NEW s, State(s, {}), NEW addr \in {BaseAuto} \cup Nat, NEW len \in Nat \ {0},
         NEW flags \in SUBSET Flags, NEW prot \in SUBSET {"W"}, Safe(s, addr, len), NEW ok \in Supply
  PROVE  Allocated(s, addr, len, flags, prot, SpaceAlloc(s, addr, len, flags, prot, ok))
<1> DEFINE req == [base |-> addr, len |-> len, prot |-> {}, flags |-> Wanted(addr, flags) \cap {"LOW", "HIGH"}]
           r == Extract(s.free, req)
           e == r.ext
           mid == Middle(e, addr, len, flags, prot)
           c == Cut(e, mid)
           t == [s EXCEPT !.free = Insert(r.q, c.left).q]
           n == SpaceAlloc(s, addr, len, flags, prot, ok)
<1>1. n = AllocFrom(s, r, addr, len, flags, prot, ok) BY DEF SpaceAlloc
<1>2. CASE r.st # "OK"
  <2>1. n = [addr |-> BaseAuto, s |-> s, mishap |-> FALSE] BY <1>1, <1>2 DEF AllocFrom
  <2> HIDE DEF n
  <2>3. Keeps(s.alloc, s.alloc) /\ Grown(s, s, {}) BY KeepsSelf, GrownSame
  <2>4. Denied(s, s, addr, len) BY <2>3 DEF Denied
  <2>2. Allocated(s, addr, len, flags, prot, n) BY <2>1, <2>4 DEF Allocated
  <2> QED BY <2>2 DEF n
<1>3. CASE r.st = "OK"
  <2>1. n = KeepRight(t, c, ok) BY <1>1, <1>3 DEF AllocFrom, KeepLeft
  <2>2. Tiled(s.free, s.alloc, {}) BY DEF State
  <2>0. req.base = addr /\ req.len = len OBVIOUS
  <2> HIDE DEF req, n
  <2>3. Sound(e) /\ Plain(e) /\ e \in Exts(s.free) /\ Fits(e, req) BY <2>2, <1>3, FreeOut
  <2> HIDE DEF e, r
  <2>4. /\ addr = BaseAuto => e.len >= len
        /\ addr # BaseAuto => InRange(e, addr, len)
    <3> QED BY <2>0, <2>3 DEF Fits
  <2>5. /\ Sound(mid) /\ InRange(e, mid.base, mid.len) /\ mid.base \in Nat /\ mid.len = len
        /\ mid.base = IF addr = BaseAuto THEN e.base ELSE addr
    BY <2>3, <2>4, MiddleSound
  <2>50. mid.prot = prot /\ ("LOCKED" \in mid.flags <=> "LOCKED" \in flags)
    BY DEF Middle, Region
  <2> HIDE DEF mid
  <2>6. IsCut(e, mid, c) BY <2>3, <2>5, CutParts
  <2> HIDE DEF c
  <2>70. LeftIn(s, mid, c, t) BY <1>3, <2>6, LeftKept DEF e, r
  <2> HIDE DEF t
  <2>7. /\ State(t, PagesOf(mid) \cup PagesOf(c.right)) /\ t.alloc = s.alloc
        /\ c.left.len = 0 \/ Within(c.left, Exts(t.free))
    BY <2>70 DEF LeftIn
  <2>8. mid.base \in PagesOf(e) /\ PagesOf(mid) \subseteq PagesOf(e) /\ PagesOf(e) \subseteq Zone(e)
    BY <2>3, <2>5, <2>6, SoundPages DEF IsCut, Sound
  <2>9. "HIGH" \notin e.flags => addr = BaseAuto \/ addr \in Low BY <2>5, <2>8 DEF Zone
  <2>10. c.right.len = 0 \/ "HIGH" \notin e.flags \/ Roomy(t.alloc) # {}
    <3>1. CASE addr = BaseAuto BY <3>1, <2>3, <2>5, <2>6, BothSides
    <3>2. CASE addr # BaseAuto /\ addr \in Low
      <4>1. addr \in Zone(e) BY <2>5, <2>8, <3>2
      <4> QED BY <4>1, <3>2, PageAssumption DEF Zone
    <3>3. CASE Roomy(s.alloc) # {} BY <3>3, <2>7
    <3>4. CASE addr # BaseAuto /\ Closed(Pgs(s.free), addr, len)
      <4>1. SUFFICES ASSUME c.right.len # 0 PROVE FALSE OBVIOUS
      <4>2. mid.base = addr BY <2>5, <3>4
      <4>3. addr - 1 \in PagesOf(e) /\ addr + len \in PagesOf(e)
        BY <2>3, <2>5, <2>6, <4>1, <4>2, BothSides
      <4>4. PagesOf(e) \subseteq Pgs(s.free) BY <2>3 DEF Pgs
      <4>5. PICK Z \in {High, Low} : /\ addr .. addr + len - 1 \subseteq Z
                                     /\ addr - 1 \notin Pgs(s.free) \cap Z \/ addr + len \notin Pgs(s.free) \cap Z
        BY <3>4 DEF Closed
      <4>6. addr \in Z
        <5>1. addr \in Nat BY <3>4
        <5>2. addr \in addr .. addr + len - 1 BY <5>1
        <5> QED BY <5>2, <4>5
      <4>7. Z = Zone(e) BY <4>2, <4>6, <2>8, PageAssumption DEF Zone
      <4> QED BY <4>3, <4>4, <4>5, <4>7, <2>8
    <3> QED BY <3>1, <3>2, <3>3, <3>4 DEF Safe
  <2>11. Kept(s, e, mid, n)
    <3>1. Kept(t, e, mid, n) BY <2>1, <2>3, <2>5, <2>6, <2>7, <2>10, KeepRightState
    <3> QED BY <3>1, <2>70, KeptAfter DEF LeftIn
  <2>12. ASSUME n.s.alloc = s.alloc, State(n.s, {}) PROVE Safe(n.s, addr, len)
    <3>1. n.s.alloc = s.alloc BY <2>12
    <3>2. Tiled(n.s.free, s.alloc, {}) BY <3>1, <2>12 DEF State
    <3>3. Pgs(n.s.free) = Pgs(s.free) BY <2>2, <3>2 DEF Tiled
    <3> QED BY <3>1, <3>3 DEF Safe
  <2>13. ASSUME "HIGH" \notin e.flags PROVE Safe(n.s, addr, len) BY <2>9, <2>13 DEF Safe
  <2>15. PagesOf(mid) = Span(mid.base, len) BY <2>5 DEF PagesOf, Span
  <2>16. ASSUME State(n.s, {}), Keeps(s.alloc, n.s.alloc), n.addr = mid.base, Within(mid, Exts(n.s.alloc)), Grown(s, n.s, PagesOf(mid))
         PROVE  Allocated(s, addr, len, flags, prot, n)
    <3>1. PICK y \in Exts(n.s.alloc) : PagesOf(mid) \subseteq PagesOf(y) /\ Alike(mid, y)
      BY <2>16 DEF Within
    <3>2. y.prot = prot /\ ("LOCKED" \in y.flags <=> "LOCKED" \in flags)
      BY <3>1, <2>50 DEF Alike
    <3>3. PagesOf(mid) \subseteq Pages \ Pgs(s.alloc)
      <4>1. PagesOf(mid) \subseteq Pgs(s.free) BY <2>3, <2>8 DEF Pgs
      <4> QED BY <4>1, <2>2 DEF Tiled
    <3>4. Given(s, n.s, mid.base, len, flags, prot)
      BY <3>1, <3>2, <3>3, <2>15, <2>16 DEF Given
    <3> QED BY <3>4, <2>5, <2>16 DEF Allocated
  <2>17. ASSUME State(n.s, {}), Keeps(s.alloc, n.s.alloc), n.addr = BaseAuto, n.s.alloc = s.alloc \/ "HIGH" \notin e.flags,
                Grown(s, n.s, {}), PagesOf(mid) \cap Pgs(n.s.alloc) = {}
         PROVE  Allocated(s, addr, len, flags, prot, n)
    <3>1. Safe(n.s, addr, len) BY <2>12, <2>13, <2>17
    <3>2. addr = BaseAuto \/ Span(addr, len) \cap Pgs(n.s.alloc) = {}
      BY <2>5, <2>15, <2>17
    <3>3. Denied(s, n.s, addr, len) BY <3>1, <3>2, <2>17 DEF Denied
    <3> QED BY <3>3, <2>17 DEF Allocated
  <2>18. n.mishap => Allocated(s, addr, len, flags, prot, n) BY DEF Allocated
  <2>14. Allocated(s, addr, len, flags, prot, n) BY <2>11, <2>16, <2>17, <2>18 DEF Kept
  <2> QED BY <2>14 DEF n
<1> QED BY <1>2, <1>3

-------------------------------------------------------------------------------
(* vm_space_free: the note of what is given back.                          *)

LEMMA AllocInHeads ==
  ASSUME NEW f, NEW a, NEW M \in SUBSET Pages, Tiled(f, a, M), NEW e, Sound(e), PagesOf(e) \subseteq M
  PROVE  Heads(Insert(a, e).q) = Heads(a)
<1> DEFINE i == Insert(a, e)
<1>1. Listed(a, AllocPerSlot) /\ Pgs(a) \cap M = {} BY DEF Tiled
<1>2. \A x \in Exts(a) : Apart(e, x) BY <1>1 DEF Pgs, Apart
<1>3. Heads(i.q) = Heads(a) BY <1>1, <1>2, Sizes, InsertList
<1> QED BY <1>3

(* The left part stays allocated.                                          *)
FirstIn(s, e, mid, c, t) ==
  /\ State(t, PagesOf(mid) \cup PagesOf(c.right)) /\ Grown(s, t, {})
  /\ c.left.len = 0 \/ Within(c.left, Exts(t.alloc))
  /\ c.left.len = 0 => Roomy(t.alloc) # {}
  /\ \A x \in Exts(s.alloc) \ {e} : Within(x, Exts(t.alloc))

LEMMA FirstKept ==
  ASSUME NEW s, State(s, {}), NEW req, Extract(s.alloc, req).st = "OK", NEW mid, NEW c,
         IsCut(Extract(s.alloc, req).ext, mid, c)
  PROVE  FirstIn(s, Extract(s.alloc, req).ext, mid, c,
                 [s EXCEPT !.alloc = Insert(Extract(s.alloc, req).q, c.left).q])
<1> DEFINE r == Extract(s.alloc, req)
           e == r.ext
           left == c.left
           i == Insert(r.q, left).q
           t == [s EXCEPT !.alloc = i]
           N == PagesOf(mid) \cup PagesOf(c.right)
<1>1. s.tab \in [Pages -> {NoPage} \cup SUBSET {"W"}] /\ Tiled(s.free, s.alloc, {})
  BY DEF State, Space
<1>2. /\ Tiled(s.free, r.q, {} \cup PagesOf(e)) /\ Sound(e) /\ Roomy(r.q) # {}
      /\ PagesOf(e) \subseteq Pages \ {} /\ Heads(r.q) = Heads(s.alloc)
      /\ e \in Exts(s.alloc) /\ Exts(r.q) = Exts(s.alloc) \ {e}
  BY <1>1, AllocOut
<1>3. /\ left \in Ext /\ (left.len = 0 \/ Sound(left))
      /\ PagesOf(left) \cup PagesOf(c.right) = PagesOf(e) \ PagesOf(mid)
      /\ PagesOf(left) \cap PagesOf(c.right) = {} /\ PagesOf(mid) \subseteq PagesOf(e)
  BY DEF IsCut
<1> HIDE DEF e, left, r
<1> DEFINE K == PagesOf(e)
<1>4. /\ K \in SUBSET Pages /\ Tiled(s.free, r.q, K) /\ PagesOf(left) \subseteq K
      /\ K \ PagesOf(left) = N
  <2>1. {} \cup PagesOf(e) = PagesOf(e) OBVIOUS
  <2> QED BY <2>1, <1>2, <1>3
<1> HIDE DEF K, N
<1>5. /\ Tiled(s.free, i, N) /\ (left.len = 0 \/ Within(left, Exts(i))) /\ (left.len = 0 => Roomy(i) # {})
      /\ Heads(i) = Heads(s.alloc) /\ \A x \in Exts(r.q) : Within(x, Exts(i))
  <2>1. CASE left.len = 0
    <3>1. i = r.q BY <2>1, InsertNone
    <3>2. PagesOf(left) = {} BY <2>1, <1>3 DEF PagesOf, Ext
    <3>3. K = N BY <3>2, <1>4
    <3> QED BY <1>2, <1>4, <2>1, <3>1, <3>3, WithinSelf
  <2>2. CASE left.len # 0
    <3>1. Sound(left) BY <1>3, <2>2
    <3>2. HasRoom(r.q, left) BY <1>2 DEF HasRoom
    <3>3. Insert(r.q, left).st = "OK" BY <3>1, <3>2, Room
    <3>4. Tiled(s.free, i, K \ PagesOf(left)) /\ Cov(Exts(r.q) \cup {left}, Exts(i))
      BY <1>4, <3>1, <3>3, AllocIn
    <3>5. Heads(i) = Heads(r.q) BY <1>4, <3>1, AllocInHeads
    <3> HIDE DEF i
    <3>6. \A x \in Exts(r.q) \cup {left} : Within(x, Exts(i)) BY <3>4 DEF Cov
    <3> QED BY <1>2, <1>4, <3>4, <3>5, <3>6, <2>2
  <2> QED BY <2>1, <2>2
<1> HIDE DEF i
<1>6. t = [free |-> s.free, alloc |-> i, tab |-> s.tab] /\ State([free |-> s.free, alloc |-> i, tab |-> s.tab], N)
  <2>1. State([free |-> s.free, alloc |-> i, tab |-> s.tab], N) BY <1>1, <1>5, NewState
  <2>2. s \in Space BY DEF State
  <2>3. t = [free |-> s.free, alloc |-> i, tab |-> s.tab] BY <2>2 DEF Space
  <2> QED BY <2>1, <2>3
<1> HIDE DEF t
<1>7. State(t, N) /\ t.alloc = i /\ t.free = s.free /\ t.tab = s.tab BY <1>6
<1>8. t = [s EXCEPT !.alloc = Insert(Extract(s.alloc, req).q, c.left).q]
  BY DEF t, i, r, left
<1>9. Grown(s, t, {})
  <2>1. AllHeads(t) = AllHeads(s) BY <1>5, <1>7 DEF AllHeads
  <2>2. Pgs(t.alloc) \subseteq Pgs(s.alloc)
    <3>1. Pgs(s.free) \cap Pgs(t.alloc) = {} /\ Pgs(t.alloc) \subseteq Pages
      BY <1>5, <1>7 DEF Tiled
    <3>2. Pages \subseteq Pgs(s.free) \cup Pgs(s.alloc) BY <1>1 DEF Tiled
    <3> QED BY <3>1, <3>2
  <2> QED BY <2>1, <2>2, <1>7, GrownSame
<1>10. FirstIn(s, e, mid, c, t) BY <1>2, <1>5, <1>7, <1>9 DEF FirstIn, N, left
<1> QED BY <1>8, <1>10 DEF e, r

(* And so does the right one.                                              *)
RestIn(t, right, M, u) ==
  /\ State(u, M) /\ Keeps(t.alloc, u.alloc) /\ u.free = t.free /\ Grown(t, u, PagesOf(right))
  /\ right.len = 0 => u.alloc = t.alloc
  /\ right.len = 0 \/ Within(right, Exts(u.alloc))

LEMMA RestKept ==
  ASSUME NEW t, NEW right \in Ext, NEW M, State(t, M \cup PagesOf(right)), M \cap PagesOf(right) = {},
         M \in SUBSET Pages, right.len = 0 \/ Sound(right), HasRoom(t.alloc, right)
  PROVE  RestIn(t, right, M, [t EXCEPT !.alloc = Insert(@, right).q])
<1> DEFINE i == Insert(t.alloc, right).q
           u == [t EXCEPT !.alloc = i]
<1>1. t.tab \in [Pages -> {NoPage} \cup SUBSET {"W"}] /\ Tiled(t.free, t.alloc, M \cup PagesOf(right))
  BY DEF State, Space
<1>2. /\ Tiled(t.free, i, M) /\ Pgs(i) = Pgs(t.alloc) \cup PagesOf(right) /\ Heads(i) = Heads(t.alloc)
      /\ Keeps(t.alloc, i)
      /\ right.len = 0 => i = t.alloc
      /\ right.len = 0 \/ Within(right, Exts(i))
  <2>1. CASE right.len = 0
    <3>1. i = t.alloc BY <2>1, InsertNone
    <3>2. PagesOf(right) = {} BY <2>1 DEF PagesOf, Ext
    <3>3. M \cup {} = M OBVIOUS
    <3> QED BY <1>1, <2>1, <3>1, <3>2, <3>3, KeepsSelf
  <2>2. CASE right.len # 0
    <3>1. Sound(right) BY <2>2
    <3>2. M \cup PagesOf(right) \in SUBSET Pages BY <3>1, InPages
    <3>3. Insert(t.alloc, right).st = "OK" BY <3>1, Room
    <3> DEFINE K == M \cup PagesOf(right)
    <3>4. Tiled(t.free, t.alloc, K) /\ K \in SUBSET Pages /\ PagesOf(right) \subseteq K
      BY <1>1, <3>2
    <3>5. K \ PagesOf(right) = M OBVIOUS
    <3> HIDE DEF K
    <3>6. /\ Tiled(t.free, i, K \ PagesOf(right)) /\ Pgs(i) = Pgs(t.alloc) \cup PagesOf(right)
          /\ Cov(Exts(t.alloc) \cup {right}, Exts(i))
      BY <3>1, <3>3, <3>4, AllocIn
    <3>7. Heads(i) = Heads(t.alloc) BY <3>1, <3>4, AllocInHeads
    <3> HIDE DEF i
    <3>8. Keeps(t.alloc, i) /\ Within(right, Exts(i)) BY <3>6 DEF Cov, Keeps
    <3> QED BY <3>5, <3>6, <3>7, <3>8, <2>2
  <2> QED BY <2>1, <2>2
<1> HIDE DEF i
<1>3. u = [free |-> t.free, alloc |-> i, tab |-> t.tab] /\ State([free |-> t.free, alloc |-> i, tab |-> t.tab], M)
  <2>1. State([free |-> t.free, alloc |-> i, tab |-> t.tab], M) BY <1>1, <1>2, NewState
  <2>2. t \in Space BY DEF State
  <2>3. u = [free |-> t.free, alloc |-> i, tab |-> t.tab] BY <2>2 DEF Space
  <2> QED BY <2>1, <2>3
<1> HIDE DEF u
<1>4. State(u, M) /\ u.alloc = i /\ u.free = t.free /\ u.tab = t.tab BY <1>3
<1>5. u = [t EXCEPT !.alloc = Insert(@, right).q] BY DEF u, i
<1>6. Grown(t, u, PagesOf(right))
  <2>1. AllHeads(u) = AllHeads(t) /\ Pgs(u.alloc) = Pgs(t.alloc) \cup PagesOf(right)
    BY <1>2, <1>4 DEF AllHeads
  <2> QED BY <2>1, <1>4, GrownSame
<1>7. RestIn(t, right, M, u) BY <1>2, <1>4, <1>6 DEF RestIn
<1> QED BY <1>5, <1>7

(* The middle becomes free.                                                *)
MiddleIn(t, mid, u) ==
  /\ State(u, {}) /\ u.alloc = t.alloc /\ Pgs(u.free) = Pgs(t.free) \cup PagesOf(mid) /\ Grown(t, u, {})

LEMMA MiddleFreed ==
  ASSUME NEW t, NEW mid, Sound(mid), Plain(mid), State(t, PagesOf(mid)), HasRoom(t.free, mid)
  PROVE  MiddleIn(t, mid, [t EXCEPT !.free = Insert(@, mid).q])
<1> DEFINE i == Insert(t.free, mid).q
           u == [t EXCEPT !.free = i]
           M == PagesOf(mid)
<1>1. t.tab \in [Pages -> {NoPage} \cup SUBSET {"W"}] /\ Tiled(t.free, t.alloc, M)
  BY DEF State, Space
<1>2. M \in SUBSET Pages /\ PagesOf(mid) \subseteq M BY InPages
<1>3. Insert(t.free, mid).st = "OK" BY Room
<1>4. M \ PagesOf(mid) = {} OBVIOUS
<1> HIDE DEF M
<1>5. Tiled(t.free, t.alloc, M) BY <1>1
<1>6. Tiled(i, t.alloc, M \ PagesOf(mid)) /\ Pgs(i) = Pgs(t.free) \cup PagesOf(mid)
  BY <1>2, <1>3, <1>5, FreeIn
<1>60. Heads(i) = Heads(t.free) BY <1>2, <1>5, FreeInHeads
<1> HIDE DEF i
<1>7. Tiled(i, t.alloc, {}) BY <1>4, <1>6
<1>8. u = [free |-> i, alloc |-> t.alloc, tab |-> t.tab] /\ State([free |-> i, alloc |-> t.alloc, tab |-> t.tab], {})
  BY <1>1, <1>7, NewState
<1> HIDE DEF u
<1>9. State(u, {}) /\ u.alloc = t.alloc /\ u.free = i /\ u.tab = t.tab BY <1>8
<1>10. u = [t EXCEPT !.free = Insert(@, mid).q] BY DEF u, i
<1>11. Grown(t, u, {})
  <2>1. AllHeads(u) = AllHeads(t) /\ Pgs(u.alloc) = Pgs(t.alloc)
    BY <1>60, <1>9 DEF AllHeads
  <2> QED BY <2>1, <1>9, GrownSame
<1>12. MiddleIn(t, mid, u) BY <1>6, <1>9, <1>11 DEF MiddleIn
<1> QED BY <1>10, <1>12

(* The middle is free, and what was noted besides it still is.             *)
Cleared(t, mid, M, u) ==
  Keeps(t.alloc, u.alloc) /\ Grown(t, u, M) /\ PagesOf(mid) \cap Pgs(u.alloc) = {}

Released(t, mid, M, e, r) ==
  \/ r.mishap
  \/ State(r.s, {}) /\ r.st = "OK" /\ r.ext = e /\ Safe(r.s, mid.base, mid.len) /\ Cleared(t, mid, M, r.s)

LEMMA ReleasedAfter ==
  ASSUME NEW t, NEW u, NEW mid, NEW M, NEW N, NEW e, NEW r, Keeps(t.alloc, u.alloc), Grown(t, u, M), Released(u, mid, N, e, r)
  PROVE  Released(t, mid, M \cup N, e, r)
<1>1. CASE r.mishap BY <1>1 DEF Released
<1>2. CASE /\ State(r.s, {}) /\ r.st = "OK" /\ r.ext = e /\ Safe(r.s, mid.base, mid.len)
           /\ Cleared(u, mid, N, r.s)
  <2>1. Keeps(t.alloc, r.s.alloc) BY <1>2, KeepsTrans DEF Cleared
  <2>2. Grown(t, r.s, M \cup N) BY <1>2, GrownTrans DEF Cleared
  <2> QED BY <2>1, <2>2, <1>2 DEF Released, Cleared
<1> QED BY <1>1, <1>2 DEF Released

LEMMA OneZone ==
  ASSUME NEW x, NEW y, Sound(x), Sound(y), Plain(x), Plain(y), NEW p \in Zone(x), p \in Zone(y)
  PROVE  x.flags = y.flags /\ x.prot = y.prot
BY PageAssumption DEF Zone, Sound, Plain, Region

(* Nothing free adjoins what there is no room for.                         *)
LEMMA Isolated ==
  ASSUME NEW f, NEW size, Listed(f, size), \A x \in Exts(f) : Plain(x),
         NEW mid, Sound(mid), Plain(mid), ~HasRoom(f, mid), PagesOf(mid) \cap Pgs(f) = {}
  PROVE  mid.base - 1 \notin Pgs(f) \cap Zone(mid)
<1>1. SUFFICES ASSUME mid.base - 1 \in Pgs(f), mid.base - 1 \in Zone(mid)
      PROVE  FALSE OBVIOUS
<1>2. PICK at \in Places(f) : mid.base - 1 \in PagesOf(At(f, at)) BY <1>1 DEF Pgs, Exts
<1> DEFINE y == At(f, at)
<1>3. Sound(y) /\ Plain(y) /\ PagesOf(y) \subseteq Pgs(f) BY <1>2 DEF Listed, Exts, Pgs
<1> HIDE DEF y
<1>4. mid.base - 1 \in PagesOf(y) BY <1>2 DEF y
<1>5. /\ y.base \in Nat /\ y.len \in Nat /\ PagesOf(y) \subseteq Zone(y)
      /\ mid.base \in Nat /\ mid.base \in PagesOf(mid)
  BY <1>3, SoundPages DEF Sound, Ext
<1>6. mid.base \notin PagesOf(y) BY <1>3, <1>5
<1>7. y.base + y.len = mid.base BY <1>4, <1>5, <1>6 DEF PagesOf
<1>8. mid.flags = y.flags /\ mid.prot = y.prot BY <1>1, <1>3, <1>4, <1>5, OneZone
<1>9. CanJoin(mid, y) BY <1>7, <1>8 DEF CanJoin
<1>10. Joinable(f, mid) BY <1>9 DEF Joinable, y
<1> QED BY <1>10 DEF HasRoom

(* The middle goes to the free list, with the slot it may need.            *)
LEMMA NoteFreeState ==
  ASSUME NEW t, NEW c, NEW e, NEW mid, Sound(mid), Plain(mid), c.mid = mid, State(t, PagesOf(mid)),
         \/ Roomy(t.alloc) # {}
         \/ mid.base - 1 \in Pgs(t.alloc)
         \/ mid.base + mid.len \in Pgs(t.alloc),
         NEW ok \in Supply
  PROVE  Released(t, mid, {}, e, NoteFree(t, c, e, ok))
<1> DEFINE n == NoteFree(t, c, e, ok)
           slot == AllocSlot(t, "free", ok)
<1>1. /\ mid.base \in Nat /\ mid.len \in Nat /\ mid.base .. mid.base + mid.len - 1 \subseteq Zone(mid)
      /\ Zone(mid) \in {High, Low} /\ PagesOf(mid) \in SUBSET Pages
      /\ PagesOf(mid) = mid.base .. mid.base + mid.len - 1
  BY InPages DEF Sound, Ext, PagesOf, Zone
<1>2. CASE HasRoom(t.free, mid)
  <2> DEFINE u == [t EXCEPT !.free = Insert(@, mid).q]
  <2>1. n = FreeResult("OK", u, e, FALSE) BY <1>2 DEF NoteFree
  <2>20. MiddleIn(t, mid, u) BY <1>2, MiddleFreed
  <2> HIDE DEF u, n
  <2>2. State(u, {}) /\ u.alloc = t.alloc BY <2>20 DEF MiddleIn
  <2>3. Safe(u, mid.base, mid.len)
    <3>1. Pgs(u.free) \cap Pgs(t.alloc) = {} BY <2>2 DEF State, Tiled
    <3>2. CASE Roomy(t.alloc) # {} BY <2>2, <3>2 DEF Safe
    <3>3. CASE mid.base - 1 \in Pgs(t.alloc) \/ mid.base + mid.len \in Pgs(t.alloc)
      <4>1. mid.base - 1 \notin Pgs(u.free) \cap Zone(mid) \/ mid.base + mid.len \notin Pgs(u.free) \cap Zone(mid)
        BY <3>1, <3>3
      <4> QED BY <4>1, <1>1 DEF Safe, Closed
    <3> QED BY <3>2, <3>3
  <2>5. Cleared(t, mid, {}, u)
    <3>1. Pgs(u.free) \cap Pgs(u.alloc) = {} BY <2>2 DEF State, Tiled
    <3> QED BY <3>1, <2>20, KeepsSelf DEF MiddleIn, Cleared
  <2>4. Released(t, mid, {}, e, n) BY <2>1, <2>2, <2>3, <2>5 DEF FreeResult, Released
  <2> QED BY <2>4 DEF n
<1>3. CASE ~HasRoom(t.free, mid)
  <2>1. n = FreeInSlot(slot, c, e) BY <1>3 DEF NoteFree
  <2>2. Slotted(t, PagesOf(mid), "free", ok, slot) BY <1>1, Slotting
  <2> HIDE DEF slot, n
  <2>3. CASE slot.st = "OK"
    <3> DEFINE z == slot.s
               u == [z EXCEPT !.free = Insert(@, mid).q]
    <3>1. n = FreeResult("OK", u, e, FALSE) BY <2>1, <2>3 DEF FreeInSlot
    <3>2. State(z, PagesOf(mid)) /\ HasRoom(z.free, mid) /\ Pgs(z.free) \subseteq Pgs(t.free)
      BY <2>2, <2>3 DEF Slotted, HasRoom, Progress
    <3>20. Keeps(t.alloc, z.alloc) /\ Grown(t, z, {}) BY <2>2 DEF Slotted, Progress
    <3> HIDE DEF z
    <3>30. MiddleIn(z, mid, u) BY <3>2, MiddleFreed
    <3> HIDE DEF u
    <3>3. State(u, {}) /\ Pgs(u.free) = Pgs(z.free) \cup PagesOf(mid)
      BY <3>30 DEF MiddleIn
    <3>4. Safe(u, mid.base, mid.len)
      <4>1. Tiled(t.free, t.alloc, PagesOf(mid)) BY DEF State
      <4>2. PagesOf(mid) \cap Pgs(t.free) = {} BY <4>1 DEF Tiled
      <4>3. mid.base - 1 \notin Pgs(t.free) \cap Zone(mid)
        BY <4>1, <4>2, <1>3, Isolated DEF Tiled
      <4>4. mid.base - 1 \notin PagesOf(mid) BY <1>1
      <4>5. mid.base - 1 \notin Pgs(u.free) \cap Zone(mid) BY <3>2, <3>3, <4>3, <4>4
      <4> QED BY <4>5, <1>1 DEF Safe, Closed
    <3>6. Cleared(z, mid, {}, u)
      <4>1. Pgs(u.free) \cap Pgs(u.alloc) = {} BY <3>3 DEF State, Tiled
      <4> QED BY <4>1, <3>30, KeepsSelf DEF MiddleIn, Cleared
    <3>7. Released(z, mid, {}, e, n) BY <3>1, <3>3, <3>4, <3>6 DEF FreeResult, Released
    <3>8. Released(t, mid, {} \cup {}, e, n) BY <3>7, <3>20, ReleasedAfter
    <3>5. Released(t, mid, {}, e, n) BY <3>8
    <3> QED BY <3>5 DEF n
  <2>4. CASE slot.st # "OK"
    <3>1. n.mishap BY <2>1, <2>4 DEF FreeInSlot, FreeUndone, Withdrawn, FreeResult
    <3>2. Released(t, mid, {}, e, n) BY <3>1 DEF Released
    <3> QED BY <3>2 DEF n
  <2> QED BY <2>3, <2>4
<1> QED BY <1>2, <1>3

(* The page beside the middle is in the left part.                         *)
LEMMA LeftBeside ==
  ASSUME NEW e, Sound(e), NEW mid, Sound(mid), NEW c, IsCut(e, mid, c), c.left.len # 0
  PROVE  mid.base - 1 \in PagesOf(c.left) \/ mid.base + mid.len \in PagesOf(c.left)
<1>1. /\ Sound(c.left) /\ PagesOf(c.left) \cup PagesOf(c.right) = PagesOf(e) \ PagesOf(mid)
      /\ c.right \in Ext
  BY DEF IsCut
<1>2. /\ c.left.base \in Nat /\ c.left.len \in Nat /\ c.left.len > 0 /\ mid.base \in Nat /\ mid.len \in Nat
      /\ e.base \in Nat /\ e.len \in Nat
  BY <1>1 DEF Sound, Ext
<1>3. CASE c.left.base + c.left.len = mid.base BY <1>2, <1>3 DEF PagesOf
<1>4. CASE c.right.len = 0 /\ e.base = mid.base
  <2>1. PagesOf(c.right) = {} BY <1>1, <1>4 DEF PagesOf, Ext
  <2>2. PagesOf(c.left) = PagesOf(e) \ PagesOf(mid) BY <1>1, <2>1
  <2>3. c.left.base \in PagesOf(e) /\ c.left.base \notin PagesOf(mid)
    BY <1>1, <2>2, SoundPages
  <2>4. mid.base + mid.len \in PagesOf(e) /\ mid.base + mid.len \notin PagesOf(mid)
    BY <1>2, <1>4, <2>3 DEF PagesOf
  <2> QED BY <2>2, <2>4
<1> QED BY <1>3, <1>4 DEF IsCut

RestReleased(t, c, mid, e, r) ==
  /\ Released(t, mid, PagesOf(c.right), e, r)
  /\ r.mishap \/ c.right.len = 0 \/ Within(c.right, Exts(r.s.alloc))

LEMMA KeepsPgs == ASSUME NEW f, NEW g, Keeps(f, g) PROVE Pgs(f) \subseteq Pgs(g)
BY DEF Keeps, Within, Pgs

LEMMA RestAfter ==
  ASSUME NEW t, NEW u, NEW c, NEW mid, NEW e, NEW r, NEW M, RestIn(t, c.right, M, u), Released(u, mid, {}, e, r)
  PROVE  RestReleased(t, c, mid, e, r)
<1>1. Released(t, mid, PagesOf(c.right) \cup {}, e, r) BY ReleasedAfter DEF RestIn
<1>2. PagesOf(c.right) \cup {} = PagesOf(c.right) OBVIOUS
<1>3. r.mishap \/ c.right.len = 0 \/ Within(c.right, Exts(r.s.alloc))
  <2>1. SUFFICES ASSUME ~r.mishap, Within(c.right, Exts(u.alloc))
        PROVE  Within(c.right, Exts(r.s.alloc))
    BY DEF RestIn
  <2>2. Keeps(u.alloc, r.s.alloc) BY <2>1 DEF Released, Cleared
  <2> QED BY <2>1, <2>2, WithinCov DEF Keeps
<1> QED BY <1>1, <1>2, <1>3 DEF RestReleased

(* The right part stays allocated, with the slot it may need.              *)
LEMMA KeepRestState ==
  ASSUME NEW t, NEW c, NEW e, NEW mid, Sound(e), Sound(mid), Plain(mid), IsCut(e, mid, c),
         State(t, PagesOf(mid) \cup PagesOf(c.right)),
         c.left.len = 0 \/ Within(c.left, Exts(t.alloc)), c.left.len = 0 => Roomy(t.alloc) # {}, NEW ok \in Supply
  PROVE  RestReleased(t, c, mid, e, KeepRest(t, c, e, ok))
<1> DEFINE M == PagesOf(mid)
           right == c.right
           n == KeepRest(t, c, e, ok)
           slot == AllocSlot(t, "alloc", ok)
           k == RestInSlot(slot, c)
<1>1. /\ right \in Ext /\ (right.len = 0 \/ (Sound(right) /\ c.left.len # 0)) /\ c.mid = mid
      /\ M \in SUBSET Pages /\ M \cap PagesOf(right) = {}
  BY InPages DEF IsCut, Ext
<1>2. c.left.len = 0 \/ mid.base - 1 \in Pgs(t.alloc) \/ mid.base + mid.len \in Pgs(t.alloc)
  <2>1. c.left.len = 0 \/ mid.base - 1 \in PagesOf(c.left) \/ mid.base + mid.len \in PagesOf(c.left)
    BY LeftBeside
  <2>2. c.left.len = 0 \/ PagesOf(c.left) \subseteq Pgs(t.alloc) BY DEF Within, Pgs
  <2> QED BY <2>1, <2>2
<1>3. CASE HasRoom(t.alloc, right)
  <2> DEFINE u == [t EXCEPT !.alloc = Insert(@, right).q]
  <2>1. n = NoteFree(u, c, e, ok) BY <1>3 DEF KeepRest
  <2>20. RestIn(t, right, M, u) BY <1>1, <1>3, RestKept
  <2> HIDE DEF u, n
  <2>2. /\ State(u, M) /\ Pgs(t.alloc) \subseteq Pgs(u.alloc)
        /\ right.len = 0 => u.alloc = t.alloc
    BY <2>20, KeepsPgs DEF RestIn
  <2>3. \/ Roomy(u.alloc) # {}
        \/ mid.base - 1 \in Pgs(u.alloc)
        \/ mid.base + mid.len \in Pgs(u.alloc)
    BY <1>1, <1>2, <2>2
  <2>4. Released(u, mid, {}, e, NoteFree(u, c, e, ok)) BY <1>1, <2>2, <2>3, NoteFreeState
  <2>5. RestReleased(t, c, mid, e, NoteFree(u, c, e, ok)) BY <2>4, <2>20, RestAfter
  <2> QED BY <2>1, <2>5 DEF n
<1>4. CASE ~HasRoom(t.alloc, right)
  <2>1. n = KeptRest(k, c, e, ok) BY <1>4 DEF KeepRest
  <2>2. right.len # 0 /\ Sound(right) BY <1>1, <1>4 DEF HasRoom
  <2>3. M \cup PagesOf(right) \in SUBSET Pages BY <1>1, <2>2, InPages
  <2>4. Slotted(t, M \cup PagesOf(right), "alloc", ok, slot) BY <2>3, Slotting
  <2>5. slot = [st |-> slot.st, s |-> slot.s] BY SlotRecord
  <2>6. CASE slot.st = "OK"
    <3> DEFINE z == slot.s
               u == [z EXCEPT !.alloc = Insert(@, right).q]
    <3>1. k = [slot EXCEPT !.s.alloc = Insert(@, c.right).q] BY <2>6 DEF RestInSlot
    <3> HIDE DEF slot, k, n
    <3>2. k.st = "OK" /\ k.s = u BY <2>5, <2>6, <3>1
    <3>3. n = NoteFree(u, c, e, ok) BY <2>1, <3>2 DEF KeptRest
    <3>4. State(z, M \cup PagesOf(right)) /\ HasRoom(z.alloc, right) /\ Pgs(t.alloc) \subseteq Pgs(z.alloc)
      BY <2>4, <2>6 DEF Slotted, HasRoom, Progress
    <3>40. Keeps(t.alloc, z.alloc) /\ Grown(t, z, {}) BY <2>4 DEF Slotted, Progress
    <3> HIDE DEF z
    <3>50. RestIn(z, right, M, u) BY <1>1, <3>4, RestKept
    <3> HIDE DEF u
    <3>5. State(u, M) /\ Pgs(z.alloc) \subseteq Pgs(u.alloc) BY <3>50, KeepsPgs DEF RestIn
    <3>6. mid.base - 1 \in Pgs(u.alloc) \/ mid.base + mid.len \in Pgs(u.alloc)
      BY <1>1, <1>2, <2>2, <3>4, <3>5
    <3>7. Released(u, mid, {}, e, NoteFree(u, c, e, ok))
      BY <1>1, <3>5, <3>6, NoteFreeState
    <3>8. RestReleased(z, c, mid, e, n) BY <3>3, <3>7, <3>50, RestAfter
    <3>9. Released(t, mid, {} \cup PagesOf(c.right), e, n)
      BY <3>8, <3>40, ReleasedAfter DEF RestReleased
    <3>10. {} \cup PagesOf(c.right) = PagesOf(c.right) OBVIOUS
    <3>11. RestReleased(t, c, mid, e, n) BY <3>8, <3>9, <3>10 DEF RestReleased
    <3> QED BY <3>11 DEF n
  <2>7. CASE slot.st # "OK"
    <3>1. k = slot BY <2>7 DEF RestInSlot
    <3> HIDE DEF slot, k, n
    <3>2. n = FreeUndone(slot.s, c, e) BY <2>1, <2>7, <3>1 DEF KeptRest
    <3>3. n.mishap BY <3>2 DEF FreeUndone, Withdrawn, FreeResult
    <3>4. RestReleased(t, c, mid, e, n) BY <3>3 DEF Released, RestReleased
    <3> QED BY <3>4 DEF n
  <2> QED BY <2>6, <2>7
<1> QED BY <1>3, <1>4

LEMMA FreedSound ==
  ASSUME NEW e, Sound(e), NEW at \in Nat, NEW len \in Nat \ {0}, InRange(e, at, len)
  PROVE  LET mid == Freed(e, at, len) IN
         /\ Sound(mid) /\ Plain(mid) /\ mid.base = at /\ mid.len = len
<1> DEFINE mid == Freed(e, at, len)
<1>1. at # BaseAuto /\ at \in {BaseAuto} \cup Nat /\ {} \in SUBSET Flags /\ {} \in SUBSET {"W"}
  BY NotAuto
<1>2. mid = Middle(e, at, len, {}, {}) BY <1>1 DEF Freed, Middle
<1>3. Sound(mid) BY <1>1, <1>2, MiddleSound
<1>4. Plain(mid) BY DEF Plain, Freed, Region
<1>5. mid.base = at /\ mid.len = len BY DEF Freed
<1> QED BY <1>3, <1>4, <1>5

(* What a list still notes of another, but for the pages of M.             *)
Carried(f, g, M) == \A x \in Exts(f), a, b \in Nat :
  a <= b /\ a .. b \subseteq PagesOf(x) \ M => \E y \in Exts(g) : a .. b \subseteq PagesOf(y) /\ Alike(x, y)

LEMMA KeepsCarried == ASSUME NEW f, NEW g, NEW M, Keeps(f, g) PROVE Carried(f, g, M)
<1>1. ASSUME NEW x \in Exts(f), NEW a \in Nat, NEW b \in Nat, a .. b \subseteq PagesOf(x) \ M
      PROVE  \E y \in Exts(g) : a .. b \subseteq PagesOf(y) /\ Alike(x, y)
  BY <1>1 DEF Keeps, Within
<1> QED BY <1>1 DEF Carried

LEMMA SameExt ==
  ASSUME NEW q, NEW size, Listed(q, size), NEW x \in Exts(q), NEW y \in Exts(q), NEW p \in PagesOf(x), p \in PagesOf(y)
  PROVE  x = y
<1>1. PICK a \in Places(q) : x = At(q, a) BY DEF Exts
<1>2. PICK b \in Places(q) : y = At(q, b) BY DEF Exts
<1>3. ~Apart(At(q, a), At(q, b)) BY <1>1, <1>2 DEF Apart
<1> QED BY <1>1, <1>2, <1>3 DEF Listed

(* A range of the extent that avoids the middle lies on one side of it.    *)
LEMMA OneSide ==
  ASSUME NEW e, Sound(e), NEW mid, Sound(mid), NEW c, IsCut(e, mid, c), NEW a \in Nat, NEW b \in Nat, a <= b,
         a .. b \subseteq PagesOf(e) \ PagesOf(mid)
  PROVE  \/ c.left.len # 0 /\ a .. b \subseteq PagesOf(c.left)
         \/ c.right.len # 0 /\ a .. b \subseteq PagesOf(c.right)
<1>1. /\ PagesOf(c.left) \cup PagesOf(c.right) = PagesOf(e) \ PagesOf(mid)
      /\ c.left \in Ext /\ c.right \in Ext
      /\ c.right.len # 0 => /\ Sound(c.left) /\ Sound(c.right)
           /\ c.left.base + c.left.len = mid.base /\ c.right.base = mid.base + mid.len
  <2>1. c.right.len # 0 => c.left.len # 0 /\ Sound(c.left) /\ Sound(c.right)
    <3>1. c.left.len > 0 => c.left.len # 0 OBVIOUS
    <3> QED BY <3>1 DEF IsCut
  <2> QED BY <2>1 DEF IsCut
<1>2. /\ mid.base \in Nat /\ mid.len \in Nat /\ mid.len > 0 /\ c.left.base \in Nat /\ c.left.len \in Nat
      /\ c.right.base \in Nat /\ c.right.len \in Nat /\ a \in a .. b
  BY <1>1 DEF Sound, Ext
<1>3. CASE c.right.len = 0
  <2>1. PagesOf(c.right) = {} BY <1>2, <1>3 DEF PagesOf
  <2>2. a .. b \subseteq PagesOf(c.left) BY <1>1, <2>1
  <2>3. c.left.len # 0
    <3>1. a \in PagesOf(c.left) BY <1>2, <2>2
    <3> QED BY <3>1, <1>2 DEF PagesOf
  <2> QED BY <2>2, <2>3
<1>4. CASE c.right.len # 0
  <2>1. c.left.len # 0 /\ c.left.base + c.left.len = mid.base /\ c.right.base = mid.base + mid.len
    BY <1>1, <1>4 DEF Sound
  <2>2. \A p \in a .. b : p \in Nat /\ p \notin PagesOf(mid) /\ (p \in PagesOf(c.left) \/ p \in PagesOf(c.right))
    BY <1>1
  <2>3. mid.base \notin a .. b
    <3>1. mid.base \in PagesOf(mid) BY SoundPages
    <3> QED BY <3>1, <2>2
  <2>4. CASE b < mid.base
    <3>1. \A p \in a .. b : p < mid.base BY <2>4, <1>2
    <3>2. \A p \in a .. b : p \notin PagesOf(c.right) BY <3>1, <2>1, <1>2 DEF PagesOf
    <3> QED BY <3>2, <2>1, <2>2
  <2>5. CASE mid.base < a
    <3>1. \A p \in a .. b : ~(p < mid.base) BY <2>5, <1>2
    <3>2. \A p \in a .. b : p \notin PagesOf(c.left) BY <3>1, <2>1, <1>2 DEF PagesOf
    <3> QED BY <3>2, <1>4, <2>2
  <2> QED BY <2>3, <2>4, <2>5, <1>2
<1> QED BY <1>3, <1>4

LEMMA FreedCarried ==
  ASSUME NEW f, NEW g, NEW e, Sound(e), NEW mid, Sound(mid), NEW c, IsCut(e, mid, c),
         \A x \in Exts(f) \ {e} : Within(x, Exts(g)),
         c.left.len = 0 \/ Within(c.left, Exts(g)), c.right.len = 0 \/ Within(c.right, Exts(g))
  PROVE  Carried(f, g, PagesOf(mid))
<1>1. ASSUME NEW x \in Exts(f), NEW a \in Nat, NEW b \in Nat, a <= b, a .. b \subseteq PagesOf(x) \ PagesOf(mid)
      PROVE  \E y \in Exts(g) : a .. b \subseteq PagesOf(y) /\ Alike(x, y)
  <2>1. CASE x # e BY <1>1, <2>1 DEF Within
  <2>2. CASE x = e
    <3>1. Alike(c.left, e) /\ Alike(c.right, e) BY DEF IsCut
    <3>2. \/ c.left.len # 0 /\ a .. b \subseteq PagesOf(c.left)
          \/ c.right.len # 0 /\ a .. b \subseteq PagesOf(c.right)
      BY <1>1, <2>2, OneSide
    <3>3. CASE c.left.len # 0 /\ a .. b \subseteq PagesOf(c.left)
      <4>1. PICK y \in Exts(g) : PagesOf(c.left) \subseteq PagesOf(y) /\ Alike(c.left, y)
        BY <3>3 DEF Within
      <4> QED BY <4>1, <3>1, <3>3, <2>2 DEF Alike
    <3>4. CASE c.right.len # 0 /\ a .. b \subseteq PagesOf(c.right)
      <4>1. PICK y \in Exts(g) : PagesOf(c.right) \subseteq PagesOf(y) /\ Alike(c.right, y)
        BY <3>4 DEF Within
      <4> QED BY <4>1, <3>1, <3>4, <2>2 DEF Alike
    <3> QED BY <3>2, <3>3, <3>4
  <2> QED BY <2>1, <2>2
<1> QED BY <1>1 DEF Carried

(* Nothing is freed, because the range is not in an extent that may be; or *)
(* it is taken from one.                                                   *)
Locked(q) == UNION {PagesOf(x) : x \in {y \in Exts(q) : "LOCKED" \in y.flags}}

Spared(s, t, at, len) ==
  /\ Keeps(s.alloc, t.alloc) /\ Grown(s, t, {})
  /\ \A x \in Exts(s.alloc) : Span(at, len) \subseteq PagesOf(x) => "LOCKED" \in x.flags

Taken(s, t, at, len, e) ==
  /\ e \in Ext /\ e \in Exts(s.alloc) /\ "LOCKED" \notin e.flags /\ Span(at, len) \subseteq PagesOf(e)
  /\ Carried(s.alloc, t.alloc, Span(at, len)) /\ Grown(s, t, {})
  /\ Span(at, len) \cap Pgs(t.alloc) = {}

Freeing(s, at, len, r) ==
  \/ r.mishap
  \/ /\ State(r.s, {})
     /\ \/ r.st # "OK" /\ Spared(s, r.s, at, len)
        \/ r.st = "OK" /\ Safe(r.s, at, len) /\ Taken(s, r.s, at, len, r.ext)

LEMMA SpanRange ==
  ASSUME NEW x, Sound(x), NEW at \in Nat, NEW len \in Nat \ {0}
  PROVE  Span(at, len) \subseteq PagesOf(x) <=> InRange(x, at, len)
<1>1. x.base \in Nat /\ x.len \in Nat BY DEF Sound, Ext
<1>2. at \in Span(at, len) /\ at + len - 1 \in Span(at, len) BY DEF Span
<1>3. ASSUME Span(at, len) \subseteq PagesOf(x) PROVE InRange(x, at, len)
  <2>1. at \in PagesOf(x) /\ at + len - 1 \in PagesOf(x) BY <1>2, <1>3
  <2> QED BY <2>1, <1>1 DEF PagesOf, InRange
<1>4. ASSUME InRange(x, at, len) PROVE Span(at, len) \subseteq PagesOf(x)
  BY <1>1, <1>4 DEF PagesOf, InRange, Span
<1> QED BY <1>3, <1>4

(* vm_space_free.                                                          *)
LEMMA FreeState ==
  ASSUME NEW s, State(s, {}), NEW at \in Nat, NEW len \in Nat \ {0}, NEW ok \in Supply
  PROVE  Freeing(s, at, len, SpaceFree(s, at, len, ok))
<1> DEFINE req == [base |-> at, len |-> len, flags |-> {}, prot |-> {}]
           r == Extract(s.alloc, req)
           e == r.ext
           mid == Freed(e, at, len)
           c == Cut(e, mid)
           t == [s EXCEPT !.alloc = Insert(r.q, c.left).q]
           n == SpaceFree(s, at, len, ok)
<1>1. n = FreeFrom(s, r, at, len, ok) BY DEF SpaceFree
<1>2. req.base = at /\ req.len = len OBVIOUS
<1> HIDE DEF req, n
<1>3. Tiled(s.free, s.alloc, {}) /\ s \in Space BY DEF State
<1>30. Listed(s.alloc, AllocPerSlot) /\ AllocPerSlot \in Nat BY <1>3, Sizes DEF Tiled
<1>31. \A x \in Exts(s.alloc) : Sound(x) BY <1>30 DEF Listed, Exts
<1>4. CASE r.st # "OK"
  <2>1. n = FreeResult("FAIL", s, r.ext, FALSE) BY <1>1, <1>4 DEF FreeFrom
  <2>3. ASSUME NEW x \in Exts(s.alloc), Span(at, len) \subseteq PagesOf(x) PROVE FALSE
    <3>1. InRange(x, at, len) BY <1>31, <2>3, SpanRange
    <3>2. Fits(x, req) BY <3>1, <1>2, NotAuto DEF Fits
    <3> QED BY <3>2, <1>2, <1>4, <1>30, ExtractList
  <2>4. Spared(s, s, at, len) BY <2>3, KeepsSelf, GrownSame DEF Spared
  <2>2. Freeing(s, at, len, n) BY <2>1, <2>4 DEF FreeResult, Freeing
  <2> QED BY <2>2 DEF n
<1>5. CASE r.st = "OK" /\ "LOCKED" \in r.ext.flags
  <2> DEFINE u == Insert(r.q, r.ext).q
             z == [s EXCEPT !.alloc = u]
  <2>1. n = FreeResult("FAIL", z, r.ext, FALSE) BY <1>1, <1>5 DEF FreeFrom
  <2>2. /\ Tiled(s.free, u, {}) /\ Cov(Exts(s.alloc), Exts(u)) /\ Heads(u) = Heads(s.alloc)
        /\ {} \in SUBSET Pages
    BY <1>3, <1>5, UntouchedAlloc
  <2>20. r.ext \in Exts(s.alloc) /\ Fits(r.ext, req) BY <1>3, <1>5, AllocOut
  <2> HIDE DEF u, r
  <2>3. s.tab \in [Pages -> {NoPage} \cup SUBSET {"W"}] BY <1>3 DEF Space
  <2>4. State([free |-> s.free, alloc |-> u, tab |-> s.tab], {}) BY <2>2, <2>3, NewState
  <2>5. z = [free |-> s.free, alloc |-> u, tab |-> s.tab] BY <1>3 DEF Space
  <2> HIDE DEF z
  <2>7. z.free = s.free /\ z.alloc = u /\ z.tab = s.tab BY <2>5
  <2>8. Grown(s, z, {})
    <3>1. AllHeads(z) = AllHeads(s) BY <2>2, <2>7 DEF AllHeads
    <3>2. Pgs(z.alloc) = Pgs(s.alloc)
      <4>1. Pgs(u) = Pages \ Pgs(s.free) BY <2>2 DEF Tiled
      <4>2. Pgs(s.alloc) = Pages \ Pgs(s.free) BY <1>3 DEF Tiled
      <4> QED BY <4>1, <4>2, <2>7
    <3> QED BY <3>1, <3>2, <2>7, GrownSame
  <2>9. Keeps(s.alloc, z.alloc) BY <2>2, <2>7 DEF Cov, Keeps
  <2>10. ASSUME NEW x \in Exts(s.alloc), Span(at, len) \subseteq PagesOf(x)
         PROVE  "LOCKED" \in x.flags
    <3>1. InRange(r.ext, at, len) BY <1>2, <2>20, FitsRange
    <3>2. Span(at, len) \subseteq PagesOf(r.ext) BY <3>1, <2>20, <1>31, SpanRange
    <3>3. at \in Span(at, len) BY DEF Span
    <3>4. x = r.ext BY <1>30, <2>10, <2>20, <3>2, <3>3, SameExt
    <3> QED BY <3>4, <1>5
  <2>11. Spared(s, z, at, len) BY <2>8, <2>9, <2>10 DEF Spared
  <2>6. Freeing(s, at, len, n) BY <2>1, <2>4, <2>5, <2>11 DEF FreeResult, Freeing
  <2> QED BY <2>6 DEF n
<1>6. CASE r.st = "OK" /\ "LOCKED" \notin r.ext.flags
  <2>1. n = KeepRest(t, c, e, ok) BY <1>1, <1>6 DEF FreeFrom, KeepFirst
  <2>2. Sound(e) /\ Fits(e, req) /\ e \in Exts(s.alloc) BY <1>3, <1>6, AllocOut
  <2>20. "LOCKED" \notin e.flags BY <1>6
  <2> HIDE DEF e, r
  <2>3. InRange(e, at, len) BY <1>2, <2>2, FitsRange
  <2>4. Sound(mid) /\ Plain(mid) /\ mid.base = at /\ mid.len = len
    BY <2>2, <2>3, FreedSound
  <2> HIDE DEF mid
  <2>5. IsCut(e, mid, c)
    <3>1. mid.base \in Nat /\ mid.len \in Nat \ {0} /\ InRange(e, mid.base, mid.len)
      BY <2>3, <2>4
    <3> QED BY <3>1, <2>2, CutParts
  <2> HIDE DEF c
  <2>60. FirstIn(s, e, mid, c, t) BY <1>6, <2>5, FirstKept DEF e, r
  <2> HIDE DEF t
  <2>6. /\ State(t, PagesOf(mid) \cup PagesOf(c.right))
        /\ c.left.len = 0 \/ Within(c.left, Exts(t.alloc))
        /\ c.left.len = 0 => Roomy(t.alloc) # {}
    BY <2>60 DEF FirstIn
  <2>7. RestReleased(t, c, mid, e, n) BY <2>1, <2>2, <2>4, <2>5, <2>6, KeepRestState
  <2>8. e \in Ext BY <2>2 DEF Sound
  <2>10. ASSUME n.mishap PROVE Freeing(s, at, len, n) BY <2>10 DEF Freeing
  <2>11. ASSUME ~n.mishap PROVE Freeing(s, at, len, n)
    <3>1. /\ State(n.s, {}) /\ n.st = "OK" /\ n.ext = e /\ Safe(n.s, at, len)
          /\ Cleared(t, mid, PagesOf(c.right), n.s)
      BY <2>4, <2>7, <2>11 DEF RestReleased, Released
    <3>2. PagesOf(mid) = Span(at, len) BY <2>4 DEF PagesOf, Span
    <3>3. Carried(s.alloc, n.s.alloc, PagesOf(mid))
      <4>1. Keeps(t.alloc, n.s.alloc) BY <3>1 DEF Cleared
      <4>2. \A x \in Exts(s.alloc) \ {e} : Within(x, Exts(n.s.alloc))
        BY <4>1, <2>60, WithinCov DEF FirstIn, Keeps
      <4>3. c.left.len = 0 \/ Within(c.left, Exts(n.s.alloc))
        BY <4>1, <2>6, WithinCov DEF Keeps
      <4>4. c.right.len = 0 \/ Within(c.right, Exts(n.s.alloc))
        BY <2>7, <2>11 DEF RestReleased
      <4> QED BY <4>2, <4>3, <4>4, <2>2, <2>4, <2>5, FreedCarried
    <3>4. Grown(s, n.s, {})
      <4>1. Grown(s, n.s, {} \cup PagesOf(c.right))
        BY <2>60, <3>1, GrownTrans DEF FirstIn, Cleared
      <4>2. PagesOf(c.right) \subseteq Pgs(s.alloc) BY <2>2, <2>5 DEF IsCut, Pgs
      <4> QED BY <4>1, <4>2, GrownMore
    <3>5. Taken(s, n.s, at, len, e)
      <4>1. Span(at, len) \subseteq PagesOf(e) BY <2>2, <2>3, SpanRange
      <4> QED BY <4>1, <3>1, <3>2, <3>3, <3>4, <2>2, <2>8, <2>20 DEF Taken, Cleared
    <3> QED BY <3>1, <3>5 DEF Freeing
  <2>9. Freeing(s, at, len, n) BY <2>10, <2>11
  <2> QED BY <2>9 DEF n
<1> QED BY <1>4, <1>5, <1>6

-------------------------------------------------------------------------------
(* The initial state.                                                      *)

LEMMA HighRange ==
  /\ FirstHigh \in High /\ FirstHigh + 1 \in High /\ FirstHigh \in Nat
  /\ Cardinality(High) \in Nat /\ Cardinality(High) > 0
  /\ High = FirstHigh .. FirstHigh + Cardinality(High) - 1
<1>1. PICK a \in High : \E b \in High : a < b /\ High = a .. b BY PageAssumption
<1>2. PICK b \in High : a < b /\ High = a .. b BY <1>1
<1>3. a \in Nat /\ b \in Nat BY PageAssumption
<1>4. Cardinality(a .. b) = IF a > b THEN 0 ELSE b - a + 1 BY <1>3, FS_Interval
<1>5. FirstHigh = a
  <2>1. a \in High /\ \A q \in High : a <= q BY <1>2, <1>3
  <2>2. FirstHigh \in High /\ \A q \in High : FirstHigh <= q BY <2>1 DEF FirstHigh
  <2>3. FirstHigh \in Nat BY <2>2, PageAssumption
  <2>4. FirstHigh <= a /\ a <= FirstHigh BY <2>1, <2>2
  <2> QED BY <2>3, <2>4, <1>3
<1> QED BY <1>2, <1>3, <1>4, <1>5

LEMMA LowRange ==
  /\ FirstLow \in Low /\ FirstLow \in Nat
  /\ Cardinality(Low) \in Nat /\ Cardinality(Low) > 0
  /\ Low = FirstLow .. FirstLow + Cardinality(Low) - 1
<1>1. PICK a \in Low : \E b \in Low : Low = a .. b BY PageAssumption
<1>2. PICK b \in Low : Low = a .. b BY <1>1
<1>3. a \in Nat /\ b \in Nat /\ a <= b BY <1>2, PageAssumption
<1>4. Cardinality(a .. b) = IF a > b THEN 0 ELSE b - a + 1 BY <1>3, FS_Interval
<1>5. FirstLow = a
  <2>1. a \in Low /\ \A q \in Low : a <= q BY <1>2, <1>3
  <2>2. FirstLow \in Low /\ \A q \in Low : FirstLow <= q BY <2>1 DEF FirstLow
  <2>3. FirstLow \in Nat BY <2>2, PageAssumption
  <2>4. FirstLow <= a /\ a <= FirstLow BY <2>1, <2>2
  <2> QED BY <2>3, <2>4, <1>3
<1> QED BY <1>2, <1>3, <1>4, <1>5

HighExt == [base |-> FirstHigh, len |-> Cardinality(High), flags |-> {"HIGH"}, prot |-> {}]
LowExt == [base |-> FirstLow, len |-> Cardinality(Low), flags |-> {"LOW"}, prot |-> {}]

LEMMA RegionsSound ==
  /\ Sound(HighExt) /\ Plain(HighExt) /\ PagesOf(HighExt) = High
  /\ Sound(LowExt) /\ Plain(LowExt) /\ PagesOf(LowExt) = Low
<1>1. PagesOf(HighExt) = High BY HighRange DEF HighExt, PagesOf
<1>2. PagesOf(LowExt) = Low BY LowRange DEF LowExt, PagesOf
<1>3. HighExt \in Ext /\ LowExt \in Ext
  BY HighRange, LowRange DEF HighExt, LowExt, Ext, Flags
<1>4. Region(HighExt) = {"HIGH"} /\ Zone(HighExt) = High BY DEF HighExt, Region, Zone
<1>5. Region(LowExt) = {"LOW"} /\ Zone(LowExt) = Low BY DEF LowExt, Region, Zone
<1>6. HighExt.len > 0 /\ LowExt.len > 0 BY HighRange, LowRange DEF HighExt, LowExt
<1>7. Plain(HighExt) /\ Plain(LowExt) BY <1>4, <1>5 DEF Plain, HighExt, LowExt
<1> QED BY <1>1, <1>2, <1>3, <1>4, <1>5, <1>6, <1>7 DEF Sound

(* A list of one header, which is empty.                                   *)
LEMMA OneHeader ==
  ASSUME NEW page \in Nat, NEW size \in Nat, size >= 2
  PROVE  LET q == <<Header(page, size)>> IN Listed(q, size) /\ Exts(q) = {} /\ Wide(q) /\ Heads(q) = {page}
<1> DEFINE q == <<Header(page, size)>>
<1>1. Header(page, size) \in Hdr /\ Header(page, size).busy = <<>> /\ Header(page, size).size = size
  BY DEF Header, Hdr
<1>2. q \in Seq(Hdr) /\ DOMAIN q = {1} /\ q[1] = Header(page, size) BY <1>1
<1> HIDE DEF q
<1>3. Places(q) = {} BY <1>1, <1>2, PlaceOf
<1>4. Len(q[1].busy) = 0 BY <1>1, <1>2
<1>5. Avail(q[1]) = size BY <1>1, <1>2, <1>4 DEF Avail
<1>6. Wide(q) BY <1>2, <1>5 DEF Wide
<1>7. Listed(q, size) BY <1>1, <1>2, <1>3, <1>4 DEF Listed
<1>8. Heads(q) = {page} BY <1>2 DEF Heads, Header
<1> QED BY <1>3, <1>6, <1>7, <1>8 DEF q, Exts

(* Only the two headers are present.                                       *)
Fresh(s) ==
  /\ AllHeads(s) = {FirstHigh, FirstHigh + 1}
  /\ \A p \in Pages : s.tab[p] = IF p \in {FirstHigh, FirstHigh + 1} THEN {"W"} ELSE NoPage

(* The two lists before the pages of their headers are taken.              *)
LEMMA BareState == State(Bare, {}) /\ Wide(Bare.alloc) /\ Pgs(Bare.alloc) = {} /\ Fresh(Bare)
<1> DEFINE f == <<Header(FirstHigh, FreePerSlot)>>
           a == <<Header(FirstHigh + 1, AllocPerSlot)>>
           tab == [p \in Pages |-> IF p - FirstHigh \in {0, 1} THEN {"W"} ELSE NoPage]
           one == Insert(f, HighExt)
           two == Insert(one.q, LowExt)
<1>1. Bare = [free |-> two.q, alloc |-> a, tab |-> tab] BY DEF Bare, HighExt, LowExt
<1>2. FirstHigh \in Nat /\ FirstHigh + 1 \in Nat BY HighRange
<1>3. /\ Listed(f, FreePerSlot) /\ Exts(f) = {} /\ Wide(f)
      /\ Listed(a, AllocPerSlot) /\ Exts(a) = {} /\ Wide(a)
      /\ Heads(f) = {FirstHigh} /\ Heads(a) = {FirstHigh + 1}
  BY <1>2, OneHeader, Sizes
<1>4. tab \in [Pages -> {NoPage} \cup SUBSET {"W"}] OBVIOUS
<1>40. \A p \in Pages : tab[p] = IF p \in {FirstHigh, FirstHigh + 1} THEN {"W"} ELSE NoPage
  <2>1. \A p \in Pages : p \in Nat BY PageAssumption DEF Pages
  <2>2. \A p \in Pages : p - FirstHigh \in {0, 1} <=> p \in {FirstHigh, FirstHigh + 1}
    BY <2>1, <1>2
  <2> QED BY <2>2
<1> HIDE DEF f, a, tab
<1>5. Tiled(f, a, Pages) BY <1>3 DEF Tiled, Pgs
<1>6. one.st = "OK"
  <2>1. HasRoom(f, HighExt) BY <1>3, WideRoomy, Sizes DEF HasRoom
  <2> QED BY <2>1, Room, RegionsSound
<1>7. Pages \in SUBSET Pages /\ High \subseteq Pages /\ Low \subseteq Pages \ High /\ (Pages \ High) \ Low = {}
      /\ Pages \ High \in SUBSET Pages
  BY PageAssumption DEF Pages
<1>8. /\ Tiled(one.q, a, Pages \ High)
      /\ \A k \in DOMAIN f : k \in DOMAIN one.q /\ Avail(one.q[k]) >= Avail(f[k]) - 1
  <2>1. PagesOf(HighExt) \subseteq Pages BY <1>7, RegionsSound
  <2>2. /\ Tiled(one.q, a, Pages \ PagesOf(HighExt))
        /\ \A k \in DOMAIN f : k \in DOMAIN one.q /\ Avail(one.q[k]) >= Avail(f[k]) - 1
    BY <2>1, <1>5, <1>6, <1>7, FreeIn, RegionsSound
  <2> QED BY <2>2, RegionsSound
<1>80. Heads(one.q) = Heads(f)
  <2>1. PagesOf(HighExt) \subseteq Pages BY <1>7, RegionsSound
  <2> QED BY <2>1, <1>5, <1>7, FreeInHeads, RegionsSound
<1> HIDE DEF one
<1>9. two.st = "OK"
  <2>1. Listed(one.q, FreePerSlot) BY <1>8 DEF Tiled
  <2>2. Roomy(one.q) # {} BY <2>1, <1>3, <1>8, WideInsert, Sizes
  <2>3. HasRoom(one.q, LowExt) BY <2>2 DEF HasRoom
  <2> QED BY <2>3, Room, RegionsSound
<1>10. Tiled(two.q, a, {})
  <2> DEFINE M == Pages \ High
  <2>1. Tiled(one.q, a, M) /\ M \in SUBSET Pages /\ PagesOf(LowExt) \subseteq M /\ M \ PagesOf(LowExt) = {}
    BY <1>7, <1>8, RegionsSound
  <2> HIDE DEF M
  <2>2. Tiled(two.q, a, M \ PagesOf(LowExt)) BY <2>1, <1>9, FreeIn, RegionsSound
  <2> QED BY <2>1, <2>2
<1>100. Heads(two.q) = Heads(one.q)
  <2> DEFINE M == Pages \ High
  <2>1. Tiled(one.q, a, M) /\ M \in SUBSET Pages /\ PagesOf(LowExt) \subseteq M
    BY <1>7, <1>8, RegionsSound
  <2> HIDE DEF M
  <2> QED BY <2>1, FreeInHeads, RegionsSound
<1> HIDE DEF two
<1>11. two.q \in Seq(Hdr) /\ a \in Seq(Hdr) BY <1>10 DEF Tiled, Listed
<1>12. State(Bare, {}) BY <1>1, <1>4, <1>10, <1>11 DEF State, Space
<1>13. Bare.alloc = a /\ Bare.free = two.q /\ Bare.tab = tab BY <1>1
<1>14. AllHeads(Bare) = {FirstHigh} \cup {FirstHigh + 1}
  BY <1>3, <1>13, <1>80, <1>100 DEF AllHeads
<1>15. Fresh(Bare) BY <1>13, <1>14, <1>40 DEF Fresh
<1> QED BY <1>3, <1>12, <1>13, <1>15 DEF Pgs

(* The page of a header is taken from the beginning of what is free.       *)
Began(s, page, u) ==
  /\ State(u, {}) /\ Pgs(u.alloc) = Pgs(s.alloc) \cup {page}
  /\ Keeps(s.alloc, u.alloc) /\ Grown(s, u, {page})
  /\ \E y \in Exts(u.alloc) : page \in PagesOf(y) /\ "LOCKED" \in y.flags /\ y.prot = {"W"}
  /\ \A k \in DOMAIN s.alloc : k \in DOMAIN u.alloc /\ Avail(u.alloc[k]) >= Avail(s.alloc[k]) - 1

(* The page of a header is cut from the high region.                       *)
LEMMA ReserveState ==
  ASSUME NEW s, State(s, {}), NEW page \in High, page \in Pgs(s.free), page - 1 \notin Pgs(s.free) \cap High,
         Roomy(s.alloc) # {}
  PROVE  Began(s, page, Reserve(s, page))
<1> DEFINE flags == {"PERMANENT", "ALLOCATED", "LOCKED"}
           prot == {"W"}
           ok == [free |-> TRUE, alloc |-> TRUE]
           req == [base |-> page, len |-> 1, prot |-> {}, flags |-> Wanted(page, flags) \cap {"LOW", "HIGH"}]
           r == Extract(s.free, req)
           e == r.ext
           mid == Middle(e, page, 1, flags, prot)
           c == Cut(e, mid)
           t == [s EXCEPT !.free = Insert(r.q, c.left).q]
           v == [t EXCEPT !.free = Insert(@, c.right).q]
           n == SpaceAlloc(s, page, 1, flags, prot, ok)
<1>1. n = AllocFrom(s, r, page, 1, flags, prot, ok) BY DEF SpaceAlloc
<1>2. page \in Nat /\ 1 \in Nat \ {0} /\ flags \in SUBSET Flags /\ prot \in SUBSET {"W"}
  BY PageAssumption DEF Flags
<1>3. page # BaseAuto BY <1>2, NotAuto
<1>4. req.base = page /\ req.len = 1 OBVIOUS
<1>5. Tiled(s.free, s.alloc, {}) /\ Listed(s.free, FreePerSlot) /\ FreePerSlot \in Nat
  BY Sizes DEF State, Tiled
<1> HIDE DEF n, flags, prot, req
<1>6. r.st = "OK"
  <2>1. PICK x \in Exts(s.free) : page \in PagesOf(x) BY DEF Pgs
  <2>2. x.base \in Nat /\ x.len \in Nat BY <1>5 DEF Listed, Exts, Sound, Ext
  <2>3. Fits(x, req) BY <1>2, <1>3, <1>4, <2>1, <2>2 DEF Fits, InRange, PagesOf
  <2>4. r.st = "OK" \/ req.len = 0 \/ \A y \in Exts(s.free) : ~Fits(y, req)
    BY <1>5, ExtractList
  <2> QED BY <1>4, <2>3, <2>4
<1>7. Sound(e) /\ Plain(e) /\ e \in Exts(s.free) /\ Fits(e, req) BY <1>5, <1>6, FreeOut
<1>8. n = KeepRight(t, c, ok) BY <1>1, <1>6 DEF AllocFrom, KeepLeft
<1> HIDE DEF e, r
<1>9. InRange(e, page, 1) BY <1>2, <1>4, <1>7, FitsRange
<1>10. e.base = page
  <2>1. e.base \in Nat /\ e.len \in Nat /\ PagesOf(e) \subseteq Zone(e) /\ PagesOf(e) \subseteq Pgs(s.free)
    BY <1>7 DEF Sound, Ext, Pgs
  <2>2. page \in PagesOf(e) BY <2>1, <1>2, <1>9 DEF InRange, PagesOf
  <2>3. Zone(e) = High BY <2>1, <2>2, PageAssumption DEF Zone
  <2>4. e.base <= page /\ (e.base < page => page - 1 \in PagesOf(e))
    BY <2>1, <1>2, <1>9 DEF InRange, PagesOf
  <2> QED BY <2>1, <2>3, <2>4, <1>2
<1>101. mid.prot = {"W"} /\ "LOCKED" \in mid.flags BY DEF Middle, flags, prot
<1>11. Sound(mid) /\ InRange(e, mid.base, mid.len) /\ mid.base = page /\ mid.len = 1
  <2>1. page \in {BaseAuto} \cup Nat BY <1>2
  <2> QED BY <2>1, <1>2, <1>3, <1>7, <1>9, MiddleSound
<1> HIDE DEF mid
<1>12. IsCut(e, mid, c) BY <1>2, <1>7, <1>11, CutParts
<1> HIDE DEF c
<1>13. c.right.len = 0 BY <1>7, <1>10, <1>11, <1>12, BothSides
<1>140. LeftIn(s, mid, c, t) BY <1>6, <1>12, LeftKept DEF e, r
<1> HIDE DEF t
<1>14. State(t, PagesOf(mid) \cup PagesOf(c.right)) /\ t.alloc = s.alloc
  BY <1>140 DEF LeftIn
<1>150. RightIn(t, c.right, PagesOf(mid), v)
  <2>1. c.right \in Ext /\ PagesOf(mid) \cap PagesOf(c.right) = {} BY <1>12 DEF IsCut
  <2>2. HasRoom(t.free, c.right) BY <1>13 DEF HasRoom
  <2>3. PagesOf(mid) \in SUBSET Pages BY <1>11, InPages
  <2> QED BY <1>13, <1>14, <2>1, <2>2, <2>3, RightKept
<1>15. State(v, PagesOf(mid)) /\ v.alloc = t.alloc BY <1>150 DEF RightIn
<1>16. n = NoteTaken(v, c, FALSE, ok) BY <1>8, <1>13 DEF KeepRight, HasRoom
<1> HIDE DEF v, ok
<1>17. HasRoom(v.alloc, mid) BY <1>14, <1>15 DEF HasRoom
<1>18. c.mid = mid BY <1>12 DEF IsCut
<1>19. n = Noted(v, c, Insert(v.alloc, mid), FALSE) BY <1>16, <1>17, <1>18 DEF NoteTaken
<1>20. IsNoted(v, mid, FALSE, n) BY <1>11, <1>15, <1>17, <1>18, <1>19, NotedState
<1>21. State(n.s, {}) /\ n.s.alloc = Insert(v.alloc, mid).q
  <2>1. v \in Space BY <1>15 DEF State
  <2>2. n.s = [v EXCEPT !.alloc = Insert(v.alloc, mid).q] BY <1>20 DEF IsNoted
  <2>3. n.s.alloc = Insert(v.alloc, mid).q BY <2>1, <2>2 DEF Space
  <2> QED BY <1>20, <2>3 DEF IsNoted
<1>22. PagesOf(mid) = {page} BY <1>2, <1>11 DEF PagesOf
<1>23. /\ Pgs(n.s.alloc) = Pgs(s.alloc) \cup {page}
       /\ \A k \in DOMAIN s.alloc : k \in DOMAIN n.s.alloc /\ Avail(n.s.alloc[k]) >= Avail(s.alloc[k]) - 1
  <2> DEFINE M == PagesOf(mid)
             a == s.alloc
             i == Insert(a, mid)
  <2>1. Tiled(v.free, a, M) /\ M \in SUBSET Pages /\ PagesOf(mid) \subseteq M
    BY <1>11, <1>14, <1>15, InPages DEF State
  <2>2. i.st = "OK" BY <1>11, <1>14, <1>15, <1>17, Room
  <2>3. n.s.alloc = i.q BY <1>14, <1>15, <1>21
  <2> HIDE DEF M, a
  <2>4. /\ \A k \in DOMAIN a : k \in DOMAIN i.q /\ Avail(i.q[k]) >= Avail(a[k]) - 1
        /\ Pgs(i.q) = Pgs(a) \cup PagesOf(mid)
    BY <2>1, <2>2, <1>11, AllocIn
  <2> HIDE DEF i
  <2> QED BY <2>3, <2>4, <1>22 DEF a
<1>25. Keeps(s.alloc, n.s.alloc) /\ Grown(s, n.s, {page})
  <2>1. Keeps(v.alloc, n.s.alloc) /\ Grown(v, n.s, {page}) BY <1>20, <1>22 DEF IsNoted
  <2>2. Keeps(t.alloc, v.alloc) /\ Grown(t, v, {}) BY <1>15, <1>150, KeepsSelf DEF RightIn
  <2>3. Keeps(s.alloc, t.alloc) /\ Grown(s, t, {}) BY <1>14, <1>140, KeepsSelf DEF LeftIn
  <2>4. Grown(s, v, {} \cup {}) /\ Keeps(s.alloc, v.alloc)
    BY <2>2, <2>3, GrownTrans, KeepsTrans
  <2>5. Grown(s, n.s, ({} \cup {}) \cup {page}) /\ Keeps(s.alloc, n.s.alloc)
    BY <2>1, <2>4, GrownTrans, KeepsTrans
  <2>6. ({} \cup {}) \cup {page} = {page} OBVIOUS
  <2> QED BY <2>5, <2>6
<1>26. \E y \in Exts(n.s.alloc) : page \in PagesOf(y) /\ "LOCKED" \in y.flags /\ y.prot = {"W"}
  <2>1. PICK y \in Exts(n.s.alloc) : PagesOf(mid) \subseteq PagesOf(y) /\ Alike(mid, y)
    BY <1>20 DEF IsNoted, Within
  <2> QED BY <2>1, <1>22, <1>101 DEF Alike
<1>24. Reserve(s, page) = n.s BY DEF Reserve, n, flags, prot, ok
<1> QED BY <1>21, <1>23, <1>24, <1>25, <1>26 DEF Began

-------------------------------------------------------------------------------
(* What an operation on the space leaves of the rest of it.                *)

(* What an operation on the space leaves: all extents, but for pages of M, *)
(* and no new pages but those of N and of slots.                           *)
Moves(s, t, M, N) ==
  State(s, {}) /\ State(t, {}) /\ Carried(s.alloc, t.alloc, M) /\ Grown(s, t, N)

(* The lists lie in pages that are locked and present, and these are all   *)
(* that are locked; the page table agrees with the extents outside of M.   *)
Tidy(s) == Locked(s.alloc) \subseteq Pinned(s) /\ AllHeads(s) \subseteq Pinned(s)
Exact(s, M) == \A p \in Pages \ M :
  /\ \A x \in Exts(s.alloc) : p \in PagesOf(x) => s.tab[p] = x.prot
  /\ p \notin Pgs(s.alloc) => s.tab[p] = NoPage

LEMMA MovesKeeps ==
  ASSUME NEW s, NEW t, NEW N, State(s, {}), State(t, {}), Keeps(s.alloc, t.alloc), Grown(s, t, N)
  PROVE  Moves(s, t, {}, N)
BY KeepsCarried DEF Moves

LEMMA AllocPages ==
  ASSUME NEW s, State(s, {})
  PROVE  /\ Listed(s.alloc, AllocPerSlot) /\ Pgs(s.alloc) \subseteq Pages
         /\ Pinned(s) \subseteq Locked(s.alloc) /\ Locked(s.alloc) \subseteq Pgs(s.alloc)
<1>1. Tiled(s.free, s.alloc, {}) BY DEF State
<1>2. Listed(s.alloc, AllocPerSlot) /\ Pgs(s.alloc) \subseteq Pages BY <1>1 DEF Tiled
<1>3. Pinned(s) \subseteq Locked(s.alloc) BY DEF Pinned, Locked
<1>4. Locked(s.alloc) \subseteq Pgs(s.alloc) BY DEF Locked, Pgs
<1> QED BY <1>2, <1>3, <1>4

LEMMA OnePage ==
  ASSUME NEW f, NEW g, NEW M, Carried(f, g, M), NEW x \in Exts(f), NEW p \in Nat, p \in PagesOf(x) \ M
  PROVE  \E y \in Exts(g) : p \in PagesOf(y) /\ Alike(x, y)
<1>1. p .. p = {p} /\ p <= p BY SMT
<1>2. p .. p \subseteq PagesOf(x) \ M BY <1>1
<1>3. PICK y \in Exts(g) : p .. p \subseteq PagesOf(y) /\ Alike(x, y)
  BY <1>1, <1>2 DEF Carried
<1> QED BY <1>1, <1>3

LEMMA MovesPage ==
  ASSUME NEW s, NEW t, NEW M, NEW N, Moves(s, t, M, N), NEW p \in Pages \ M
  PROVE  /\ p \in Pgs(s.alloc) => p \in Pgs(t.alloc)
         /\ p \in Pinned(s) => p \in Pinned(t)
         /\ p \in Pgs(s.alloc) /\ p \in Locked(t.alloc) => p \in Locked(s.alloc)
<1>1. p \in Nat BY PageAssumption DEF Pages
<1>2. Carried(s.alloc, t.alloc, M) /\ Listed(t.alloc, AllocPerSlot)
  BY AllocPages DEF Moves
<1>3. ASSUME NEW x \in Exts(s.alloc), p \in PagesOf(x)
      PROVE  \E y \in Exts(t.alloc) : p \in PagesOf(y) /\ Alike(x, y)
  BY <1>1, <1>2, <1>3, OnePage
<1>4. p \in Pgs(s.alloc) => p \in Pgs(t.alloc) BY <1>3 DEF Pgs
<1>5. ASSUME p \in Pinned(s) PROVE p \in Pinned(t)
  <2>1. PICK x \in Exts(s.alloc) : p \in PagesOf(x) /\ "LOCKED" \in x.flags /\ x.prot = {"W"}
    BY <1>5 DEF Pinned
  <2>2. PICK y \in Exts(t.alloc) : p \in PagesOf(y) /\ Alike(x, y) BY <1>3, <2>1
  <2>3. "LOCKED" \in y.flags /\ y.prot = {"W"} BY <2>1, <2>2 DEF Alike
  <2>4. s.tab[p] = {"W"} BY <1>5 DEF Pinned
  <2>5. t.tab[p] = s.tab[p] \/ p \in Pinned(t) BY DEF Moves, Grown
  <2> QED BY <2>2, <2>3, <2>4, <2>5 DEF Pinned
<1>6. ASSUME p \in Pgs(s.alloc), p \in Locked(t.alloc) PROVE p \in Locked(s.alloc)
  <2>1. PICK x \in Exts(s.alloc) : p \in PagesOf(x) BY <1>6 DEF Pgs
  <2>2. PICK y \in Exts(t.alloc) : p \in PagesOf(y) /\ Alike(x, y) BY <1>3, <2>1
  <2>3. PICK z \in Exts(t.alloc) : p \in PagesOf(z) /\ "LOCKED" \in z.flags
    BY <1>6 DEF Locked
  <2>4. y = z BY <1>2, <2>2, <2>3, SameExt
  <2>5. "LOCKED" \in x.flags BY <2>2, <2>3, <2>4 DEF Alike
  <2> QED BY <2>1, <2>5 DEF Locked
<1> QED BY <1>4, <1>5, <1>6

(* Only the pages of slots become locked, and those are present.           *)
LEMMA MovesTidy ==
  ASSUME NEW s, NEW t, NEW M, NEW N, Moves(s, t, M, N), Tidy(s),
         M \cap Locked(s.alloc) = {}, M \cap Locked(t.alloc) = {}, N \cap Locked(t.alloc) = {}
  PROVE  Tidy(t)
<1>1. /\ State(s, {}) /\ State(t, {})
      /\ Pgs(t.alloc) \subseteq Pgs(s.alloc) \cup N \cup Pinned(t) /\ AllHeads(t) \subseteq AllHeads(s) \cup Pinned(t)
  BY DEF Moves, Grown
<1>2. ASSUME NEW p \in Pinned(s) PROVE p \in Pinned(t)
  <2>1. p \in Locked(s.alloc) /\ p \in Pages BY <1>1, AllocPages DEF Pinned
  <2> QED BY <2>1, MovesPage
<1>3. ASSUME NEW p \in Locked(t.alloc) PROVE p \in Pinned(t)
  <2>1. p \in Pgs(t.alloc) /\ p \in Pages BY <1>1, AllocPages
  <2>2. CASE p \in Pgs(s.alloc)
    <3>1. p \in Locked(s.alloc) BY <2>1, <2>2, MovesPage
    <3> QED BY <3>1, <1>2 DEF Tidy
  <2> QED BY <1>1, <2>1, <2>2
<1>4. AllHeads(t) \subseteq Pinned(t) BY <1>1, <1>2 DEF Tidy
<1> QED BY <1>3, <1>4 DEF Tidy

(* The page table follows the extents, but for what is under way.          *)
LEMMA MovesExact ==
  ASSUME NEW s, NEW t, NEW M, NEW N, NEW K, Moves(s, t, M, N), Exact(s, K), M \subseteq K, N \subseteq K
  PROVE  Exact(t, K)
<1>1. /\ State(s, {}) /\ State(t, {}) /\ Carried(s.alloc, t.alloc, M)
      /\ Pgs(t.alloc) \subseteq Pgs(s.alloc) \cup N \cup Pinned(t)
      /\ \A p \in Pages : t.tab[p] = s.tab[p] \/ p \in Pinned(t)
  BY DEF Moves, Grown
<1>2. Listed(t.alloc, AllocPerSlot) /\ Pinned(t) \subseteq Pgs(t.alloc)
  BY <1>1, AllocPages
<1>3. ASSUME NEW p \in Pages \ K, NEW x \in Exts(t.alloc), p \in PagesOf(x)
      PROVE  t.tab[p] = x.prot
  <2>1. CASE p \in Pinned(t)
    <3>1. PICK y \in Exts(t.alloc) : p \in PagesOf(y) /\ y.prot = {"W"} BY <2>1 DEF Pinned
    <3>2. x = y BY <1>2, <1>3, <3>1, SameExt
    <3> QED BY <2>1, <3>1, <3>2 DEF Pinned
  <2>2. CASE p \notin Pinned(t)
    <3>1. p \in Pgs(t.alloc) BY <1>3 DEF Pgs
    <3>2. p \in Pgs(s.alloc) BY <1>1, <2>2, <3>1
    <3>3. PICK y \in Exts(s.alloc) : p \in PagesOf(y) BY <3>2 DEF Pgs
    <3>4. p \in Nat BY PageAssumption DEF Pages
    <3>5. PICK z \in Exts(t.alloc) : p \in PagesOf(z) /\ Alike(y, z)
      BY <1>1, <3>3, <3>4, OnePage
    <3>6. x = z BY <1>2, <1>3, <3>5, SameExt
    <3>7. s.tab[p] = y.prot BY <3>3 DEF Exact
    <3> QED BY <1>1, <2>2, <3>5, <3>6, <3>7 DEF Alike
  <2> QED BY <2>1, <2>2
<1>4. ASSUME NEW p \in Pages \ K, p \notin Pgs(t.alloc) PROVE t.tab[p] = NoPage
  <2>1. p \notin Pgs(s.alloc) BY <1>4, MovesPage
  <2>2. s.tab[p] = NoPage BY <2>1 DEF Exact
  <2> QED BY <1>1, <1>2, <1>4, <2>2
<1> QED BY <1>3, <1>4 DEF Exact

(* What callers hold: the pages of a grant are noted and not locked, and   *)
(* if nobody changed it, it is in one extent.                              *)
Of(g) == Span(g.base, g.len)
GrantSet == [base : Nat, len : Nat \ {0}, type : {"ALLOCATED", "MAPPED"}, whole : BOOLEAN]
HeldBy(s, g) == \E y \in Exts(s.alloc) : Of(g) \subseteq PagesOf(y) /\ "LOCKED" \notin y.flags
Holding(s, G) == \A g \in G :
  Of(g) \subseteq Pgs(s.alloc) /\ Of(g) \cap Locked(s.alloc) = {} /\ (g.whole => HeldBy(s, g))

(* What callers hold survives an operation that does not touch it.         *)
LEMMA MovesHolding ==
  ASSUME NEW s, NEW t, NEW M, NEW N, Moves(s, t, M, N), NEW G \in SUBSET GrantSet, Holding(s, G),
         \A g \in G : Of(g) \cap M = {}
  PROVE  Holding(t, G)
<1>1. State(s, {}) /\ Carried(s.alloc, t.alloc, M) BY DEF Moves
<1>2. ASSUME NEW g \in G, NEW p \in Of(g)
      PROVE  p \in Pgs(t.alloc) /\ p \notin Locked(t.alloc)
  <2>1. p \in Pgs(s.alloc) /\ p \notin Locked(s.alloc) /\ p \notin M BY DEF Holding
  <2>2. p \in Pages \ M BY <1>1, <2>1, AllocPages
  <2> QED BY <2>1, <2>2, MovesPage
<1>3. ASSUME NEW g \in G, HeldBy(s, g) PROVE HeldBy(t, g)
  <2>1. PICK x \in Exts(s.alloc) : Of(g) \subseteq PagesOf(x) /\ "LOCKED" \notin x.flags
    BY <1>3 DEF HeldBy
  <2>2. g.base \in Nat /\ g.len \in Nat /\ g.len > 0 BY DEF GrantSet
  <2>3. g.base + g.len - 1 \in Nat /\ g.base <= g.base + g.len - 1 BY <2>2
  <2>4. Of(g) = g.base .. g.base + g.len - 1 BY DEF Of, Span
  <2>5. g.base .. g.base + g.len - 1 \subseteq PagesOf(x) \ M BY <2>1, <2>4
  <2>6. PICK y \in Exts(t.alloc) : g.base .. g.base + g.len - 1 \subseteq PagesOf(y) /\ Alike(x, y)
    BY <1>1, <2>2, <2>3, <2>5 DEF Carried
  <2> QED BY <2>1, <2>4, <2>6 DEF HeldBy, Alike
<1> QED BY <1>2, <1>3 DEF Holding

-------------------------------------------------------------------------------
Prot == {NoPage} \cup SUBSET {"W"}

FilledIn(s, S, prot, u) ==
  /\ State(u, {}) /\ u.alloc = s.alloc /\ u.free = s.free
  /\ \A p \in Pages : u.tab[p] = IF p \in S THEN prot ELSE s.tab[p]

(* The page table, filled with one entry over a range.                     *)
LEMMA FilledState ==
  ASSUME NEW s, State(s, {}), NEW S, NEW prot \in Prot
  PROVE  FilledIn(s, S, prot, Filled(s, S, prot))
<1> DEFINE tab == [p \in Pages |-> IF p \in S THEN prot ELSE s.tab[p]]
           u == Filled(s, S, prot)
<1>1. s \in Space /\ Tiled(s.free, s.alloc, {}) BY DEF State
<1>2. tab \in [Pages -> {NoPage} \cup SUBSET {"W"}]
  <2>1. \A p \in Pages : s.tab[p] \in {NoPage} \cup SUBSET {"W"} BY <1>1 DEF Space
  <2> QED BY <2>1 DEF Prot
<1>3. u = [s EXCEPT !.tab = tab] BY DEF Filled
<1>6. \A p \in Pages : tab[p] = IF p \in S THEN prot ELSE s.tab[p] OBVIOUS
<1> HIDE DEF tab, u
<1>4. u = [free |-> s.free, alloc |-> s.alloc, tab |-> tab] BY <1>1, <1>3 DEF Space
<1>5. State([free |-> s.free, alloc |-> s.alloc, tab |-> tab], {}) BY <1>1, <1>2, NewState
<1>7. FilledIn(s, S, prot, u) BY <1>4, <1>5, <1>6 DEF FilledIn
<1> QED BY <1>7 DEF u

LEMMA FilledTidy ==
  ASSUME NEW s, State(s, {}), NEW S, NEW prot, NEW u, FilledIn(s, S, prot, u), Tidy(s), S \cap Locked(s.alloc) = {}
  PROVE  Tidy(u)
<1>1. Pinned(s) \subseteq Pinned(u)
  <2>1. ASSUME NEW p \in Pinned(s) PROVE p \in Pinned(u)
    <3>1. p \notin S BY AllocPages
    <3>2. p \in Pages /\ u.tab[p] = s.tab[p] /\ u.alloc = s.alloc
      BY <3>1 DEF FilledIn, Pinned
    <3> QED BY <3>2 DEF Pinned
  <2> QED BY <2>1
<1>2. AllHeads(u) = AllHeads(s) /\ u.alloc = s.alloc BY DEF AllHeads, FilledIn
<1> QED BY <1>1, <1>2 DEF Tidy

LEMMA FilledExact ==
  ASSUME NEW s, State(s, {}), NEW S, NEW prot, NEW u, FilledIn(s, S, prot, u), Exact(s, S),
         \/ prot = NoPage /\ S \cap Pgs(s.alloc) = {}
         \/ \E y \in Exts(s.alloc) : S \subseteq PagesOf(y) /\ y.prot = prot
  PROVE  Exact(u, {})
<1>1. u.alloc = s.alloc /\ Listed(s.alloc, AllocPerSlot) BY AllocPages DEF FilledIn
<1>2. ASSUME NEW p \in Pages, p \notin S
      PROVE  /\ \A x \in Exts(u.alloc) : p \in PagesOf(x) => u.tab[p] = x.prot
             /\ p \notin Pgs(u.alloc) => u.tab[p] = NoPage
  BY <1>1, <1>2 DEF Exact, FilledIn
<1>3. ASSUME NEW p \in Pages, p \in S
      PROVE  /\ \A x \in Exts(u.alloc) : p \in PagesOf(x) => u.tab[p] = x.prot
             /\ p \notin Pgs(u.alloc) => u.tab[p] = NoPage
  <2>1. u.tab[p] = prot BY <1>3 DEF FilledIn
  <2>2. CASE prot = NoPage /\ S \cap Pgs(s.alloc) = {}
    <3>1. p \notin Pgs(s.alloc) BY <1>3, <2>2
    <3>2. \A x \in Exts(s.alloc) : p \notin PagesOf(x) BY <3>1 DEF Pgs
    <3> QED BY <1>1, <2>1, <2>2, <3>2
  <2>3. CASE \E y \in Exts(s.alloc) : S \subseteq PagesOf(y) /\ y.prot = prot
    <3>1. PICK y \in Exts(s.alloc) : S \subseteq PagesOf(y) /\ y.prot = prot BY <2>3
    <3>2. ASSUME NEW x \in Exts(s.alloc), p \in PagesOf(x) PROVE x = y
      BY <1>1, <1>3, <3>1, <3>2, SameExt
    <3>3. p \in Pgs(s.alloc) BY <1>3, <3>1 DEF Pgs
    <3> QED BY <1>1, <2>1, <3>1, <3>2, <3>3
  <2> QED BY <2>2, <2>3
<1> QED BY <1>2, <1>3 DEF Exact

LEMMA FilledHolding ==
  ASSUME NEW s, NEW S, NEW prot, NEW u, FilledIn(s, S, prot, u), NEW G, Holding(s, G)
  PROVE  Holding(u, G)
BY DEF FilledIn, Holding, HeldBy

(* The range that was given is not locked.                                 *)
LEMMA GivenLoose ==
  ASSUME NEW s, NEW t, State(t, {}), NEW at, NEW len, NEW flags, NEW prot, Given(s, t, at, len, flags, prot),
         "LOCKED" \notin flags
  PROVE  /\ Span(at, len) \cap Locked(t.alloc) = {}
         /\ \E y \in Exts(t.alloc) : Span(at, len) \subseteq PagesOf(y) /\ y.prot = prot /\ "LOCKED" \notin y.flags
<1>1. PICK y \in Exts(t.alloc) : Span(at, len) \subseteq PagesOf(y) /\ y.prot = prot /\ "LOCKED" \notin y.flags
  <2>1. PICK y \in Exts(t.alloc) : /\ Span(at, len) \subseteq PagesOf(y) /\ y.prot = prot
                                  /\ ("LOCKED" \in y.flags <=> "LOCKED" \in flags)
    BY DEF Given
  <2>2. "LOCKED" \notin y.flags BY <2>1
  <2> QED BY <2>1, <2>2
<1>2. ASSUME NEW p \in Span(at, len), p \in Locked(t.alloc) PROVE FALSE
  <2>1. PICK x \in Exts(t.alloc) : p \in PagesOf(x) /\ "LOCKED" \in x.flags
    BY <1>2 DEF Locked
  <2>2. x = y BY <1>1, <2>1, AllocPages, SameExt
  <2> QED BY <1>1, <2>1, <2>2
<1> QED BY <1>1, <1>2

-------------------------------------------------------------------------------
(* The inductive invariant, its start, and what was given or given back.   *)

Sep(G) == \A g, h \in G : g # h => Of(g) \cap Of(h) = {}
Grants(G) == G \in SUBSET GrantSet /\ Sep(G) /\ \A g \in G : g.type = "MAPPED" => g.whole

(* Between two calls, and within one, where K are the pages that are       *)
(* still to be entered in the page table.                                  *)
Part(s, G, K) == State(s, {}) /\ Tidy(s) /\ Grants(G) /\ Exact(s, K) /\ Holding(s, G)

Good(s, G, h) ==
  /\ State(s, {}) /\ Tidy(s) /\ Grants(G) /\ \A g \in G : Of(g) \cap Locked(s.alloc) = {}
  /\ h # "unmap" /\ (h = "no" => Part(s, G, {}))
IInv == ~mishap => Good(space, grants, halted)

LEMMA PartGood ==
  ASSUME NEW s, NEW G, Part(s, G, {}), NEW h, h # "unmap"
  PROVE  Good(s, G, h)
BY DEF Part, Good, Holding

LEMMA ExactMore == ASSUME NEW s, NEW K, NEW L, Exact(s, K), K \subseteq L PROVE Exact(s, L)
BY DEF Exact

LEMMA PartKept ==
  ASSUME NEW s, NEW t, NEW G, NEW K, Part(s, G, K), State(t, {}), Keeps(s.alloc, t.alloc), Grown(s, t, {})
  PROVE  Part(t, G, K)
<1>1. Moves(s, t, {}, {}) BY MovesKeeps DEF Part
<1>2. Tidy(t) BY <1>1, MovesTidy DEF Part
<1>3. Exact(t, K) BY <1>1, MovesExact DEF Part
<1>4. Holding(t, G) BY <1>1, MovesHolding DEF Part, Grants
<1> QED BY <1>2, <1>3, <1>4 DEF Part

LEMMA GivenTidy ==
  ASSUME NEW s, NEW t, State(s, {}), Tidy(s), State(t, {}), NEW at, NEW len, NEW flags, NEW prot,
         Given(s, t, at, len, flags, prot), "LOCKED" \notin flags
  PROVE  Tidy(t) /\ Moves(s, t, {}, Span(at, len))
<1>1. Moves(s, t, {}, Span(at, len)) BY MovesKeeps DEF Given
<1>2. Span(at, len) \cap Locked(t.alloc) = {} BY GivenLoose
<1> QED BY <1>1, <1>2, MovesTidy

LEMMA PartGiven ==
  ASSUME NEW s, NEW t, NEW G, NEW K, Part(s, G, K), State(t, {}), NEW at, NEW len, NEW flags, NEW prot,
         Given(s, t, at, len, flags, prot), "LOCKED" \notin flags, Span(at, len) \subseteq K
  PROVE  Part(t, G, K)
<1>1. Tidy(t) /\ Moves(s, t, {}, Span(at, len)) BY GivenTidy DEF Part
<1>2. Exact(t, K) BY <1>1, MovesExact DEF Part
<1>3. Holding(t, G) BY <1>1, MovesHolding DEF Part, Grants
<1> QED BY <1>1, <1>2, <1>3 DEF Part

LEMMA PartTaken ==
  ASSUME NEW s, NEW t, NEW G, NEW K, Part(s, G, K), State(t, {}), NEW at, NEW len, NEW e,
         Taken(s, t, at, len, e), Span(at, len) \subseteq K, NEW H \in SUBSET G,
         \A g \in H : Of(g) \cap Span(at, len) = {}
  PROVE  Part(t, H, K) /\ Moves(s, t, Span(at, len), {})
<1> DEFINE S == Span(at, len)
<1>1. Moves(s, t, S, {}) BY DEF Part, Taken, Moves
<1>2. S \cap Locked(s.alloc) = {}
  <2>1. ASSUME NEW p \in S, p \in Locked(s.alloc) PROVE FALSE
    <3>1. PICK x \in Exts(s.alloc) : p \in PagesOf(x) /\ "LOCKED" \in x.flags
      BY <2>1 DEF Locked
    <3>2. e \in Exts(s.alloc) /\ p \in PagesOf(e) /\ "LOCKED" \notin e.flags
      BY <2>1 DEF Taken
    <3>3. x = e BY <3>1, <3>2, AllocPages, SameExt DEF Part
    <3> QED BY <3>1, <3>2, <3>3
  <2> QED BY <2>1
<1>3. S \cap Pgs(t.alloc) = {} BY DEF Taken
<1>4. S \cap Locked(t.alloc) = {} BY <1>3, AllocPages
<1> HIDE DEF S
<1>5. Tidy(t) BY <1>1, <1>2, <1>4, MovesTidy DEF Part
<1>6. Exact(t, K) BY <1>1, MovesExact DEF Part, S
<1>7. Grants(H) BY DEF Part, Grants, Sep
<1>8. Holding(s, H) BY DEF Part, Holding
<1>9. Holding(t, H) BY <1>1, <1>7, <1>8, MovesHolding DEF Grants, S
<1> QED BY <1>1, <1>5, <1>6, <1>7, <1>9 DEF Part, S

LEMMA PartFilled ==
  ASSUME NEW s, NEW G, NEW S, NEW prot, NEW u, Part(s, G, S), FilledIn(s, S, prot, u),
         S \cap Locked(s.alloc) = {},
         \/ prot = NoPage /\ S \cap Pgs(s.alloc) = {}
         \/ \E y \in Exts(s.alloc) : S \subseteq PagesOf(y) /\ y.prot = prot
  PROVE  Part(u, G, {})
<1>1. Tidy(u) BY FilledTidy DEF Part
<1>2. Exact(u, {}) BY FilledExact DEF Part
<1>3. Holding(u, G) BY FilledHolding DEF Part
<1>4. State(u, {}) BY DEF FilledIn
<1> QED BY <1>1, <1>2, <1>3, <1>4 DEF Part

-------------------------------------------------------------------------------
(* The lists and the page table as vm_init leaves them.                    *)
LEMMA InitState == Init => IInv
<1> SUFFICES ASSUME Init PROVE IInv OBVIOUS
<1> DEFINE s == Reserve(Bare, FirstHigh)
           u == Reserve(s, FirstHigh + 1)
           H == {FirstHigh, FirstHigh + 1}
<1>1. /\ FirstHigh \in High /\ FirstHigh + 1 \in High /\ FirstHigh \in Nat
      /\ FirstHigh - 1 \notin High
  BY HighRange
<1>2. FirstHigh \in Pages /\ FirstHigh + 1 \in Pages BY <1>1 DEF Pages
<1>3. Listed(Bare.alloc, AllocPerSlot) BY BareState DEF State, Tiled
<1>4. Roomy(Bare.alloc) # {} BY <1>3, BareState, WideRoomy, Sizes
<1>5. Pgs(Bare.free) = Pages BY BareState DEF State, Tiled
<1>6. Began(Bare, FirstHigh, s) BY <1>1, <1>2, <1>4, <1>5, BareState, ReserveState
<1> HIDE DEF s
<1>7. /\ State(s, {}) /\ Pgs(s.alloc) = {FirstHigh}
      /\ \A k \in DOMAIN Bare.alloc : k \in DOMAIN s.alloc /\ Avail(s.alloc[k]) >= Avail(Bare.alloc[k]) - 1
  BY <1>6, BareState DEF Began
<1>8. Listed(s.alloc, AllocPerSlot) BY <1>7 DEF State, Tiled
<1>9. Roomy(s.alloc) # {} BY <1>3, <1>7, <1>8, BareState, WideInsert, Sizes
<1>10. Pgs(s.free) = Pages \ {FirstHigh} BY <1>7 DEF State, Tiled
<1>11. FirstHigh + 1 \in Pgs(s.free) /\ (FirstHigh + 1) - 1 \notin Pgs(s.free)
  BY <1>1, <1>2, <1>10
<1>12. Began(s, FirstHigh + 1, u) BY <1>1, <1>7, <1>9, <1>11, ReserveState
<1> HIDE DEF u
<1>13. State(u, {}) /\ Pgs(u.alloc) = H BY <1>7, <1>12 DEF Began
<1>14. /\ Keeps(Bare.alloc, s.alloc) /\ Grown(Bare, s, {FirstHigh})
       /\ Keeps(s.alloc, u.alloc) /\ Grown(s, u, {FirstHigh + 1})
  BY <1>6, <1>12 DEF Began
<1>15. Grown(Bare, u, {FirstHigh} \cup {FirstHigh + 1}) BY <1>14, GrownTrans
<1>16. /\ AllHeads(u) \subseteq H \cup Pinned(u)
       /\ \A p \in Pages : p \in Pinned(u) \/ u.tab[p] = IF p \in H THEN {"W"} ELSE NoPage
  BY <1>15, BareState DEF Grown, Fresh
<1>17. ASSUME NEW p \in H PROVE p \in Pinned(u)
  <2>1. p \in Pages BY <1>2
  <2>2. \E y \in Exts(u.alloc) : p \in PagesOf(y) /\ "LOCKED" \in y.flags /\ y.prot = {"W"}
    <3>1. CASE p = FirstHigh + 1 BY <1>12, <3>1 DEF Began
    <3>2. CASE p = FirstHigh
      <4>1. PICK x \in Exts(s.alloc) : p \in PagesOf(x) /\ "LOCKED" \in x.flags /\ x.prot = {"W"}
        BY <1>6, <3>2 DEF Began
      <4>2. PICK y \in Exts(u.alloc) : PagesOf(x) \subseteq PagesOf(y) /\ Alike(x, y)
        BY <1>14 DEF Keeps, Within
      <4> QED BY <4>1, <4>2 DEF Alike
    <3> QED BY <3>1, <3>2
  <2> QED BY <2>1, <2>2, <1>16 DEF Pinned
<1> HIDE DEF H
<1>18. Tidy(u)
  <2>1. Locked(u.alloc) \subseteq H BY <1>13, AllocPages
  <2> QED BY <2>1, <1>16, <1>17 DEF Tidy
<1>19. Exact(u, {})
  <2>1. ASSUME NEW p \in Pages, NEW x \in Exts(u.alloc), p \in PagesOf(x)
        PROVE  u.tab[p] = x.prot
    <3>1. p \in Pinned(u) BY <2>1, <1>13, <1>17 DEF Pgs
    <3>2. PICK y \in Exts(u.alloc) : p \in PagesOf(y) /\ y.prot = {"W"} BY <3>1 DEF Pinned
    <3>3. x = y BY <1>13, <2>1, <3>2, AllocPages, SameExt
    <3> QED BY <3>1, <3>2, <3>3 DEF Pinned
  <2>2. ASSUME NEW p \in Pages, p \notin Pgs(u.alloc) PROVE u.tab[p] = NoPage
    <3>1. p \notin H /\ p \notin Pinned(u) BY <1>13, <2>2, AllocPages
    <3> QED BY <3>1, <1>16
  <2> QED BY <2>1, <2>2 DEF Exact
<1>20. space = u /\ grants = {} /\ halted = "no" BY DEF Init, u, s
<1>21. Part(u, {}, {}) BY <1>13, <1>18, <1>19 DEF Part, Grants, Sep, Holding
<1>22. Good(u, {}, "no") BY <1>21, PartGood
<1> QED BY <1>20, <1>22 DEF IInv

-------------------------------------------------------------------------------
LEMMA SafeAuto == \A s, len : Safe(s, BaseAuto, len)
BY DEF Safe

LEMMA SafeLow == \A s, len : \A at \in Low : Safe(s, at, len)
BY DEF Safe

(* What was given and not entered in the page table can be given back.     *)
LEMMA BackGood ==
  ASSUME NEW s, NEW G, Part(s, G, {}), NEW t, State(t, {}), NEW at \in Nat, NEW len \in Nat \ {0},
         NEW flags, NEW prot, Given(s, t, at, len, flags, prot), "LOCKED" \notin flags,
         NEW f, Freeing(t, at, len, f), ~f.mishap
  PROVE  Part(f.s, G, {})
<1> DEFINE S == Span(at, len)
<1>1. PICK y \in Exts(t.alloc) : S \subseteq PagesOf(y) /\ "LOCKED" \notin y.flags
  BY GivenLoose
<1>2. S \cap Locked(t.alloc) = {} BY GivenLoose
<1>3. f.st = "OK" /\ State(f.s, {}) /\ Taken(t, f.s, at, len, f.ext)
  <2>1. ~Spared(t, f.s, at, len) BY <1>1 DEF Spared
  <2> QED BY <2>1 DEF Freeing
<1>4. S \subseteq Pages \ Pgs(s.alloc) /\ Grown(s, t, S) BY DEF Given
<1>5. Exact(s, {}) /\ Holding(s, G) /\ State(s, {}) BY DEF Part
<1>6. Part(s, G, S) BY ExactMore DEF Part
<1>7. Part(t, G, S) BY <1>6, PartGiven
<1>8. \A g \in G : Of(g) \cap S = {} BY <1>4, <1>5 DEF Holding
<1>9. Part(f.s, G, S) BY <1>3, <1>7, <1>8, PartTaken
<1>10. S \cap Pgs(f.s.alloc) = {} /\ Grown(t, f.s, {}) BY <1>3 DEF Taken
<1>11. ASSUME NEW p \in S PROVE p \in Pages /\ f.s.tab[p] = NoPage
  <2>1. p \in Pages /\ p \notin Pgs(s.alloc) BY <1>4
  <2>2. s.tab[p] = NoPage BY <2>1, <1>5 DEF Exact
  <2>3. p \notin Pinned(t) BY <1>2, AllocPages
  <2>4. t.tab[p] = NoPage BY <2>1, <2>2, <2>3, <1>4 DEF Grown
  <2>5. p \notin Pinned(f.s) BY <1>3, <1>10, AllocPages
  <2> QED BY <2>1, <2>4, <2>5, <1>10 DEF Grown
<1> HIDE DEF S
<1>12. Exact(f.s, {})
  <2>1. Exact(f.s, S) BY <1>9 DEF Part
  <2>2. \A p \in S : \A x \in Exts(f.s.alloc) : p \notin PagesOf(x) BY <1>10 DEF Pgs
  <2> QED BY <2>1, <2>2, <1>11 DEF Exact
<1> QED BY <1>9, <1>12 DEF Part

(* What was given, entered in the page table, is a grant.                  *)
LEMMA GrantGood ==
  ASSUME NEW s, NEW G, Part(s, G, {}), NEW t, State(t, {}), NEW at \in Nat, NEW len \in Nat \ {0},
         NEW flags, Given(s, t, at, len, flags, {"W"}), "LOCKED" \notin flags,
         NEW type \in {"ALLOCATED", "MAPPED"}
  PROVE  Part(Filled(t, Span(at, len), {"W"}), G \cup {Grant(at, len, type)}, {})
<1> DEFINE S == Span(at, len)
           u == Filled(t, S, {"W"})
           g == Grant(at, len, type)
<1>1. PICK y \in Exts(t.alloc) : S \subseteq PagesOf(y) /\ y.prot = {"W"} /\ "LOCKED" \notin y.flags
  BY GivenLoose
<1>2. S \cap Locked(t.alloc) = {} BY GivenLoose
<1>3. S \cap Pgs(s.alloc) = {} BY DEF Given
<1>4. Part(s, G, S) BY ExactMore DEF Part
<1>5. Part(t, G, S) BY <1>4, PartGiven
<1>6. {"W"} \in Prot BY DEF Prot
<1>7. FilledIn(t, S, {"W"}, u) BY <1>6, FilledState
<1> HIDE DEF u
<1>8. Part(u, G, {}) BY <1>1, <1>2, <1>5, <1>7, PartFilled
<1>9. g \in GrantSet /\ Of(g) = S /\ g.whole BY DEF Grant, GrantSet, Of
<1> HIDE DEF g, S
<1>10. Grants(G \cup {g})
  <2>1. \A h \in G : Of(h) \cap S = {} BY <1>3 DEF Part, Holding
  <2>2. Sep(G \cup {g}) BY <2>1, <1>8, <1>9 DEF Part, Grants, Sep
  <2> QED BY <2>2, <1>8, <1>9 DEF Part, Grants
<1>11. Holding(u, G \cup {g})
  <2>1. u.alloc = t.alloc BY <1>7 DEF FilledIn
  <2>2. S \subseteq Pgs(u.alloc) BY <1>1, <2>1 DEF Pgs
  <2>3. HeldBy(u, g) BY <1>1, <1>9, <2>1 DEF HeldBy
  <2>4. Holding(u, G) BY <1>8 DEF Part
  <2> QED BY <2>1, <2>2, <2>3, <2>4, <1>2, <1>9 DEF Holding
<1>12. Part(u, G \cup {g}, {}) BY <1>8, <1>10, <1>11 DEF Part
<1> QED BY <1>12 DEF u, g, S

(* What was given and stays, though it is no grant: the caller has halted. *)
LEMMA HaltGood ==
  ASSUME NEW s, NEW G, Part(s, G, {}), NEW t, State(t, {}), NEW at, NEW len, NEW flags, NEW prot,
         Given(s, t, at, len, flags, prot), "LOCKED" \notin flags
  PROVE  Good(t, G, "pages")
<1>1. Part(s, G, Span(at, len)) BY ExactMore DEF Part
<1>2. Part(t, G, Span(at, len)) BY <1>1, PartGiven
<1> QED BY <1>2 DEF Good, Part, Holding

(* A grant that is given back as a whole.                                  *)
LEMMA TakeGood ==
  ASSUME NEW s, NEW G, Part(s, G, {}), NEW g \in G, NEW f, State(f, {}), NEW e,
         Taken(s, f, g.base, g.len, e)
  PROVE  Part(Filled(f, Span(g.base, g.len), NoPage), G \ {g}, {})
<1> DEFINE S == Span(g.base, g.len)
           H == G \ {g}
<1>1. Part(s, G, S) BY ExactMore DEF Part
<1>2. \A h \in H : Of(h) \cap S = {} BY DEF Part, Grants, Sep, Of
<1>3. H \in SUBSET G OBVIOUS
<1>4. S \cap Pgs(f.alloc) = {} BY DEF Taken
<1>5. S \cap Locked(f.alloc) = {} BY <1>4, AllocPages
<1> HIDE DEF H
<1>6. Part(f, H, S) BY <1>1, <1>2, <1>3, PartTaken
<1>7. NoPage \in Prot BY DEF Prot
<1> HIDE DEF S
<1>8. FilledIn(f, S, NoPage, Filled(f, S, NoPage)) BY <1>7, FilledState
<1>9. Part(Filled(f, S, NoPage), H, {}) BY <1>4, <1>5, <1>6, <1>8, PartFilled
<1> QED BY <1>9 DEF S, H

(* A part of a grant, freed and allocated again with other attributes.     *)
LEMMA ChangeGood ==
  ASSUME NEW s, NEW G, Part(s, G, {}), NEW g \in G, g.type = "ALLOCATED", NEW at, NEW len,
         Span(at, len) \subseteq Of(g),
         NEW f, State(f, {}), NEW e, Taken(s, f, at, len, e),
         NEW t, State(t, {}), NEW prot \in SUBSET {"W"}, Given(f, t, at, len, e.flags, prot)
  PROVE  Part(Filled(t, Span(at, len), prot), (G \ {g}) \cup {[g EXCEPT !.whole = FALSE]}, {})
<1> DEFINE S == Span(at, len)
           H == G \ {g}
           n == [g EXCEPT !.whole = FALSE]
           u == Filled(t, S, prot)
<1>1. Part(s, G, S) BY ExactMore DEF Part
<1>2. \A h \in H : Of(h) \cap Of(g) = {} BY DEF Part, Grants, Sep
<1>3. H \in SUBSET G /\ \A h \in H : Of(h) \cap S = {} BY <1>2
<1>4. "LOCKED" \notin e.flags BY DEF Taken
<1>5. /\ S \cap Locked(t.alloc) = {}
      /\ \E y \in Exts(t.alloc) : S \subseteq PagesOf(y) /\ y.prot = prot /\ "LOCKED" \notin y.flags
  BY <1>4, GivenLoose
<1>6. g \in GrantSet BY DEF Part, Grants
<1>7. n \in GrantSet /\ Of(n) = Of(g) /\ n.type = "ALLOCATED" /\ n.whole = FALSE
  BY <1>6 DEF GrantSet, Of
<1> HIDE DEF H, n
<1>8. Part(f, H, S) /\ Moves(s, f, S, {}) BY <1>1, <1>3, PartTaken
<1>9. Moves(f, t, {}, S) BY <1>4, <1>8, GivenTidy DEF Part
<1>10. Part(t, H, S) BY <1>4, <1>8, PartGiven
<1>11. prot \in Prot BY DEF Prot
<1> HIDE DEF u
<1>12. FilledIn(t, S, prot, u) BY <1>11, FilledState DEF u
<1> HIDE DEF S
<1>13. Part(u, H, {}) BY <1>5, <1>10, <1>12, PartFilled
<1>14. u.alloc = t.alloc BY <1>12 DEF FilledIn
<1>15. ASSUME NEW p \in Of(g) PROVE p \in Pgs(t.alloc) /\ p \notin Locked(t.alloc)
  <2>1. CASE p \in S BY <1>5, <2>1 DEF Pgs
  <2>2. CASE p \notin S
    <3>1. p \in Pgs(s.alloc) /\ p \notin Locked(s.alloc) BY DEF Part, Holding
    <3>2. p \in Pages BY <3>1, AllocPages DEF Part
    <3>3. p \in Pgs(f.alloc) /\ p \notin Locked(f.alloc)
      BY <1>8, <2>2, <3>1, <3>2, MovesPage
    <3> QED BY <1>9, <3>2, <3>3, MovesPage
  <2> QED BY <2>1, <2>2
<1>16. Holding(u, H \cup {n})
  <2>1. Holding(u, H) BY <1>13 DEF Part
  <2>2. Of(n) \subseteq Pgs(u.alloc) /\ Of(n) \cap Locked(u.alloc) = {}
    BY <1>7, <1>14, <1>15
  <2> QED BY <1>7, <2>1, <2>2 DEF Holding
<1>17. Grants(H \cup {n})
  <2>1. Grants(H) BY <1>13 DEF Part
  <2>2. Sep(H \cup {n}) BY <1>2, <1>7, <2>1 DEF Grants, Sep, H
  <2> QED BY <1>7, <2>1, <2>2 DEF Grants
<1>18. Part(u, H \cup {n}, {}) BY <1>13, <1>16, <1>17 DEF Part
<1> QED BY <1>18 DEF u, H, n, S

(* The same, when it could not be allocated again, or only as it was.      *)
LEMMA RetryGood ==
  ASSUME NEW s, NEW G, Part(s, G, {}), NEW g \in G, NEW at \in Nat, NEW len, Span(at, len) \subseteq Of(g),
         NEW f, State(f, {}), NEW e, Taken(s, f, at, len, e),
         NEW a, State(a, {}), Denied(f, a, at, len),
         NEW b, State(b, {}), NEW prot, Denied(a, b, at, len) \/ Given(a, b, at, len, e.flags, prot),
         NEW h \in {"attr", "lock"}
  PROVE  Good(b, G, h)
<1> DEFINE S == Span(at, len)
           H == G \ {g}
<1>1. Part(s, G, S) BY ExactMore DEF Part
<1>2. H \in SUBSET G /\ \A x \in H : Of(x) \cap S = {} BY DEF Part, Grants, Sep
<1>3. "LOCKED" \notin e.flags /\ S \cap Pgs(f.alloc) = {} BY DEF Taken
<1>4. S \cap Pgs(a.alloc) = {}
  <2>1. at # BaseAuto BY NotAuto
  <2> QED BY <1>3, <2>1 DEF Denied
<1>5. S \cap Locked(b.alloc) = {}
  <2>1. CASE Denied(a, b, at, len)
    <3>1. at # BaseAuto BY NotAuto
    <3>2. S \cap Pgs(b.alloc) = {} BY <1>4, <2>1, <3>1 DEF Denied
    <3> QED BY <3>2, AllocPages
  <2>2. CASE Given(a, b, at, len, e.flags, prot) BY <1>3, <2>2, GivenLoose
  <2> QED BY <2>1, <2>2
<1> HIDE DEF H
<1>6. Part(f, H, S) /\ Moves(s, f, S, {}) BY <1>1, <1>2, PartTaken
<1>7. Part(a, H, S) /\ Moves(f, a, {}, {}) BY <1>6, PartKept, MovesKeeps DEF Denied
<1>8. Part(b, H, S) /\ \E N : Moves(a, b, {}, N)
  <2>1. CASE Denied(a, b, at, len) BY <1>7, <2>1, PartKept, MovesKeeps DEF Denied
  <2>2. CASE Given(a, b, at, len, e.flags, prot)
    <3>1. State(a, {}) /\ Tidy(a) BY <1>7 DEF Part
    <3>2. Moves(a, b, {}, S) BY <1>3, <2>2, <3>1, GivenTidy
    <3>3. Part(b, H, S) BY <1>3, <1>7, <2>2, PartGiven
    <3> QED BY <3>2, <3>3
  <2> QED BY <2>1, <2>2
<1> HIDE DEF S
<1>9. ASSUME NEW p \in Of(g) PROVE p \notin Locked(b.alloc)
  <2>1. CASE p \in S BY <1>5, <2>1
  <2>2. CASE p \notin S
    <3>1. p \in Pgs(s.alloc) /\ p \notin Locked(s.alloc) BY DEF Part, Holding
    <3>2. p \in Pages BY <3>1, AllocPages DEF Part
    <3>3. p \in Pgs(f.alloc) /\ p \notin Locked(f.alloc)
      BY <1>6, <2>2, <3>1, <3>2, MovesPage
    <3>4. p \in Pgs(a.alloc) /\ p \notin Locked(a.alloc) BY <1>7, <3>2, <3>3, MovesPage
    <3> QED BY <1>8, <3>2, <3>4, MovesPage
  <2> QED BY <2>1, <2>2
<1>10. \A x \in H : Of(x) \cap Locked(b.alloc) = {} BY <1>8 DEF Part, Holding
<1>11. \A x \in G : Of(x) \cap Locked(b.alloc) = {} BY <1>9, <1>10 DEF H
<1>12. Tidy(b) BY <1>8 DEF Part
<1>13. Grants(G) BY DEF Part
<1> QED BY <1>11, <1>12, <1>13 DEF Good

-------------------------------------------------------------------------------
(* The operations of the interface.                                        *)

LEMMA Between ==
  ASSUME IInv, CanCall, ~mishap
  PROVE  Part(space, grants, {}) /\ State(space, {}) /\ Grants(grants) /\ grants \in SUBSET GrantSet
<1>1. Part(space, grants, {}) BY DEF IInv, Good, CanCall
<1> QED BY <1>1 DEF Part, Grants

(* What is the same whether the addresses are for vm_alloc or vm_map.      *)
LEMMA Results ==
  ASSUME NEW addr, NEW len \in Nat \ {0}, NEW flags, "LOCKED" \notin flags,
         NEW a, Allocated(space, addr, len, flags, {"W"}, a), NEW ok \in Supply, IInv, CanCall,
         NEW type \in {"ALLOCATED", "MAPPED"},
         \/ None(a) \/ HaltWithout(a) \/ GrantIt(a, len, type)
         \/ GiveBack(SpaceFree(a.s, a.addr, len, ok), a)
  PROVE  IInv'
<1> SUFFICES ASSUME ~mishap' PROVE Good(space', grants', halted') BY DEF IInv
<1> DEFINE f == SpaceFree(a.s, a.addr, len, ok)
<1>1. ~mishap /\ ~a.mishap BY DEF None, HaltWithout, GrantIt, GiveBack
<1>2. Part(space, grants, {}) BY <1>1, Between
<1>3. halted = "no" /\ "no" # "unmap" BY DEF CanCall
<1>4. State(a.s, {}) BY <1>1 DEF Allocated
<1>5. ASSUME None(a) PROVE Good(space', grants', halted')
  <2>1. a.addr = BaseAuto /\ space' = a.s /\ grants' = grants /\ halted' = "no"
    BY <1>3, <1>5 DEF None
  <2>2. Denied(space, a.s, addr, len) BY <1>1, <2>1, NotAuto DEF Allocated
  <2>3. Part(a.s, grants, {}) BY <1>2, <1>4, <2>2, PartKept DEF Denied
  <2> QED BY <1>3, <2>1, <2>3, PartGood
<1>6. ASSUME a.addr # BaseAuto
      PROVE  a.addr \in Nat /\ Given(space, a.s, a.addr, len, flags, {"W"})
  BY <1>1, <1>6 DEF Allocated
<1>7. ASSUME HaltWithout(a) PROVE Good(space', grants', halted')
  <2>1. a.addr # BaseAuto /\ space' = a.s /\ grants' = grants /\ halted' = "pages"
    BY <1>7 DEF HaltWithout
  <2>2. Good(a.s, grants, "pages") BY <1>2, <1>4, <1>6, <2>1, HaltGood
  <2> QED BY <2>1, <2>2
<1>8. ASSUME GrantIt(a, len, type) PROVE Good(space', grants', halted')
  <2>1. a.addr # BaseAuto BY <1>8 DEF GrantIt
  <2>2. Part(Filled(a.s, Span(a.addr, len), {"W"}), grants \cup {Grant(a.addr, len, type)}, {})
    BY <1>2, <1>4, <1>6, <2>1, GrantGood
  <2>3. Part(space', grants', {}) /\ halted' = "no" BY <1>3, <1>8, <2>2 DEF GrantIt
  <2> QED BY <1>3, <2>3, PartGood
<1>9. ASSUME GiveBack(f, a) PROVE Good(space', grants', halted')
  <2>1. a.addr # BaseAuto /\ ~f.mishap /\ space' = f.s /\ grants' = grants /\ halted' = "no"
    BY <1>3, <1>9 DEF GiveBack
  <2>2. a.addr \in Nat /\ Given(space, a.s, a.addr, len, flags, {"W"}) BY <1>6, <2>1
  <2>3. Freeing(a.s, a.addr, len, f) BY <1>4, <2>2, FreeState
  <2> HIDE DEF f
  <2>4. Part(f.s, grants, {}) BY <1>2, <1>4, <2>1, <2>2, <2>3, BackGood
  <2> QED BY <1>3, <2>1, <2>4, PartGood
<1> QED BY <1>5, <1>7, <1>8, <1>9

(* vm_alloc, and what it does when frames are missing.                     *)
LEMMA AllocStep ==
  ASSUME IInv, NEW len \in Nat \ {0}, NEW region \in {{}, {"LOW"}}, VmAlloc(len, region)
  PROVE  IInv'
<1>1. PICK ok \in Supply :
        /\ CanCall
        /\ AllocWith(SpaceAlloc(space, BaseAuto, len, region \cup {"ALLOCATED"}, {"W"}, ok), len, ok)
  BY DEF VmAlloc
<1> DEFINE flags == region \cup {"ALLOCATED"}
           a == SpaceAlloc(space, BaseAuto, len, flags, {"W"}, ok)
<1>2. CASE mishap
  <2>1. mishap' BY <1>1, <1>2 DEF AllocWith, None, HaltWithout, GrantIt, GiveBack
  <2> QED BY <2>1 DEF IInv
<1>3. CASE ~mishap
  <2>1. State(space, {}) BY <1>1, <1>3, Between
  <2>2. flags \in SUBSET Flags /\ "LOCKED" \notin flags BY DEF Flags
  <2> HIDE DEF flags
  <2>3. Allocated(space, BaseAuto, len, flags, {"W"}, a)
    BY <2>1, <2>2, AllocState, SafeAuto
  <2>4. AllocWith(a, len, ok) BY <1>1 DEF flags
  <2> HIDE DEF a
  <2> QED BY <1>1, <2>2, <2>3, <2>4, Results DEF AllocWith
<1> QED BY <1>2, <1>3

(* vm_map.                                                                 *)
LEMMA MapStep ==
  ASSUME IInv, NEW len \in Nat \ {0}, NEW addr \in {BaseAuto} \cup Low, VmMap(addr, len)
  PROVE  IInv'
<1>1. PICK ok \in Supply : CanCall /\ MapWith(SpaceAlloc(space, addr, len, {"MAPPED"}, {"W"}, ok), len, ok)
  BY DEF VmMap
<1> DEFINE a == SpaceAlloc(space, addr, len, {"MAPPED"}, {"W"}, ok)
<1>2. CASE mishap
  <2>1. mishap' BY <1>1, <1>2 DEF MapWith, None, GrantIt, GiveBack
  <2> QED BY <2>1 DEF IInv
<1>3. CASE ~mishap
  <2>1. State(space, {}) BY <1>1, <1>3, Between
  <2>2. {"MAPPED"} \in SUBSET Flags /\ "LOCKED" \notin {"MAPPED"} BY DEF Flags
  <2>3. addr \in {BaseAuto} \cup Nat BY PageAssumption
  <2>4. Safe(space, addr, len) BY SafeAuto, SafeLow
  <2>5. Allocated(space, addr, len, {"MAPPED"}, {"W"}, a)
    BY <2>1, <2>2, <2>3, <2>4, AllocState
  <2>6. MapWith(a, len, ok) BY <1>1
  <2> HIDE DEF a
  <2> QED BY <1>1, <2>2, <2>5, <2>6, Results DEF MapWith
<1> QED BY <1>2, <1>3

(* A range that is refused leaves all as it was.                           *)
LEMMA RefuseGood ==
  ASSUME IInv, CanCall, ~mishap, NEW at, NEW len, NEW f, Freeing(space, at, len, f), ~f.mishap,
         NEW stop, Refuse(f, stop), stop # "unmap"
  PROVE  Good(space', grants', halted')
<1>1. Part(space, grants, {}) BY Between
<1>2. f.st # "OK" /\ space' = f.s /\ grants' = grants /\ halted' = stop BY DEF Refuse
<1>3. State(f.s, {}) /\ Spared(space, f.s, at, len) BY <1>2 DEF Freeing
<1>4. Part(f.s, grants, {}) BY <1>1, <1>3, PartKept DEF Spared
<1> QED BY <1>2, <1>4, PartGood

(* vm_free and vm_unmap.                                                   *)
LEMMA FreeSteps ==
  ASSUME IInv, NEW g \in grants, VmFree(g) \/ VmUnmap(g)
  PROVE  IInv'
<1>1. PICK ok \in Supply, stop \in {"no", "unmap"} :
        /\ CanCall /\ (stop = "unmap" => g.type = "MAPPED")
        /\ LET f == SpaceFree(space, g.base, g.len, ok) IN TakeBack(f, g) \/ Refuse(f, stop)
  BY DEF VmFree, VmUnmap, FreeWith, UnmapWith
<1> DEFINE f == SpaceFree(space, g.base, g.len, ok)
<1>2. TakeBack(f, g) \/ Refuse(f, stop) BY <1>1
<1>3. SUFFICES ASSUME ~mishap' PROVE Good(space', grants', halted') BY DEF IInv
<1>4. ~mishap BY <1>2, <1>3 DEF TakeBack, Refuse
<1>5. Part(space, grants, {}) /\ State(space, {}) /\ Grants(grants) /\ grants \in SUBSET GrantSet
  BY <1>1, <1>4, Between
<1>6. g.base \in Nat /\ g.len \in Nat \ {0} BY <1>5 DEF GrantSet
<1>7. Freeing(space, g.base, g.len, f) BY <1>5, <1>6, FreeState
<1> HIDE DEF f
<1>8. ~f.mishap BY <1>2, <1>3 DEF TakeBack, Refuse
<1>9. State(f.s, {}) BY <1>7, <1>8 DEF Freeing
<1>10. ASSUME TakeBack(f, g) PROVE Good(space', grants', halted')
  <2>1. f.st = "OK" BY <1>10 DEF TakeBack
  <2>2. Taken(space, f.s, g.base, g.len, f.ext) BY <1>7, <1>8, <2>1 DEF Freeing
  <2>3. Part(Filled(f.s, Span(g.base, g.len), NoPage), grants \ {g}, {})
    BY <1>5, <1>9, <2>2, TakeGood
  <2>4. Part(space', grants', {}) /\ halted' = "no"
    BY <1>1, <1>10, <2>3 DEF TakeBack, CanCall
  <2> QED BY <2>4, PartGood
<1>11. ASSUME Refuse(f, stop) PROVE Good(space', grants', halted')
  <2>1. ASSUME stop = "unmap" PROVE FALSE
    <3>1. g.whole BY <1>1, <1>5, <2>1 DEF Grants
    <3>2. HeldBy(space, g) BY <1>5, <3>1 DEF Part, Holding
    <3>3. f.st # "OK" BY <1>11 DEF Refuse
    <3>4. Spared(space, f.s, g.base, g.len) BY <1>7, <1>8, <3>3 DEF Freeing
    <3> QED BY <3>2, <3>4 DEF Spared, HeldBy, Of
  <2> QED BY <1>1, <1>4, <1>7, <1>8, <1>11, <2>1, RefuseGood
<1> QED BY <1>2, <1>10, <1>11

(* vm_change_attr.                                                         *)
LEMMA ChangeStep ==
  ASSUME IInv, NEW g \in grants, NEW at \in High, NEW len \in Nat \ {0}, VmChangeAttr(g, at, len)
  PROVE  IInv'
<1>1. PICK ok \in Supply :
        /\ CanCall /\ g.type = "ALLOCATED" /\ Span(at, len) \subseteq Of(g)
        /\ ChangeWith(SpaceFree(space, at, len, ok), g, at, len, ok)
  BY DEF VmChangeAttr, Of
<1> DEFINE f == SpaceFree(space, at, len, ok)
           p == f.ext.prot \ {"W"}
           a == SpaceAlloc(f.s, at, len, f.ext.flags, p, ok)
           b == SpaceAlloc(a.s, at, len, f.ext.flags, f.ext.prot, ok)
<1>2. Refuse(f, "no") \/ (f.st = "OK" /\ AgainWith(f, a, g, at, len, ok))
  BY <1>1 DEF ChangeWith
<1>3. SUFFICES ASSUME ~mishap' PROVE Good(space', grants', halted') BY DEF IInv
<1>4. ~mishap /\ ~f.mishap BY <1>2, <1>3 DEF Refuse, AgainWith, Retried
<1>5. Part(space, grants, {}) /\ State(space, {}) BY <1>1, <1>4, Between
<1>6. at \in Nat BY PageAssumption
<1>7. Freeing(space, at, len, f) BY <1>5, <1>6, FreeState
<1> HIDE DEF f
<1>8. ASSUME Refuse(f, "no") PROVE Good(space', grants', halted')
  BY <1>1, <1>4, <1>7, <1>8, RefuseGood
<1>9. ASSUME f.st = "OK", AgainWith(f, a, g, at, len, ok)
      PROVE  Good(space', grants', halted')
  <2>1. State(f.s, {}) /\ Safe(f.s, at, len) /\ Taken(space, f.s, at, len, f.ext)
    BY <1>4, <1>7, <1>9 DEF Freeing
  <2>2. f.ext.flags \in SUBSET Flags /\ f.ext.prot \in SUBSET {"W"} /\ p \in SUBSET {"W"}
    BY <2>1 DEF Taken, Ext
  <2>3. at \in {BaseAuto} \cup Nat BY <1>6
  <2>4. at # BaseAuto BY <1>6, NotAuto
  <2> HIDE DEF p
  <2>5. Allocated(f.s, at, len, f.ext.flags, p, a) BY <2>1, <2>2, <2>3, AllocState
  <2> HIDE DEF a
  <2>6. ~a.mishap BY <1>3, <1>9 DEF AgainWith, Retried
  <2>7. State(a.s, {}) BY <2>5, <2>6 DEF Allocated
  <2>8. ASSUME a.addr # BaseAuto PROVE Good(space', grants', halted')
    <3>1. ChangeTo(a, g, at, len, p) /\ halted' = "no"
      BY <1>1, <1>9, <2>8 DEF AgainWith, p, CanCall
    <3>2. Given(f.s, a.s, at, len, f.ext.flags, p) BY <2>4, <2>5, <2>6, <2>8 DEF Allocated
    <3>3. Part(Filled(a.s, Span(at, len), p), (grants \ {g}) \cup {[g EXCEPT !.whole = FALSE]}, {})
      BY <1>1, <1>5, <2>1, <2>2, <2>7, <3>2, ChangeGood
    <3>4. Part(space', grants', {}) BY <3>1, <3>3 DEF ChangeTo
    <3> QED BY <3>1, <3>4, PartGood
  <2>9. ASSUME a.addr = BaseAuto PROVE Good(space', grants', halted')
    <3>1. Retried(f, a, b) BY <1>9, <2>9 DEF AgainWith
    <3>2. Denied(f.s, a.s, at, len) BY <2>5, <2>6, <2>9, NotAuto DEF Allocated
    <3>3. Safe(a.s, at, len) BY <3>2 DEF Denied
    <3>4. Allocated(a.s, at, len, f.ext.flags, f.ext.prot, b)
      BY <2>2, <2>3, <2>7, <3>3, AllocState
    <3> HIDE DEF b
    <3>5. ~b.mishap BY <1>3, <3>1 DEF Retried
    <3>6. State(b.s, {}) /\ (Denied(a.s, b.s, at, len) \/ Given(a.s, b.s, at, len, f.ext.flags, f.ext.prot))
      BY <2>4, <3>4, <3>5 DEF Allocated
    <3>7. space' = b.s /\ grants' = grants /\ halted' \in {"attr", "lock"}
      BY <3>1 DEF Retried
    <3>8. Good(b.s, grants, halted')
      BY <1>1, <1>5, <1>6, <2>1, <2>7, <3>2, <3>6, <3>7, RetryGood
    <3> QED BY <3>7, <3>8
  <2> QED BY <2>8, <2>9
<1> QED BY <1>2, <1>8, <1>9

(* Every operation that meets with no mishap restores the invariant.       *)
LEMMA Inductive ==
  ASSUME IInv, [Next]_vars
  PROVE  IInv'
<1>1. 1 .. MaxLen \subseteq Nat \ {0} /\ 1 .. MaxLen - 1 \subseteq Nat \ {0}
  BY PageAssumption
<1>2. CASE \E len \in 1 .. MaxLen, region \in {{}, {"LOW"}} : VmAlloc(len, region)
  BY <1>1, <1>2, AllocStep
<1>3. CASE \E len \in 1 .. MaxLen, addr \in {BaseAuto} \cup Low : VmMap(addr, len)
  BY <1>1, <1>3, MapStep
<1>4. CASE \E g \in grants : VmFree(g) \/ VmUnmap(g)
  BY <1>4, FreeSteps
<1>5. CASE \E g \in grants, at \in High, len \in 1 .. MaxLen - 1 : VmChangeAttr(g, at, len)
  BY <1>1, <1>5, ChangeStep
<1>6. CASE UNCHANGED vars BY <1>6 DEF vars, IInv
<1> QED BY <1>2, <1>3, <1>4, <1>5, <1>6 DEF Next

-------------------------------------------------------------------------------
(* What the run checks follows from the invariant.                         *)

(* A list is in order, as the run checks it.                               *)
LEMMA TiledLists ==
  ASSUME NEW q, NEW size \in Nat, Listed(q, size)
  PROVE  ListOK(q, size)
<1>1. ASSUME NEW h \in DOMAIN q, NEW i \in DOMAIN q[h].busy
      PROVE  LET e == q[h].busy[i] IN
             /\ e.len > 0 /\ Cardinality(Region(e)) = 1
             /\ PagesOf(e) \subseteq (IF "HIGH" \in e.flags THEN High ELSE Low)
  <2>1. q \in Seq(Hdr) BY DEF Listed
  <2>2. <<h, i>> \in Places(q) /\ At(q, <<h, i>>) = q[h].busy[i] BY <2>1, PlaceOf
  <2>3. Sound(q[h].busy[i]) BY <2>2 DEF Listed
  <2> QED BY <2>3, OneRegion DEF Sound, Zone
<1>2. \A h \in DOMAIN q : q[h].size = size /\ Len(q[h].busy) <= size BY DEF Listed
<1> QED BY <1>1, <1>2 DEF ListOK

LEMMA OneLocation ==
  ASSUME NEW q, NEW size, Listed(q, size), NEW p
  PROVE  Cardinality({l \in Locations(q) : p \in PagesOf(l[2])}) = IF p \in Pgs(q) THEN 1 ELSE 0
<1> DEFINE S == {l \in Locations(q) : p \in PagesOf(l[2])}
<1>1. CASE p \notin Pgs(q)
  <2>1. S = {} BY <1>1 DEF Pgs, Exts, Locations
  <2> QED BY <1>1, <2>1, FS_EmptySet
<1>2. CASE p \in Pgs(q)
  <2>1. PICK at \in Places(q) : p \in PagesOf(At(q, at)) BY <1>2 DEF Pgs, Exts
  <2>2. <<at, At(q, at)>> \in S BY <2>1 DEF Locations
  <2>3. ASSUME NEW l \in S PROVE l = <<at, At(q, at)>>
    <3>1. PICK b \in Places(q) : l = <<b, At(q, b)>> BY DEF Locations
    <3>2. p \in PagesOf(At(q, b)) BY <3>1
    <3>3. b = at BY <2>1, <3>2 DEF Listed, Apart
    <3> QED BY <3>1, <3>3
  <2>4. S = {<<at, At(q, at)>>} BY <2>2, <2>3
  <2> HIDE DEF S
  <2>5. Cardinality(S) = 1 BY <2>4, FS_Singleton
  <2> QED BY <1>2, <2>5 DEF S
<1> QED BY <1>1, <1>2

(* Tiling: from the start, and through every allocation, mapping, release  *)
(* and change of protection, also where the code takes pages for its own   *)
(* lists or undoes half of what it did, no page of the kernel space is     *)
(* lost, and none is free and allocated, or allocated twice.               *)
THEOREM PagesTile == Spec => []Tiling
<1>1. IInv => Tiling
  <2> SUFFICES ASSUME IInv, ~mishap
               PROVE  /\ ListOK(space.free, FreePerSlot) /\ ListOK(space.alloc, AllocPerSlot)
                      /\ \A p \in Pages :
                           Cardinality({l \in Locations(space.free) : p \in PagesOf(l[2])})
                             + Cardinality({l \in Locations(space.alloc) : p \in PagesOf(l[2])}) = 1
    BY DEF Tiling
  <2>1. Tiled(space.free, space.alloc, {}) BY DEF IInv, Good, State
  <2>2. Listed(space.free, FreePerSlot) /\ Listed(space.alloc, AllocPerSlot)
    BY <2>1 DEF Tiled
  <2>3. ListOK(space.free, FreePerSlot) /\ ListOK(space.alloc, AllocPerSlot)
    BY <2>2, TiledLists, Sizes
  <2>4. ASSUME NEW p \in Pages
        PROVE  Cardinality({l \in Locations(space.free) : p \in PagesOf(l[2])})
                 + Cardinality({l \in Locations(space.alloc) : p \in PagesOf(l[2])}) = 1
    <3>1. /\ Cardinality({l \in Locations(space.free) : p \in PagesOf(l[2])}) = IF p \in Pgs(space.free) THEN 1 ELSE 0
          /\ Cardinality({l \in Locations(space.alloc) : p \in PagesOf(l[2])}) = IF p \in Pgs(space.alloc) THEN 1 ELSE 0
      BY <2>2, OneLocation
    <3>2. \/ p \in Pgs(space.free) /\ p \notin Pgs(space.alloc)
          \/ p \notin Pgs(space.free) /\ p \in Pgs(space.alloc)
      BY <2>1 DEF Tiled
    <3> QED BY <3>1, <3>2
  <2> QED BY <2>3, <2>4
<1> QED BY <1>1, InitState, Inductive, PTL DEF Spec

(* The extents of a list, as the properties name them.                     *)
LEMMA ExtentsOf ==
  ASSUME NEW q \in Seq(Hdr)
  PROVE  Extents(q) = Exts(q)
<1>1. ASSUME NEW e \in Extents(q) PROVE e \in Exts(q)
  <2>0. PICK h \in DOMAIN q : \E i \in DOMAIN q[h].busy : e = q[h].busy[i] BY DEF Extents
  <2>1. PICK i \in DOMAIN q[h].busy : e = q[h].busy[i] BY <2>0
  <2>2. <<h, i>> \in Places(q) /\ At(q, <<h, i>>) = e BY <2>1, PlaceOf
  <2> QED BY <2>2 DEF Exts
<1>2. ASSUME NEW e \in Exts(q) PROVE e \in Extents(q)
  <2>1. PICK a \in Places(q) : e = At(q, a) BY DEF Exts
  <2>2. PICK h \in DOMAIN q : \E i \in DOMAIN q[h].busy : a = <<h, i>> BY PlaceOf
  <2>3. PICK i \in DOMAIN q[h].busy : a = <<h, i>> BY <2>2
  <2>4. e = q[h].busy[i] BY <2>1, <2>3, PlaceOf
  <2> QED BY <2>4 DEF Extents
<1> QED BY <1>1, <1>2

LEMMA SpaceLists ==
  ASSUME NEW h, Good(space, grants, h)
  PROVE  /\ Extents(space.alloc) = Exts(space.alloc) /\ Headers = AllHeads(space)
         /\ Listed(space.alloc, AllocPerSlot)
<1>1. State(space, {}) /\ space.alloc \in Seq(Hdr) BY DEF Good, State, Space
<1>2. Listed(space.alloc, AllocPerSlot) BY <1>1, AllocPages
<1>3. Headers = AllHeads(space) BY DEF Headers, AllHeads, Heads
<1> QED BY <1>1, <1>2, <1>3, ExtentsOf

(* The pages of the lists are noted as locked, present, and nobody's.      *)
THEOREM TrackersAreTracked == Spec => []TrackersTracked
<1>1. IInv => TrackersTracked
  <2> SUFFICES ASSUME IInv, ~mishap, NEW p \in Headers
               PROVE  /\ \E e \in Extents(space.alloc) : p \in PagesOf(e) /\ "LOCKED" \in e.flags
                      /\ space.tab[p] = {"W"}
                      /\ \A g \in grants : p \notin Span(g.base, g.len)
    BY DEF TrackersTracked
  <2>1. Good(space, grants, halted) BY DEF IInv
  <2>2. State(space, {}) /\ Tidy(space) /\ \A g \in grants : Of(g) \cap Locked(space.alloc) = {}
    BY <2>1 DEF Good
  <2>3. Extents(space.alloc) = Exts(space.alloc) /\ Headers = AllHeads(space)
    BY <2>1, SpaceLists
  <2>4. p \in Pinned(space) BY <2>2, <2>3 DEF Tidy
  <2>5. p \in Locked(space.alloc) BY <2>2, <2>4, AllocPages
  <2>6. /\ space.tab[p] = {"W"}
        /\ \E e \in Extents(space.alloc) : p \in PagesOf(e) /\ "LOCKED" \in e.flags
    BY <2>3, <2>4 DEF Pinned
  <2>7. \A g \in grants : p \notin Span(g.base, g.len) BY <2>2, <2>5 DEF Of
  <2> QED BY <2>6, <2>7
<1> QED BY <1>1, InitState, Inductive, PTL DEF Spec

(* Between two calls the page table and the allocated extents agree.       *)
THEOREM PagesAgree == Spec => []PagesExact
<1>1. IInv => PagesExact
  <2> SUFFICES ASSUME IInv, ~mishap, halted = "no", NEW p \in Pages
               PROVE  space.tab[p] = IF \E e \in Extents(space.alloc) : p \in PagesOf(e)
                                     THEN (CHOOSE e \in Extents(space.alloc) : p \in PagesOf(e)).prot
                                     ELSE NoPage
    BY DEF PagesExact
  <2>1. Good(space, grants, halted) BY DEF IInv
  <2>2. Exact(space, {}) BY <2>1 DEF Good, Part
  <2>3. Extents(space.alloc) = Exts(space.alloc) BY <2>1, SpaceLists
  <2>4. CASE \E e \in Extents(space.alloc) : p \in PagesOf(e)
    <3> DEFINE c == CHOOSE e \in Extents(space.alloc) : p \in PagesOf(e)
    <3>1. c \in Extents(space.alloc) /\ p \in PagesOf(c) BY <2>4
    <3> HIDE DEF c
    <3>2. space.tab[p] = c.prot BY <2>2, <2>3, <3>1 DEF Exact
    <3> QED BY <2>4, <3>2 DEF c
  <2>5. CASE ~ \E e \in Extents(space.alloc) : p \in PagesOf(e)
    <3>1. p \notin Pgs(space.alloc) BY <2>3, <2>5 DEF Pgs
    <3> QED BY <2>2, <2>5, <3>1 DEF Exact
  <2> QED BY <2>4, <2>5
<1> QED BY <1>1, InitState, Inductive, PTL DEF Spec

(* A grant as it was given lies in one extent, and vm_unmap never stops.   *)
THEOREM GrantsInOne == Spec => []HeldInOne
<1>1. IInv => HeldInOne
  <2> SUFFICES ASSUME IInv, ~mishap
               PROVE  /\ halted # "unmap"
                      /\ halted = "no" => \A g \in grants : g.whole => \E e \in Extents(space.alloc) :
                           Span(g.base, g.len) \subseteq PagesOf(e) /\ "LOCKED" \notin e.flags
    BY DEF HeldInOne
  <2>1. Good(space, grants, halted) BY DEF IInv
  <2>2. Extents(space.alloc) = Exts(space.alloc) BY <2>1, SpaceLists
  <2>3. halted # "unmap" BY <2>1 DEF Good
  <2>4. ASSUME halted = "no", NEW g \in grants, g.whole
        PROVE  \E e \in Extents(space.alloc) : Span(g.base, g.len) \subseteq PagesOf(e) /\ "LOCKED" \notin e.flags
    <3>1. HeldBy(space, g) BY <2>1, <2>4 DEF Good, Part, Holding
    <3> QED BY <2>2, <3>1 DEF HeldBy, Of
  <2> QED BY <2>3, <2>4
<1> QED BY <1>1, InitState, Inductive, PTL DEF Spec

-------------------------------------------------------------------------------
(* The kernel space implements Frames.                                     *)

(* Who holds a page: nobody or one, if the grants of G have none in common. *)
Held(G) == [p \in Pages |-> IF \E g \in G : p \in Of(g) THEN 1 ELSE 0]

(* Grants with no page in common: each page is held once or not at all.    *)
LEMMA HeldOnce ==
  ASSUME NEW G, Sep(G)
  PROVE  [p \in Pages |-> Cardinality({g \in G : p \in Span(g.base, g.len)})] = Held(G)
<1>1. ASSUME NEW p \in Pages
      PROVE  Cardinality({g \in G : p \in Span(g.base, g.len)}) = IF \E g \in G : p \in Of(g) THEN 1 ELSE 0
  <2> DEFINE S == {g \in G : p \in Span(g.base, g.len)}
  <2>1. CASE \E g \in G : p \in Of(g)
    <3>1. PICK g \in G : p \in Of(g) BY <2>1
    <3>2. S = {g} BY <3>1 DEF Of, Sep
    <3> HIDE DEF S
    <3>3. Cardinality(S) = 1 BY <3>2, FS_Singleton
    <3> QED BY <2>1, <3>3 DEF S
  <2>2. CASE ~ \E g \in G : p \in Of(g)
    <3>1. S = {} BY <2>2 DEF Of
    <3> HIDE DEF S
    <3>2. Cardinality(S) = 0 BY <3>1, FS_EmptySet
    <3> QED BY <2>2, <3>2 DEF S
  <2> QED BY <2>1, <2>2
<1> QED BY <1>1 DEF Held

(* What a call can do to what is held.                                     *)
Same(G, K) == \A p \in Pages : (\E g \in G : p \in Of(g)) <=> (\E g \in K : p \in Of(g))
Changes(G, K) ==
  \/ Same(G, K)
  \/ \E n : K = G \cup {n} /\ Of(n) \subseteq Pages
  \/ \E g \in G : K = G \ {g} /\ Of(g) \subseteq Pages

LEMMA FreeOfMishap ==
  ASSUME Next, ~mishap'
  PROVE  ~mishap /\ CanCall
<1>1. ASSUME NEW len, NEW region, VmAlloc(len, region) PROVE ~mishap /\ CanCall
  BY <1>1 DEF VmAlloc, AllocWith, None, HaltWithout, GrantIt, GiveBack
<1>2. ASSUME NEW len, NEW addr, VmMap(addr, len) PROVE ~mishap /\ CanCall
  BY <1>2 DEF VmMap, MapWith, None, GrantIt, GiveBack
<1>3. ASSUME NEW g, VmFree(g) \/ VmUnmap(g) PROVE ~mishap /\ CanCall
  BY <1>3 DEF VmFree, VmUnmap, FreeWith, UnmapWith, TakeBack, Refuse
<1>4. ASSUME NEW g, NEW at, NEW len, VmChangeAttr(g, at, len) PROVE ~mishap /\ CanCall
  BY <1>4 DEF VmChangeAttr, ChangeWith, AgainWith, Retried, Refuse
<1> QED BY <1>1, <1>2, <1>3, <1>4 DEF Next

(* A call adds a grant, takes one back, or changes none of their pages.    *)
LEMMA CallChanges ==
  ASSUME IInv, IInv', ~mishap', Next
  PROVE  Changes(grants, grants')
<1>1. ~mishap /\ CanCall BY FreeOfMishap
<1>2. ASSUME NEW G, NEW s, Part(s, G, {}), NEW g \in G PROVE Of(g) \subseteq Pages
  <2>1. Of(g) \subseteq Pgs(s.alloc) /\ State(s, {}) BY <1>2 DEF Part, Holding
  <2> QED BY <2>1, AllocPages
<1>3. ASSUME grants' = grants PROVE Changes(grants, grants') BY <1>3 DEF Changes, Same
<1>4. ASSUME NEW a, NEW len, NEW type, GrantIt(a, len, type)
      PROVE  Changes(grants, grants')
  <2> DEFINE n == Grant(a.addr, len, type)
  <2>1. grants' = grants \cup {n} /\ halted' = "no" BY <1>1, <1>4 DEF GrantIt, CanCall
  <2>2. Part(space', grants', {}) BY <2>1 DEF IInv, Good
  <2> HIDE DEF n
  <2>3. Of(n) \subseteq Pages BY <1>2, <2>1, <2>2
  <2> QED BY <2>1, <2>3 DEF Changes
<1>5. ASSUME NEW f, NEW g \in grants, TakeBack(f, g) PROVE Changes(grants, grants')
  <2>1. Of(g) \subseteq Pages BY <1>1, <1>2, Between
  <2> QED BY <1>5, <2>1 DEF TakeBack, Changes
<1>6. ASSUME NEW len, NEW region, VmAlloc(len, region) PROVE Changes(grants, grants')
  <2>1. grants' = grants \/ \E a : GrantIt(a, len, "ALLOCATED")
    BY <1>6 DEF VmAlloc, AllocWith, None, HaltWithout, GiveBack
  <2> QED BY <1>3, <1>4, <2>1
<1>7. ASSUME NEW len, NEW addr, VmMap(addr, len) PROVE Changes(grants, grants')
  <2>1. grants' = grants \/ \E a : GrantIt(a, len, "MAPPED")
    BY <1>7 DEF VmMap, MapWith, None, GiveBack
  <2> QED BY <1>3, <1>4, <2>1
<1>8. ASSUME NEW g \in grants, VmFree(g) \/ VmUnmap(g) PROVE Changes(grants, grants')
  <2>1. grants' = grants \/ \E f : TakeBack(f, g)
    BY <1>8 DEF VmFree, VmUnmap, FreeWith, UnmapWith, Refuse
  <2> QED BY <1>3, <1>5, <2>1
<1>9. ASSUME NEW g \in grants, NEW at, NEW len, VmChangeAttr(g, at, len)
      PROVE  Changes(grants, grants')
  <2> DEFINE n == [g EXCEPT !.whole = FALSE]
  <2>1. grants' = grants \/ grants' = (grants \ {g}) \cup {n}
    BY <1>9 DEF VmChangeAttr, ChangeWith, AgainWith, Retried, Refuse, ChangeTo
  <2>2. g \in GrantSet BY <1>1, Between
  <2>3. Of(n) = Of(g) BY <2>2 DEF Of, GrantSet
  <2> HIDE DEF n
  <2>4. ASSUME grants' = (grants \ {g}) \cup {n} PROVE Same(grants, grants')
    BY <2>3, <2>4 DEF Same
  <2> QED BY <1>3, <2>1, <2>4 DEF Changes
<1> QED BY <1>6, <1>7, <1>8, <1>9 DEF Next

(* Each of these is what Frames allows.                                    *)
LEMMA CallPromised ==
  ASSUME NEW G, NEW K, Sep(G), Sep(K), Changes(G, K)
  PROVE  \/ Held(K) = Held(G)
         \/ \E S \in SUBSET Pages :
              /\ (\A p \in S : Held(G)[p] = 0) /\ Held(K) = [p \in Pages |-> IF p \in S THEN 1 ELSE Held(G)[p]]
         \/ \E S \in SUBSET Pages :
              /\ (\A p \in S : Held(G)[p] = 1) /\ Held(K) = [p \in Pages |-> IF p \in S THEN 0 ELSE Held(G)[p]]
<1>1. CASE Same(G, K) BY <1>1 DEF Same, Held
<1>2. ASSUME NEW n, K = G \cup {n}, Of(n) \subseteq Pages, n \notin G
      PROVE  /\ (\A p \in Of(n) : Held(G)[p] = 0)
             /\ Held(K) = [p \in Pages |-> IF p \in Of(n) THEN 1 ELSE Held(G)[p]]
  <2>1. \A g \in G : Of(g) \cap Of(n) = {} BY <1>2 DEF Sep
  <2> QED BY <1>2, <2>1 DEF Held
<1>3. ASSUME NEW n, K = G \cup {n}, n \in G PROVE Held(K) = Held(G)
  <2>1. K = G BY <1>3
  <2> QED BY <2>1
<1>4. ASSUME NEW g \in G, K = G \ {g}, Of(g) \subseteq Pages
      PROVE  /\ (\A p \in Of(g) : Held(G)[p] = 1)
             /\ Held(K) = [p \in Pages |-> IF p \in Of(g) THEN 0 ELSE Held(G)[p]]
  <2>1. \A h \in K : Of(h) \cap Of(g) = {} BY <1>4 DEF Sep
  <2> QED BY <1>4, <2>1 DEF Held
<1> QED BY <1>1, <1>2, <1>3, <1>4 DEF Changes

(* Each page has one holder at most, who was given it while nobody held    *)
(* it, and gives it back: the address space implements Frames.             *)
THEOREM SpaceImplementsFrames == Spec => ImplementsFrames
<1>1. Init => Promised!Init
  <2> SUFFICES ASSUME Init PROVE Holders = [p \in Pages |-> 0] BY DEF Promised!Init
  <2>1. \A p : {g \in grants : p \in Span(g.base, g.len)} = {} BY DEF Init
  <2> QED BY <2>1, FS_EmptySet DEF Holders
<1>2. ASSUME IInv, ~mishap PROVE Holders = Held(grants)
  <2>1. Sep(grants) BY <1>2 DEF IInv, Good, Grants
  <2> QED BY <2>1, HeldOnce DEF Holders
<1>3. ASSUME IInv', ~mishap' PROVE Holders' = Held(grants')
  <2>1. Sep(grants') BY <1>3 DEF IInv, Good, Grants
  <2> QED BY <2>1, HeldOnce DEF Holders
<1>4. ASSUME IInv, IInv', [Next]_vars PROVE [Promised!Next \/ mishap']_Holders
  <2>1. CASE UNCHANGED vars BY <2>1 DEF vars, Holders
  <2>2. ASSUME Next, ~mishap' PROVE Promised!Next \/ UNCHANGED Holders
    <3>1. ~mishap BY <2>2, FreeOfMishap
    <3>2. Changes(grants, grants') BY <1>4, <2>2, CallChanges
    <3>3. Sep(grants) /\ Sep(grants') BY <1>4, <2>2, <3>1 DEF IInv, Good, Grants
    <3>4. Holders = Held(grants) /\ Holders' = Held(grants')
      BY <1>2, <1>3, <1>4, <2>2, <3>1
    <3> HIDE DEF Holders
    <3>5. \/ Holders' = Holders
          \/ \E S \in SUBSET Pages :
               (\A p \in S : Holders[p] = 0) /\ Holders' = [p \in Pages |-> IF p \in S THEN 1 ELSE Holders[p]]
          \/ \E S \in SUBSET Pages :
               (\A p \in S : Holders[p] = 1) /\ Holders' = [p \in Pages |-> IF p \in S THEN 0 ELSE Holders[p]]
      BY <3>2, <3>3, <3>4, CallPromised
    <3> QED BY <3>5 DEF Promised!Next, Promised!Take, Promised!Give
  <2> QED BY <1>4, <2>1, <2>2
<1> QED BY <1>1, <1>4, InitState, Inductive, PTL DEF Spec, ImplementsFrames
===============================================================================
