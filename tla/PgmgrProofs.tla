------------------------------ MODULE PgmgrProofs ------------------------------
(***************************************************************************)
(* For any number of levels, entries and frames, and for any ranges: a     *)
(* frame is marked exactly if one entry refers to it, what has been handed *)
(* out is backed by frames with its attributes, no empty table stays       *)
(* behind a call, and what has been built can be released.                 *)
(*                                                                         *)
(* The walk changes entries one by one, wherever they are, and reads them  *)
(* through the windows of its levels; the properties speak of all entries  *)
(* at once. What joins them is Found: what a processor finds above each    *)
(* page. All parts of the invariant are about Found, and the lemmas of a   *)
(* change (TableAdded, PageAdded, EntryCleared) say that a step gives it a *)
(* new value at the pages of one block and leaves the rest (Changed),      *)
(* which takes that the tables are a tree: no frame is a table or a page   *)
(* at two places, so that writing to one changes no other. With that every *)
(* action is a change of Found, of the place of the walk, and of the       *)
(* frames in its hands.                                                    *)
(*                                                                         *)
(* IInv has the shape of the state, the tree, and these: where the walk of *)
(* each call is (Phased, Bounds, Placed), the frames it has (Supplied,     *)
(* Owned), the attributes (ReadOnly), the ranges in use (Apart, Held), how *)
(* far the change of a range has come (Changing, Covered), and which       *)
(* tables may be empty (Tidy), from which it follows that a release finds  *)
(* what it releases (Sound).                                               *)
(***************************************************************************)
EXTENDS Pgmgr, FiniteSetTheorems, WellFoundedInduction, TLAPS

-------------------------------------------------------------------------------
(* Numbers, and the steps of the levels.                                   *)

(* The pages behind an entry of a table of level l are a block of level l. *)
Blk(p, l) == p \div Step[l]

(* A least number, by the well-founded order of the finite sets: the       *)
(* induction theorems themselves take an operator.                         *)
LEMMA LeastNat ==
  ASSUME NEW S \in SUBSET Nat, S # {}
  PROVE  \E i \in S : \A j \in S : i <= j
<1> DEFINE F == {1 .. n : n \in S}
<1>1. F \subseteq FiniteSubsetsOf(Nat)
  <2>1. ASSUME NEW n \in S PROVE 1 .. n \in FiniteSubsetsOf(Nat)
    <3>1. n \in Nat OBVIOUS
    <3>2. IsFiniteSet(1 .. n) BY <3>1, FS_Interval
    <3> QED BY <3>1, <3>2 DEF FiniteSubsetsOf
  <2> QED BY <2>1
<1>2. F # {} OBVIOUS
<1>3. PICK A \in F : \A B \in F : <<B, A>> \notin StrictSubsetOrdering(Nat)
  <2> HIDE DEF F
  <2>1. IsWellFoundedOn(StrictSubsetOrdering(Nat), FiniteSubsetsOf(Nat))
    BY FS_StrictSubsetOrderingWellFounded
  <2> QED BY <2>1, <1>1, <1>2, WFMin
<1>4. PICK i \in S : A = 1 .. i OBVIOUS
<1>5. ASSUME NEW j \in S, j < i PROVE FALSE
  <2>1. i \in Nat /\ j \in Nat OBVIOUS
  <2>2. 1 .. j \in F OBVIOUS
  <2>3. 1 .. j \subseteq 1 .. i /\ i \in 1 .. i /\ i \notin 1 .. j BY <2>1, <1>5
  <2>4. <<1 .. j, A>> \in StrictSubsetOrdering(Nat) BY <2>1, <2>3, <1>4 DEF StrictSubsetOrdering
  <2> QED BY <2>4, <1>3, <2>2
<1> QED BY <1>5

LEMMA Consts ==
  /\ MaxLevel \in Nat /\ MaxLevel > 2 /\ Fanout \in Nat /\ Fanout > 1 /\ Last \in Nat
  /\ Root \in Nat /\ Root > Last + 1 /\ Device \in Nat /\ Device > Root
  /\ Root \notin Frame /\ Absent = 0 /\ Absent \notin Frame
  /\ \A f \in Frame : f \in Nat /\ f > 0 /\ f < Root /\ f < Device
  /\ \A l \in Levels : l \in Nat /\ l > 0 /\ l <= MaxLevel
BY PgmgrAssumption DEF Frame, Absent, Levels

(* The steps multiply.                                                     *)
LEMMA StepIs ==
  Step = [l \in 1 .. MaxLevel + 1 |-> IF l = 1 THEN 1 ELSE Fanout * Step[l - 1]]
<1> DEFINE eq(S, n) == S = [l \in 1 .. n |-> IF l = 1 THEN 1 ELSE Fanout * S[l - 1]]
           Odd == {n \in Nat : n > 0 /\ \A S : ~eq(S, n)}
<1>1. Odd = {}
  <2> SUFFICES ASSUME Odd # {} PROVE FALSE OBVIOUS
  <2>1. PICK n \in Odd : \A k \in Odd : n <= k
    <3>1. Odd \in SUBSET Nat OBVIOUS
    <3> HIDE DEF Odd
    <3> QED BY <3>1, LeastNat
  <2>2. n \in Nat /\ n > 0 OBVIOUS
  <2>3. CASE n = 1
    <3> DEFINE T == [l \in 1 .. 1 |-> 1]
    <3>1. T = [l \in 1 .. 1 |-> IF l = 1 THEN 1 ELSE Fanout * T[l - 1]] OBVIOUS
    <3>2. eq(T, n) BY <3>1, <2>3
    <3> QED BY <3>2
  <2>4. CASE n # 1
    <3>1. n - 1 \in Nat /\ n - 1 > 0 /\ ~(n <= n - 1) BY <2>2, <2>4
    <3>2. n - 1 \notin Odd BY <2>1, <3>1
    <3>3. PICK S : eq(S, n - 1) BY <3>1, <3>2
    <3> DEFINE T == [l \in 1 .. n |-> IF l = n THEN Fanout * S[n - 1] ELSE S[l]]
    <3>4. \A l \in 1 .. n - 1 : S[l] = IF l = 1 THEN 1 ELSE Fanout * S[l - 1] BY <3>3
    <3>5. ASSUME NEW l \in 1 .. n PROVE T[l] = IF l = 1 THEN 1 ELSE Fanout * T[l - 1]
      <4>1. CASE l = n
        <5>1. T[l] = Fanout * S[n - 1] /\ T[l - 1] = S[n - 1] BY <4>1, <2>2, <2>4
        <5> QED BY <5>1, <4>1, <2>4
      <4>2. CASE l # n
        <5>1. l \in 1 .. n - 1 /\ T[l] = S[l] BY <4>2, <2>2
        <5>2. l # 1 => T[l - 1] = S[l - 1] BY <4>2, <2>2
        <5> QED BY <3>4, <5>1, <5>2
      <4> QED BY <4>1, <4>2
    <3>6. T = [l \in 1 .. n |-> IF l = 1 THEN 1 ELSE Fanout * T[l - 1]]
      <4>1. T = [l \in 1 .. n |-> T[l]] OBVIOUS
      <4> HIDE DEF T
      <4> QED BY <3>5, <4>1
    <3> QED BY <3>6
  <2> QED BY <2>3, <2>4
<1>2. MaxLevel + 1 \in Nat /\ MaxLevel + 1 > 0 BY Consts
<1>3. \E S : eq(S, MaxLevel + 1) BY <1>1, <1>2
<1> QED BY <1>3 DEF Step

LEMMA Steps ==
  /\ Step[1] = 1
  /\ \A l \in 1 .. MaxLevel + 1 : Step[l] \in Nat /\ Step[l] > 0
  /\ \A l \in 1 .. MaxLevel : Step[l + 1] = Fanout * Step[l]
<1>0. MaxLevel \in Nat /\ MaxLevel > 2 /\ Fanout \in Nat /\ Fanout > 1 BY Consts
<1>1. Step[1] = 1 BY <1>0, StepIs
<1>2. \A l \in 1 .. MaxLevel : Step[l + 1] = Fanout * Step[l]
  <2> TAKE l \in 1 .. MaxLevel
  <2>1. l + 1 \in 1 .. MaxLevel + 1 /\ l + 1 # 1 /\ (l + 1) - 1 = l BY <1>0
  <2> QED BY <2>1, StepIs
<1> DEFINE Odd == {l \in Nat : l \in 1 .. MaxLevel + 1 /\ ~(Step[l] \in Nat /\ Step[l] > 0)}
<1>3. Odd = {}
  <2> SUFFICES ASSUME Odd # {} PROVE FALSE OBVIOUS
  <2>1. PICK n \in Odd : \A k \in Odd : n <= k
    <3>1. Odd \in SUBSET Nat OBVIOUS
    <3> HIDE DEF Odd
    <3> QED BY <3>1, LeastNat
  <2>2. n # 1 BY <1>1
  <2>3. n - 1 \in 1 .. MaxLevel /\ n - 1 \in 1 .. MaxLevel + 1 /\ ~(n <= n - 1) /\ (n - 1) + 1 = n BY <1>0, <2>2
  <2>4. n - 1 \notin Odd BY <2>1, <2>3
  <2>5. Step[n - 1] \in Nat /\ Step[n - 1] > 0 BY <2>3, <2>4
  <2>6. Step[n] = Fanout * Step[n - 1] BY <1>2, <2>3
  <2> HIDE DEF Odd
  <2>7. Fanout * Step[n - 1] \in Nat /\ Fanout * Step[n - 1] > 0 BY <2>5, <1>0
  <2> QED BY <2>6, <2>7 DEF Odd
<1>4. \A l \in 1 .. MaxLevel + 1 : Step[l] \in Nat /\ Step[l] > 0
  <2> TAKE l \in 1 .. MaxLevel + 1
  <2>1. l \in Nat BY <1>0
  <2> QED BY <1>3, <2>1
<1> QED BY <1>1, <1>2, <1>4
-------------------------------------------------------------------------------
LEMMA Division ==
  ASSUME NEW p \in Nat, NEW d \in Nat, d > 0
  PROVE  /\ p \div d \in Nat /\ p % d \in 0 .. d - 1
         /\ p = (p \div d) * d + (p % d) /\ (p \div d) * d \in Nat
OBVIOUS

LEMMA Multiples ==
  ASSUME NEW a \in Nat, NEW b \in Nat, NEW d \in Nat, a < b
  PROVE  a * d + d <= b * d
<1>1. PICK k \in Nat : b = a + 1 + k
  <2>1. b - a - 1 \in Nat /\ b = a + 1 + (b - a - 1) OBVIOUS
  <2> QED BY <2>1
<1>2. b * d = a * d + d + k * d BY <1>1
<1>3. k * d \in Nat /\ a * d \in Nat BY <1>1
<1> QED BY <1>2, <1>3

LEMMA Quotient ==
  ASSUME NEW d \in Nat, d > 0, NEW k \in Nat, NEW m \in Nat, m < d
  PROVE  (k * d + m) \div d = k /\ (k * d + m) % d = m
<1> DEFINE q == k * d + m
<1>0. k * d \in Nat /\ q \in Nat OBVIOUS
<1> HIDE DEF q
<1>1. /\ q \div d \in Nat /\ q % d \in 0 .. d - 1 /\ q = (q \div d) * d + (q % d)
      /\ (q \div d) * d \in Nat
  BY <1>0, Division
<1>2. q = k * d + m BY DEF q
<1>3. ~(k < q \div d)
  <2> SUFFICES ASSUME k < q \div d PROVE FALSE OBVIOUS
  <2>1. k * d + d <= (q \div d) * d BY <1>1, Multiples
  <2> QED BY <2>1, <1>0, <1>1, <1>2
<1>4. ~(q \div d < k)
  <2> SUFFICES ASSUME q \div d < k PROVE FALSE OBVIOUS
  <2>1. (q \div d) * d + d <= k * d BY <1>1, Multiples
  <2> QED BY <2>1, <1>0, <1>1, <1>2
<1>5. q \div d = k BY SMTT(30), <1>1, <1>3, <1>4
<1>6. q % d = m BY <1>0, <1>1, <1>2, <1>5
<1> QED BY <1>5, <1>6 DEF q

LEMMA Exact ==
  ASSUME NEW d \in Nat, d > 0, NEW k \in Nat
  PROVE  (k * d) \div d = k /\ (k * d) % d = 0
<1> DEFINE m == 0
<1>1. m \in Nat /\ m < d /\ m = 0 OBVIOUS
<1>2. k * d + m = k * d BY <1>1
<1> HIDE DEF m
<1>3. (k * d + m) \div d = k /\ (k * d + m) % d = m BY <1>1, Quotient
<1> QED BY <1>1, <1>2, <1>3

LEMMA AtLeast ==
  ASSUME NEW d \in Nat, NEW k \in Nat, k > 0
  PROVE  k * d \in Nat /\ k * d >= d
<1>1. k - 1 \in Nat /\ k = (k - 1) + 1 OBVIOUS
<1>2. k * d = (k - 1) * d + d BY <1>1
<1>3. (k - 1) * d \in Nat BY <1>1
<1> QED BY <1>2, <1>3

LEMMA DivMonotone ==
  ASSUME NEW a \in Nat, NEW b \in Nat, a <= b, NEW d \in Nat, d > 0
  PROVE  a \div d <= b \div d
<1>1. /\ a \div d \in Nat /\ a % d \in 0 .. d - 1 /\ a = (a \div d) * d + (a % d) /\ (a \div d) * d \in Nat
      /\ b \div d \in Nat /\ b % d \in 0 .. d - 1 /\ b = (b \div d) * d + (b % d) /\ (b \div d) * d \in Nat
  BY Division
<1>2. ~(b \div d < a \div d)
  <2> SUFFICES ASSUME b \div d < a \div d PROVE FALSE OBVIOUS
  <2>1. (b \div d) * d + d <= (a \div d) * d BY <1>1, Multiples
  <2> QED BY <1>1, <2>1
<1> QED BY <1>1, <1>2

-------------------------------------------------------------------------------
(* Blocks: the pages behind an entry of a table. Pages of one block of a   *)
(* level share the tables above it, and differ in their index below it.    *)

LEMMA BlkIs ==
  ASSUME NEW p \in Nat, NEW l \in 1 .. MaxLevel + 1
  PROVE  /\ Blk(p, l) \in Nat /\ p % Step[l] \in 0 .. Step[l] - 1 /\ Step[l] \in Nat /\ Step[l] > 0
         /\ p = Blk(p, l) * Step[l] + (p % Step[l]) /\ Blk(p, l) * Step[l] \in Nat
BY Steps, Division DEF Blk

(* A block of the next level is Fanout blocks.                             *)
LEMMA BlkNext ==
  ASSUME NEW p \in Nat, NEW l \in Levels
  PROVE  Blk(p, l + 1) = Blk(p, l) \div Fanout
<1>0. /\ l \in 1 .. MaxLevel + 1 /\ l \in 1 .. MaxLevel /\ l + 1 \in 1 .. MaxLevel + 1
      /\ Fanout \in Nat /\ Fanout > 1
  BY Consts DEF Levels
<1> DEFINE s == Step[l]  a == Blk(p, l)  r == p % s  b == a \div Fanout  c == a % Fanout
<1>1. s \in Nat /\ s > 0 /\ a \in Nat /\ r \in Nat /\ r < s /\ p = a * s + r
  <2>1. s \in Nat /\ s > 0 /\ a \in Nat /\ r \in 0 .. s - 1 /\ p = a * s + r BY <1>0, BlkIs
  <2> HIDE DEF s, a, r
  <2> QED BY <2>1
<1>2. Step[l + 1] = Fanout * s BY <1>0, Steps
<1>3. b \in Nat /\ c \in Nat /\ c < Fanout /\ a = b * Fanout + c
  <2> HIDE DEF a
  <2>1. b \in Nat /\ c \in 0 .. Fanout - 1 /\ a = b * Fanout + c BY <1>0, <1>1, Division
  <2> HIDE DEF b, c
  <2> QED BY <2>1, <1>0
<1> HIDE DEF s, a, r, b, c
<1>4. p = b * (Fanout * s) + (c * s + r)
  <2>1. a * s = b * (Fanout * s) + c * s BY <1>0, <1>1, <1>3
  <2> QED BY <1>1, <1>3, <2>1, <1>0
<1>5. c * s + r \in Nat /\ c * s + r < Fanout * s
  <2>1. c * s + s <= Fanout * s BY <1>0, <1>1, <1>3, Multiples
  <2>2. c * s \in Nat /\ Fanout * s \in Nat BY <1>0, <1>1, <1>3
  <2> QED BY <1>1, <2>1, <2>2
<1>6. Fanout * s \in Nat /\ Fanout * s > 0 BY <1>0, <1>1
<1>7. p \div (Fanout * s) = b BY <1>3, <1>4, <1>5, <1>6, Quotient
<1> QED BY <1>2, <1>7 DEF Blk, a, b

LEMMA IndexIs ==
  ASSUME NEW p \in Nat, NEW l \in Levels
  PROVE  IndexOf(p, l) = Blk(p, l) % Fanout /\ IndexOf(p, l) \in Index
<1>1. Blk(p, l) \in Nat /\ Fanout \in Nat /\ Fanout > 1 BY BlkIs, Consts DEF Levels
<1>2. Blk(p, l) % Fanout \in 0 .. Fanout - 1 BY <1>1, Division
<1> QED BY <1>2 DEF IndexOf, Blk, Index

LEMMA SameBlock ==
  ASSUME NEW p \in Nat, NEW q \in Nat, NEW l \in Levels
  PROVE  Blk(p, l) = Blk(q, l) <=> Blk(p, l + 1) = Blk(q, l + 1) /\ IndexOf(p, l) = IndexOf(q, l)
<1>1. /\ Blk(p, l) \in Nat /\ Blk(q, l) \in Nat /\ Fanout \in Nat /\ Fanout > 0
  BY BlkIs, Consts DEF Levels
<1>2. /\ Blk(p, l) = (Blk(p, l) \div Fanout) * Fanout + (Blk(p, l) % Fanout)
      /\ Blk(q, l) = (Blk(q, l) \div Fanout) * Fanout + (Blk(q, l) % Fanout)
  BY <1>1, Division
<1> QED BY <1>2, BlkNext, IndexIs

LEMMA Aligned ==
  ASSUME NEW h \in Nat, NEW l \in 1 .. MaxLevel + 1, h % Step[l] = 0
  PROVE  h = Blk(h, l) * Step[l]
<1> DEFINE x == Blk(h, l) * Step[l]  m == h % Step[l]
<1>1. x \in Nat /\ h = x + m /\ m = 0 BY BlkIs
<1> HIDE DEF x, m
<1>2. h = x BY <1>1
<1> QED BY <1>2 DEF x

LEMMA BlkOne ==
  ASSUME NEW p \in Nat
  PROVE  Blk(p, 1) = p
BY Steps DEF Blk

LEMMA PageIs == \A p : p \in Pages <=> p \in Nat /\ Blk(p, MaxLevel + 1) = 0
<1> TAKE p
<1>0. MaxLevel + 1 \in 1 .. MaxLevel + 1 BY Consts
<1> DEFINE s == Step[MaxLevel + 1]
<1>1. s \in Nat /\ s > 0 BY <1>0, Steps
<1>2. p \in Pages <=> p \in Nat /\ p < s BY <1>1 DEF Pages
<1>3. ASSUME p \in Nat PROVE p < s <=> Blk(p, MaxLevel + 1) = 0
  <2> DEFINE b == Blk(p, MaxLevel + 1)
  <2>1. b \in Nat /\ p % s \in 0 .. s - 1 /\ p = b * s + (p % s) BY <1>0, <1>3, BlkIs
  <2>0. p \in Nat /\ s \in Nat /\ s > 0 BY <1>1, <1>3
  <2> SUFFICES p < s <=> b = 0 OBVIOUS
  <2> HIDE DEF s, b
  <2>2. CASE b = 0
    <3>1. b * s = 0 BY <2>0, <2>2
    <3> QED BY <2>0, <2>1, <2>2, <3>1
  <2>3. CASE b # 0
    <3>1. b * s >= s /\ b * s \in Nat BY <2>1, <2>3, <1>1, AtLeast
    <3>2. p >= s BY <3>1, <2>1, <1>1
    <3> QED BY <3>2, <2>0, <2>3
  <2> QED BY <2>2, <2>3
<1> QED BY <1>2, <1>3

(* Pages of a block are in one block of every level above.                 *)
LEMMA Coarser ==
  ASSUME NEW p \in Nat, NEW q \in Nat, NEW l \in 1 .. MaxLevel + 1, Blk(p, l) = Blk(q, l)
  PROVE  \A k \in l .. MaxLevel + 1 : Blk(p, k) = Blk(q, k)
<1> DEFINE Odd == {k \in Nat : k \in l .. MaxLevel + 1 /\ Blk(p, k) # Blk(q, k)}
<1>0. MaxLevel \in Nat /\ l \in Nat BY Consts
<1>1. Odd = {}
  <2> SUFFICES ASSUME Odd # {} PROVE FALSE OBVIOUS
  <2>1. PICK n \in Odd : \A k \in Odd : n <= k
    <3>1. Odd \in SUBSET Nat OBVIOUS
    <3> HIDE DEF Odd
    <3> QED BY <3>1, LeastNat
  <2>2. n # l OBVIOUS
  <2>3. n - 1 \in Nat /\ n - 1 \in l .. MaxLevel + 1 /\ ~(n <= n - 1) /\ (n - 1) + 1 = n /\ n - 1 \in Levels
    BY <1>0, <2>2 DEF Levels
  <2>4. Blk(p, n - 1) = Blk(q, n - 1) BY <2>1, <2>3
  <2>5. Blk(p, n) = Blk(q, n) BY <2>3, <2>4, SameBlock
  <2> QED BY <2>5
<1>2. \A k \in l .. MaxLevel + 1 : k \in Nat BY <1>0
<1> QED BY <1>1, <1>2

(* Every entry of a table stands for pages.                                *)
LEMMA EntryPage ==
  ASSUME NEW p \in Pages, NEW l \in Levels, NEW i \in Index
  PROVE  \E q \in Pages : Blk(q, l + 1) = Blk(p, l + 1) /\ IndexOf(q, l) = i
<1>0. /\ l \in 1 .. MaxLevel + 1 /\ l + 1 \in 1 .. MaxLevel + 1 /\ l \in Nat /\ MaxLevel \in Nat
      /\ MaxLevel + 1 \in l + 1 .. MaxLevel + 1
      /\ Fanout \in Nat /\ Fanout > 1 /\ p \in Nat /\ i \in Nat /\ i < Fanout
  BY Consts, PageIs DEF Levels, Index
<1> DEFINE b == Blk(p, l + 1)  a == b * Fanout + i  q == a * Step[l]
<1>1. b \in Nat /\ Step[l] \in Nat /\ Step[l] > 0 BY <1>0, BlkIs
<1> HIDE DEF b
<1>2. a \in Nat /\ a \div Fanout = b /\ a % Fanout = i BY <1>0, <1>1, Quotient
<1> HIDE DEF a
<1>3. q \in Nat BY <1>1, <1>2
<1>5. Blk(q, l) = a BY <1>1, <1>2, Exact DEF Blk
<1> HIDE DEF q
<1>6. Blk(q, l + 1) = Blk(p, l + 1) BY <1>2, <1>3, <1>5, BlkNext DEF b
<1>7. IndexOf(q, l) = i BY <1>2, <1>3, <1>5, IndexIs
<1>8. Blk(q, MaxLevel + 1) = Blk(p, MaxLevel + 1) BY <1>0, <1>3, <1>6, Coarser
<1> QED BY <1>3, <1>6, <1>7, <1>8, PageIs

-------------------------------------------------------------------------------
LEMMA Successor ==
  ASSUME NEW a \in Nat
  PROVE  LET b == a + 1 IN
         /\ b % Fanout > a % Fanout => b \div Fanout = a \div Fanout
         /\ b % Fanout # a % Fanout
         /\ ~(b % Fanout < a % Fanout) => b \div Fanout = a \div Fanout
         /\ b \div Fanout \in {a \div Fanout, (a \div Fanout) + 1}
<1>0. Fanout \in Nat /\ Fanout > 1 BY Consts
<1> DEFINE x == a \div Fanout  r == a % Fanout  b == a + 1
<1>1. x \in Nat /\ r \in Nat /\ r < Fanout /\ a = x * Fanout + r /\ x * Fanout \in Nat BY <1>0, Division
<1> HIDE DEF x, r
<1>2. CASE r + 1 < Fanout
  <2>1. b = x * Fanout + (r + 1) BY <1>1
  <2> HIDE DEF b
  <2>2. b \div Fanout = x /\ b % Fanout = r + 1 BY <2>1, <1>0, <1>1, <1>2, Quotient
  <2>3. r + 1 # r BY <1>1
  <2> QED BY <2>2, <2>3 DEF x, r, b
<1>3. CASE ~(r + 1 < Fanout)
  <2>1. r = Fanout - 1 BY <1>0, <1>1, <1>3
  <2>2. (x + 1) * Fanout = x * Fanout + Fanout BY <1>0, <1>1
  <2>3. b = (x + 1) * Fanout BY <1>0, <1>1, <2>1, <2>2
  <2> HIDE DEF b
  <2>4. b \div Fanout = x + 1 /\ b % Fanout = 0
    <3> DEFINE y == x + 1
    <3>1. y \in Nat /\ b = y * Fanout BY <1>1, <2>3
    <3> HIDE DEF y
    <3> QED BY <3>1, <1>0, Exact DEF y
  <2>5. r > 0 /\ ~(0 > r) BY <1>0, <2>1
  <2> QED BY <2>4, <2>5 DEF x, r, b
<1> QED BY <1>2, <1>3

(* The first page behind a block: it is in the next block of the level,    *)
(* and in the same or the next block of a level above.                     *)
LEMMA NextBlock ==
  ASSUME NEW r \in Levels, NEW h \in Nat, h % Step[r] = 0
  PROVE  LET n == h + Step[r] IN
         /\ n \in Nat /\ n % Step[r] = 0 /\ Blk(n, r) = Blk(h, r) + 1
         /\ \A l \in r .. MaxLevel + 1 : Blk(n, l) \in {Blk(h, l), Blk(h, l) + 1}
<1> DEFINE n == h + Step[r]  a == Blk(h, r)
<1>0. r \in 1 .. MaxLevel + 1 /\ MaxLevel \in Nat /\ r \in Nat BY Consts DEF Levels
<1>1. Step[r] \in Nat /\ Step[r] > 0 /\ a \in Nat /\ h = a * Step[r]
  BY <1>0, BlkIs, Aligned
<1> HIDE DEF a
<1>2. n \in Nat /\ n = (a + 1) * Step[r] /\ a + 1 \in Nat /\ (a + 1) * Step[r] \in Nat
  <2>1. (a + 1) * Step[r] = a * Step[r] + Step[r] BY <1>1
  <2> QED BY <1>1, <2>1
<1> HIDE DEF n
<1>3. n \div Step[r] = a + 1 /\ n % Step[r] = 0
  <2> DEFINE c == a + 1
  <2>1. c \in Nat /\ n = c * Step[r] /\ Step[r] \in Nat /\ Step[r] > 0 BY <1>1, <1>2
  <2> HIDE DEF c
  <2> QED BY <2>1, Exact DEF c
<1>4. Blk(n, r) = a + 1 BY <1>3 DEF Blk
<1> DEFINE Odd == {k \in Nat : k \in r .. MaxLevel + 1 /\ Blk(n, k) \notin {Blk(h, k), Blk(h, k) + 1}}
<1>5. Odd = {}
  <2> SUFFICES ASSUME Odd # {} PROVE FALSE OBVIOUS
  <2>1. PICK k \in Odd : \A j \in Odd : k <= j
    <3>1. Odd \in SUBSET Nat OBVIOUS
    <3> HIDE DEF Odd
    <3> QED BY <3>1, LeastNat
  <2>2. k # r BY <1>4 DEF a
  <2>3. k - 1 \in Nat /\ k - 1 \in r .. MaxLevel + 1 /\ ~(k <= k - 1) /\ (k - 1) + 1 = k /\ k - 1 \in Levels
        /\ k - 1 \in 1 .. MaxLevel + 1
    BY <1>0, <2>2 DEF Levels
  <2>4. Blk(n, k - 1) \in {Blk(h, k - 1), Blk(h, k - 1) + 1} BY <2>1, <2>3
  <2>5. Blk(h, k - 1) \in Nat BY <2>3, BlkIs
  <2>6. Blk(h, k) = Blk(h, k - 1) \div Fanout /\ Blk(n, k) = Blk(n, k - 1) \div Fanout
    BY <1>2, <2>3, BlkNext
  <2>7. Blk(n, k) \in {Blk(h, k), Blk(h, k) + 1} BY <2>4, <2>5, <2>6, Successor
  <2> QED BY <2>7
<1>6. \A l \in r .. MaxLevel + 1 : l \in Nat BY <1>0
<1> QED BY <1>2, <1>3, <1>4, <1>5, <1>6 DEF n, a

(* What the entries tell: whether the next address is behind the same      *)
(* table, and where it is not.                                             *)
LEMMA NextIndex ==
  ASSUME NEW r \in Levels, NEW h \in Nat, h % Step[r] = 0, NEW l \in r .. MaxLevel
  PROVE  LET n == h + Step[r] IN
         /\ IndexOf(n, l) > IndexOf(h, l) => Blk(n, l + 1) = Blk(h, l + 1)
         /\ IndexOf(n, l) = IndexOf(h, l) => Blk(n, l) = Blk(h, l)
         /\ l = r /\ ~(IndexOf(n, l) < IndexOf(h, l)) => Blk(n, l + 1) = Blk(h, l + 1)
<1> DEFINE n == h + Step[r]
<1>0. l \in Levels /\ l \in 1 .. MaxLevel + 1 /\ l \in r .. MaxLevel + 1 BY Consts DEF Levels
<1>1. n \in Nat /\ Blk(n, r) = Blk(h, r) + 1 /\ Blk(n, l) \in {Blk(h, l), Blk(h, l) + 1}
  BY <1>0, NextBlock
<1> HIDE DEF n
<1>2. Blk(h, l) \in Nat BY <1>0, BlkIs
<1>3. /\ Blk(n, l + 1) = Blk(n, l) \div Fanout /\ Blk(h, l + 1) = Blk(h, l) \div Fanout
      /\ IndexOf(n, l) = Blk(n, l) % Fanout /\ IndexOf(h, l) = Blk(h, l) % Fanout
  BY <1>0, <1>1, BlkNext, IndexIs
<1>4. CASE Blk(n, l) = Blk(h, l)
  <2>1. l # r BY <1>1, <1>2, <1>4
  <2> QED BY <1>3, <1>4, <2>1 DEF n
<1>5. CASE Blk(n, l) = Blk(h, l) + 1 BY <1>2, <1>3, <1>5, Successor DEF n
<1> QED BY <1>1, <1>4, <1>5

(* The pages of a block.                                                   *)
LEMMA InBlock ==
  ASSUME NEW r \in Levels, NEW h \in Nat, h % Step[r] = 0, NEW p \in Nat
  PROVE  Blk(p, r) = Blk(h, r) <=> h <= p /\ p < h + Step[r]
<1>0. r \in 1 .. MaxLevel + 1 BY Consts DEF Levels
<1> DEFINE s == Step[r]  a == Blk(h, r)  b == Blk(p, r)  m == p % s
<1>1. s \in Nat /\ s > 0 /\ a \in Nat /\ h = a * s /\ b \in Nat /\ m \in Nat /\ m < s /\ p = b * s + m
      /\ a * s \in Nat /\ b * s \in Nat
  <2>1. s \in Nat /\ s > 0 BY <1>0, BlkIs
  <2>2. h = a * s /\ a \in Nat /\ a * s \in Nat BY <1>0, BlkIs, Aligned
  <2>3. b \in Nat /\ b * s \in Nat /\ m \in 0 .. s - 1 /\ p = b * s + m BY <1>0, BlkIs
  <2> HIDE DEF s, a, b, m
  <2> QED BY <2>1, <2>2, <2>3
<1> HIDE DEF s, a, b, m
<1>2. CASE a = b BY <1>1, <1>2 DEF a, b, s
<1>3. CASE a < b
  <2>1. a * s + s <= b * s BY <1>1, <1>3, Multiples
  <2>2. ~(p < h + s) BY <1>1, <2>1
  <2> QED BY <1>1, <1>3, <2>2 DEF a, b, s
<1>4. CASE b < a
  <2>1. b * s + s <= a * s BY <1>1, <1>4, Multiples
  <2>2. ~(h <= p) BY <1>1, <2>1
  <2> QED BY <1>1, <1>4, <2>2 DEF a, b, s
<1> QED BY <1>1, <1>2, <1>3, <1>4

-------------------------------------------------------------------------------
(* The tree of tables as what is found in it: a function of the level and  *)
(* the page, from the root down. It exists and is the only one, for every  *)
(* memory.                                                                 *)

(* What is found at each level, in a memory m, from what is found above.   *)
LookUp(m, F) ==
  [l \in 0 .. MaxLevel |->
     [p \in Pages |-> IF l = MaxLevel THEN Root
                      ELSE LET t == F[l + 1][p]
                           IN IF t = Absent THEN Absent ELSE m[t][IndexOf(p, l + 1)]]]

(* A memory has one such function: downward from the root, as there would  *)
(* be a highest level where two of them differ.                            *)
LEMMA FoundOnce ==
  ASSUME NEW m, NEW F, NEW G, F = LookUp(m, F), G = LookUp(m, G)
  PROVE  F = G
<1>0. MaxLevel \in Nat BY Consts
<1> DEFINE at(H, l) == [p \in Pages |-> IF l = MaxLevel THEN Root
                                         ELSE LET t == H[l + 1][p]
                                              IN IF t = Absent THEN Absent ELSE m[t][IndexOf(p, l + 1)]]
           Odd == {k \in Nat : k <= MaxLevel /\ F[MaxLevel - k] # G[MaxLevel - k]}
<1>1. \A l \in 0 .. MaxLevel : F[l] = at(F, l) /\ G[l] = at(G, l) BY DEF LookUp
<1>2. F = [l \in 0 .. MaxLevel |-> F[l]] /\ G = [l \in 0 .. MaxLevel |-> G[l]] BY DEF LookUp
<1>3. F[MaxLevel] = G[MaxLevel]
  <2>1. MaxLevel \in 0 .. MaxLevel BY <1>0
  <2>2. at(F, MaxLevel) = at(G, MaxLevel) OBVIOUS
  <2> HIDE DEF at
  <2> QED BY <1>1, <2>1, <2>2
<1>4. ASSUME NEW l \in 0 .. MaxLevel, l # MaxLevel, F[l + 1] = G[l + 1] PROVE F[l] = G[l]
  <2>1. at(F, l) = at(G, l) BY <1>4
  <2> HIDE DEF at
  <2> QED BY <1>1, <2>1
<1> HIDE DEF at
<1>5. Odd = {}
  <2> SUFFICES ASSUME Odd # {} PROVE FALSE OBVIOUS
  <2>1. PICK n \in Odd : \A k \in Odd : n <= k
    <3>1. Odd \in SUBSET Nat OBVIOUS
    <3> HIDE DEF Odd
    <3> QED BY <3>1, LeastNat
  <2>2. n # 0 BY <1>0, <1>3
  <2>3. n - 1 \in Nat /\ n - 1 <= MaxLevel /\ ~(n <= n - 1) BY <1>0, <2>2
  <2>4. n - 1 \notin Odd BY <2>1, <2>3
  <2>5. F[MaxLevel - (n - 1)] = G[MaxLevel - (n - 1)] BY <2>3, <2>4
  <2>6. MaxLevel - (n - 1) = (MaxLevel - n) + 1 /\ MaxLevel - n \in 0 .. MaxLevel /\ MaxLevel - n # MaxLevel
    BY <1>0, <2>2
  <2>7. F[MaxLevel - n] = G[MaxLevel - n] BY <1>4, <2>5, <2>6
  <2> QED BY <2>7
<1>6. ASSUME NEW l \in 0 .. MaxLevel PROVE F[l] = G[l]
  <2>1. MaxLevel - l \in Nat /\ MaxLevel - l <= MaxLevel /\ MaxLevel - (MaxLevel - l) = l BY <1>0
  <2> QED BY <1>5, <2>1
<1> HIDE DEF Odd
<1> QED BY <1>2, <1>6

(* It has one: there would be a highest level down to which there is none, *)
(* and what is there down to the level above it can be continued.          *)
LEMMA FoundExists ==
  ASSUME NEW m
  PROVE  \E F : F = LookUp(m, F)
<1>0. MaxLevel \in Nat BY Consts
<1> DEFINE at(H, l) == [p \in Pages |-> IF l = MaxLevel THEN Root
                                         ELSE LET t == H[l + 1][p]
                                              IN IF t = Absent THEN Absent ELSE m[t][IndexOf(p, l + 1)]]
           eq(F, k) == F = [l \in (MaxLevel - k) .. MaxLevel |-> at(F, l)]
           Odd == {k \in Nat : k <= MaxLevel /\ ~ \E F : eq(F, k)}
<1>1. \A F, G : \A l \in 0 .. MaxLevel :
        (l = MaxLevel \/ F[l + 1] = G[l + 1]) => at(F, l) = at(G, l)
  OBVIOUS
<1> HIDE DEF at
<1>2. Odd = {}
  <2> SUFFICES ASSUME Odd # {} PROVE FALSE OBVIOUS
  <2>1. PICK n \in Odd : \A k \in Odd : n <= k
    <3>1. Odd \in SUBSET Nat OBVIOUS
    <3> HIDE DEF Odd
    <3> QED BY <3>1, LeastNat
  <2>2. n \in Nat /\ n <= MaxLevel OBVIOUS
  <2>3. CASE n = 0
    <3> DEFINE T == [l \in MaxLevel .. MaxLevel |-> at(<<>>, l)]
    <3>1. \A l \in MaxLevel .. MaxLevel : at(T, l) = at(<<>>, l)
      <4>1. \A l \in MaxLevel .. MaxLevel : l = MaxLevel /\ l \in 0 .. MaxLevel BY <1>0
      <4> HIDE DEF T
      <4> QED BY <4>1, <1>1
    <3>2. T = [l \in MaxLevel .. MaxLevel |-> at(T, l)] BY <3>1
    <3>3. MaxLevel - n = MaxLevel BY <1>0, <2>3
    <3> HIDE DEF T
    <3>4. eq(T, n) BY <3>2, <3>3
    <3> QED BY <3>4
  <2>4. CASE n # 0
    <3>1. n - 1 \in Nat /\ n - 1 <= MaxLevel /\ ~(n <= n - 1) BY <1>0, <2>2, <2>4
    <3>2. n - 1 \notin Odd BY <2>1, <3>1
    <3>3. PICK S : eq(S, n - 1) BY <3>1, <3>2
    <3> DEFINE b == MaxLevel - n
               T == [l \in b .. MaxLevel |-> IF l = b THEN at(S, b) ELSE S[l]]
    <3>4. b \in Nat /\ b < MaxLevel /\ MaxLevel - (n - 1) = b + 1 BY <1>0, <2>2, <2>4
    <3>5. \A l \in b + 1 .. MaxLevel : S[l] = at(S, l) BY <3>3, <3>4
    <3> HIDE DEF b
    <3>6. ASSUME NEW l \in b .. MaxLevel PROVE T[l] = at(T, l)
      <4>1. l \in 0 .. MaxLevel BY <3>4, <1>0
      <4>2. l # MaxLevel => T[l + 1] = S[l + 1]
        <5>1. l # MaxLevel => l + 1 \in b .. MaxLevel /\ l + 1 # b BY <3>4, <1>0
        <5> QED BY <5>1
      <4>3. at(T, l) = at(S, l)
        <5> HIDE DEF T
        <5> QED BY <4>1, <4>2, <1>1
      <4>4. l # b => l \in b + 1 .. MaxLevel BY <3>4, <1>0
      <4> QED BY <3>5, <4>3, <4>4
    <3>7. T = [l \in b .. MaxLevel |-> at(T, l)]
      <4>1. T = [l \in b .. MaxLevel |-> T[l]] OBVIOUS
      <4> HIDE DEF T
      <4> QED BY <4>1, <3>6
    <3> HIDE DEF T
    <3>8. eq(T, n) BY <3>7 DEF b
    <3> QED BY <3>8
  <2> QED BY <2>3, <2>4
<1>3. PICK F : eq(F, MaxLevel)
  <2> HIDE DEF eq, Odd
  <2>1. MaxLevel \in Nat /\ MaxLevel <= MaxLevel /\ MaxLevel \notin Odd BY <1>0, <1>2
  <2> QED BY <2>1 DEF Odd
<1>4. MaxLevel - MaxLevel = 0 BY <1>0
<1>5. F = [l \in 0 .. MaxLevel |-> at(F, l)] BY <1>3, <1>4
<1>6. F = LookUp(m, F) BY <1>5 DEF LookUp, at
<1> QED BY <1>6

LEMMA FoundIs == Found = LookUp(mem, Found)
<1>1. PICK F : F = LookUp(mem, F) BY FoundExists
<1> QED BY <1>1 DEF Found, LookUp

LEMMA FoundNext == Found' = LookUp(mem', Found')
<1>1. PICK F : F = LookUp(mem', F) BY FoundExists
<1> QED BY <1>1 DEF Found, LookUp

LEMMA FoundSame ==
  ASSUME mem' = mem
  PROVE  Found' = Found
BY FoundIs, FoundNext, FoundOnce
-------------------------------------------------------------------------------
(* The tables are a tree: what is found above a frame is the same for all  *)
(* pages of its block, and no frame is found at two places.                *)
Tree(F) ==
  /\ F \in [0 .. MaxLevel -> [Pages -> Nat]]
  /\ \A p \in Pages : F[MaxLevel][p] = Root
  /\ \A l \in 1 .. MaxLevel - 1, p \in Pages : F[l][p] \in Frame \cup {Absent}
  /\ \A p \in Pages : F[0][p] \in Frame \cup {Absent} \/ F[0][p] >= Device
  /\ \A l \in 1 .. MaxLevel, p \in Pages : F[l][p] = Absent => F[l - 1][p] = Absent
  /\ \A l \in 0 .. MaxLevel, p, q \in Pages : Blk(p, l + 1) = Blk(q, l + 1) => F[l][p] = F[l][q]
  /\ \A l, k \in 0 .. MaxLevel - 1, p, q \in Pages :
       F[l][p] = F[k][q] /\ F[l][p] \in Frame => l = k /\ Blk(p, l + 1) = Blk(q, l + 1)

(* What is found when the entry of page p in its table of level l is v.    *)
Changed(F, l, p, v) ==
  [k \in 0 .. MaxLevel |->
     [q \in Pages |-> IF k = l - 1 /\ Blk(q, l) = Blk(p, l) THEN v ELSE F[k][q]]]

LEMMA PageNat == \A p \in Pages : p \in Nat
BY PageIs

LEMMA TableIs ==
  ASSUME NEW F, Tree(F), NEW l \in Levels, NEW p \in Pages, F[l][p] # Absent
  PROVE  /\ F[l][p] \in Frame \cup {Root}
         /\ l = MaxLevel <=> F[l][p] = Root
         /\ \A k \in Levels, q \in Pages :
              F[k][q] = F[l][p] => k = l /\ Blk(q, l + 1) = Blk(p, l + 1)
<1>0. MaxLevel \in Nat /\ MaxLevel > 2 /\ Root \notin Frame /\ Root # Absent /\ l \in Nat BY Consts
<1>1. ASSUME NEW k \in Levels, NEW q \in Pages, F[k][q] # Absent
      PROVE  IF k = MaxLevel THEN F[k][q] = Root ELSE F[k][q] \in Frame /\ k \in 0 .. MaxLevel - 1
  <2>1. CASE k = MaxLevel BY <2>1 DEF Tree
  <2>2. CASE k # MaxLevel
    <3>1. k \in 1 .. MaxLevel - 1 /\ k \in 0 .. MaxLevel - 1 BY <1>0, <2>2 DEF Levels
    <3> QED BY <1>1, <2>2, <3>1 DEF Tree
  <2> QED BY <2>1, <2>2
<1>2. IF l = MaxLevel THEN F[l][p] = Root ELSE F[l][p] \in Frame /\ l \in 0 .. MaxLevel - 1 BY <1>1
<1>3. ASSUME NEW k \in Levels, NEW q \in Pages, F[k][q] = F[l][p]
      PROVE  k = l /\ Blk(q, l + 1) = Blk(p, l + 1)
  <2>1. IF k = MaxLevel THEN F[k][q] = Root ELSE F[k][q] \in Frame /\ k \in 0 .. MaxLevel - 1 BY <1>1, <1>3
  <2>2. CASE l = MaxLevel
    <3>1. k = MaxLevel BY <1>0, <1>2, <1>3, <2>1, <2>2
    <3>2. Blk(q, MaxLevel + 1) = 0 /\ Blk(p, MaxLevel + 1) = 0 BY PageIs
    <3> QED BY <2>2, <3>1, <3>2
  <2>3. CASE l # MaxLevel
    <3>1. k # MaxLevel BY <1>0, <1>2, <1>3, <2>1, <2>3
    <3> QED BY <1>2, <1>3, <2>1, <2>3, <3>1 DEF Tree
  <2> QED BY <2>2, <2>3
<1> QED BY <1>0, <1>2, <1>3

LEMMA TreeBlock ==
  ASSUME NEW F, Tree(F), NEW p \in Pages, NEW q \in Pages
  PROVE  /\ \A l \in 0 .. MaxLevel : Blk(p, l + 1) = Blk(q, l + 1) => F[l][p] = F[l][q]
         /\ \A l \in Levels : Blk(p, l) = Blk(q, l) => F[l - 1][p] = F[l - 1][q]
<1>1. \A l \in 0 .. MaxLevel : Blk(p, l + 1) = Blk(q, l + 1) => F[l][p] = F[l][q] BY DEF Tree
<1>2. \A l \in Levels : l - 1 \in 0 .. MaxLevel /\ (l - 1) + 1 = l BY Consts DEF Levels
<1> QED BY <1>1, <1>2

(* What an entry holds is what is found below.                             *)
LEMMA EntryIs ==
  ASSUME NEW m, NEW F, F = LookUp(m, F), NEW l \in Levels, NEW p \in Pages, F[l][p] # Absent
  PROVE  m[F[l][p]][IndexOf(p, l)] = F[l - 1][p]
<1>1. l - 1 \in 0 .. MaxLevel /\ l - 1 # MaxLevel /\ (l - 1) + 1 = l BY Consts DEF Levels
<1>2. F[l - 1][p] = (LookUp(m, F))[l - 1][p] OBVIOUS
<1>3. (LookUp(m, F))[l - 1][p] = m[F[l][p]][IndexOf(p, l)] BY <1>1 DEF LookUp
<1> QED BY <1>2, <1>3

LEMMA EmptyIs ==
  ASSUME NEW m, NEW F, F = LookUp(m, F), Tree(F), NEW l \in Levels, NEW p \in Pages, F[l][p] # Absent,
         m[F[l][p]] \in [Index -> Nat]
  PROVE  m[F[l][p]] = Clear <=> \A q \in Pages : Blk(q, l + 1) = Blk(p, l + 1) => F[l - 1][q] = Absent
<1>0. l \in 0 .. MaxLevel BY Consts DEF Levels
<1>1. ASSUME NEW q \in Pages, Blk(q, l + 1) = Blk(p, l + 1)
      PROVE  F[l][q] = F[l][p] /\ F[l - 1][q] = m[F[l][p]][IndexOf(q, l)] /\ IndexOf(q, l) \in Index
  <2>1. F[l][q] = F[l][p] BY <1>0, <1>1 DEF Tree
  <2>2. q \in Nat BY PageNat
  <2> QED BY <2>1, <2>2, EntryIs, IndexIs
<1>2. ASSUME m[F[l][p]] = Clear, NEW q \in Pages, Blk(q, l + 1) = Blk(p, l + 1)
      PROVE  F[l - 1][q] = Absent
  BY <1>1, <1>2 DEF Clear
<1>3. ASSUME \A q \in Pages : Blk(q, l + 1) = Blk(p, l + 1) => F[l - 1][q] = Absent
      PROVE  m[F[l][p]] = Clear
  <2>1. ASSUME NEW i \in Index PROVE m[F[l][p]][i] = Absent
    <3>1. PICK q \in Pages : Blk(q, l + 1) = Blk(p, l + 1) /\ IndexOf(q, l) = i BY EntryPage
    <3> QED BY <1>1, <1>3, <3>1
  <2> QED BY <2>1 DEF Clear
<1> QED BY <1>2, <1>3

(* A change of one entry.  A table that is added or removed is clear.      *)
Sets(m, F, l, p, v, n) ==
  /\ l \in Levels /\ p \in Pages /\ F[l][p] # Absent /\ m[F[l][p]] \in [Index -> Nat]
  /\ n[F[l][p]] = [m[F[l][p]] EXCEPT ![IndexOf(p, l)] = v]
  /\ \A k \in Levels, q \in Pages : F[k][q] \notin {Absent, F[l][p]} => n[F[k][q]] = m[F[k][q]]
  /\ l > 1 => /\ F[l - 1][p] = Absent \/ m[F[l - 1][p]] = Clear
              /\ v = Absent \/ n[v] = Clear

LEMMA SetEntry ==
  ASSUME NEW m, NEW F, F = LookUp(m, F), Tree(F), NEW l, NEW p, NEW v, NEW n, Sets(m, F, l, p, v, n),
         NEW G, G = LookUp(n, G)
  PROVE  G = Changed(F, l, p, v)
<1> USE DEF Sets
<1> DEFINE C == Changed(F, l, p, v)  t == F[l][p]
<1>0. /\ MaxLevel \in Nat /\ MaxLevel > 2 /\ l \in Nat /\ l > 0 /\ l <= MaxLevel
      /\ l \in 0 .. MaxLevel /\ l - 1 \in 0 .. MaxLevel
  BY Consts DEF Levels
<1>1. \A k \in 0 .. MaxLevel, q \in Pages :
        C[k][q] = IF k = l - 1 /\ Blk(q, l) = Blk(p, l) THEN v ELSE F[k][q]
  BY DEF Changed
<1>2. \A k \in Levels, q \in Pages : F[k][q] = t => k = l /\ Blk(q, l + 1) = Blk(p, l + 1)
  BY TableIs
<1>3. p \in Nat /\ \A q \in Pages : q \in Nat /\ \A k \in Levels : IndexOf(q, k) \in Index BY PageNat, IndexIs
<1> HIDE DEF C
<1>4. ASSUME NEW k \in 0 .. MaxLevel, NEW q \in Pages
      PROVE  C[k][q] = IF k = MaxLevel THEN Root
                       ELSE IF C[k + 1][q] = Absent THEN Absent ELSE n[C[k + 1][q]][IndexOf(q, k + 1)]
  <2>1. CASE k = MaxLevel
    <3>1. k # l - 1 BY <1>0, <2>1
    <3> QED BY <1>1, <2>1, <3>1 DEF Tree
  <2>2. CASE k # MaxLevel
    <3>0. /\ k + 1 \in Levels /\ k + 1 \in 0 .. MaxLevel /\ (k + 1) - 1 = k /\ k \in Nat /\ k + 1 \in 1 .. MaxLevel
          /\ (k = l - 1 <=> k + 1 = l)
      BY <1>0, <2>2 DEF Levels
    <3>1. CASE k + 1 = l - 1 /\ Blk(q, l) = Blk(p, l)
      <4>1. l > 1 /\ k # l - 1 BY <1>0, <3>0, <3>1
      <4>2. C[k][q] = F[k][q] /\ C[k + 1][q] = v BY <1>1, <3>0, <3>1, <4>1
      <4>3. F[k + 1][q] = F[l - 1][p]
        <5>1. F[l - 1][q] = F[l - 1][p] BY <3>1, TreeBlock
        <5> QED BY <3>1, <5>1
      <4>4. F[k][q] = Absent
        <5>1. CASE F[l - 1][p] = Absent BY <4>3, <5>1, <3>0 DEF Tree
        <5>2. CASE F[l - 1][p] # Absent
          <6>1. m[F[k + 1][q]] = Clear
            <7> HIDE DEF C, t
            <7> QED BY <4>1, <4>3, <5>2
          <6>2. m[F[k + 1][q]][IndexOf(q, k + 1)] = F[k][q] BY <3>0, <4>3, <5>2, EntryIs
          <6> QED BY <6>1, <6>2, <1>3, <3>0 DEF Clear
        <5> QED BY <5>1, <5>2
      <4>5. v = Absent \/ n[v][IndexOf(q, k + 1)] = Absent BY <4>1, <1>3, <3>0 DEF Clear
      <4> HIDE DEF C
      <4> QED BY <2>2, <4>2, <4>4, <4>5
    <3>2. CASE ~(k + 1 = l - 1 /\ Blk(q, l) = Blk(p, l))
      <4> DEFINE u == F[k + 1][q]
      <4>1. C[k + 1][q] = u BY <1>1, <3>0, <3>2
      <4>2. CASE u = Absent
        <5>1. F[k][q] = Absent BY <3>0, <4>2 DEF Tree
        <5>2. ~(k = l - 1 /\ Blk(q, l) = Blk(p, l))
          <6> SUFFICES ASSUME k = l - 1, Blk(q, l) = Blk(p, l) PROVE FALSE OBVIOUS
          <6>1. l \in 1 .. MaxLevel + 1 /\ l + 1 \in l .. MaxLevel + 1 BY <1>0
          <6>2. Blk(q, l + 1) = Blk(p, l + 1) BY <6>1, <1>3, Coarser
          <6>3. F[l][q] = F[l][p] BY <6>2, <1>0 DEF Tree
          <6> QED BY <6>3, <3>0, <4>2
        <5>3. C[k][q] = Absent BY <1>1, <5>1, <5>2
        <5> HIDE DEF C
        <5> QED BY <2>2, <4>1, <4>2, <5>3
      <4>3. CASE u # Absent /\ u = t
        <5>1. k + 1 = l /\ Blk(q, l + 1) = Blk(p, l + 1) BY <1>2, <3>0, <4>3
        <5>2. k = l - 1 BY <3>0, <5>1
        <5>3. IndexOf(q, l) = IndexOf(p, l) <=> Blk(q, l) = Blk(p, l) BY <1>3, <5>1, SameBlock
        <5>4. m[t][IndexOf(q, l)] = F[k][q] BY <3>0, <4>3, <5>1, EntryIs
        <5>5. n[t][IndexOf(q, l)] = IF IndexOf(q, l) = IndexOf(p, l) THEN v ELSE m[t][IndexOf(q, l)]
          BY <1>3
        <5>6. C[k][q] = IF Blk(q, l) = Blk(p, l) THEN v ELSE F[k][q] BY <1>1, <5>2
        <5> HIDE DEF C, t
        <5> QED BY <2>2, <4>1, <4>3, <5>1, <5>3, <5>4, <5>5, <5>6
      <4>4. CASE u # Absent /\ u # t
        <5>1. n[u] = m[u] BY <3>0, <4>4
        <5>2. m[u][IndexOf(q, k + 1)] = F[k][q] BY <3>0, <4>4, EntryIs
        <5>3. ~(k = l - 1 /\ Blk(q, l) = Blk(p, l))
          <6> SUFFICES ASSUME k = l - 1, Blk(q, l) = Blk(p, l) PROVE FALSE OBVIOUS
          <6>1. l \in 1 .. MaxLevel + 1 /\ l + 1 \in l .. MaxLevel + 1 BY <1>0
          <6>2. Blk(q, l + 1) = Blk(p, l + 1) BY <6>1, <1>3, Coarser
          <6>3. F[l][q] = F[l][p] BY <6>2, <1>0 DEF Tree
          <6> QED BY <6>3, <3>0, <4>4
        <5>4. C[k][q] = F[k][q] BY <1>1, <5>3
        <5> HIDE DEF C
        <5> QED BY <2>2, <4>1, <4>4, <5>1, <5>2, <5>4
      <4> QED BY <4>2, <4>3, <4>4
    <3> QED BY <3>1, <3>2
  <2> QED BY <2>1, <2>2
<1>5. C = LookUp(n, C)
  <2> DEFINE row(k) == [q \in Pages |-> IF k = MaxLevel THEN Root
                                        ELSE LET u == C[k + 1][q]
                                             IN IF u = Absent THEN Absent ELSE n[u][IndexOf(q, k + 1)]]
             own(k) == [q \in Pages |-> C[k][q]]
  <2>1. C = [k \in 0 .. MaxLevel |-> own(k)]
    <3>1. \A k \in 0 .. MaxLevel :
            [q \in Pages |-> IF k = l - 1 /\ Blk(q, l) = Blk(p, l) THEN v ELSE F[k][q]] = own(k)
      BY DEF C, Changed
    <3> HIDE DEF own
    <3> QED BY <3>1 DEF C, Changed
  <2>2. \A k \in 0 .. MaxLevel : row(k) = own(k) BY <1>4
  <2>3. LookUp(n, C) = [k \in 0 .. MaxLevel |-> row(k)] BY DEF LookUp
  <2> HIDE DEF row, own
  <2>4. [k \in 0 .. MaxLevel |-> row(k)] = [k \in 0 .. MaxLevel |-> own(k)] BY <2>2
  <2> HIDE DEF C
  <2> QED BY <2>1, <2>3, <2>4
<1>6. G = C BY <1>5, FoundOnce
<1> QED BY <1>6 DEF C

-------------------------------------------------------------------------------
(* References to a frame, and what a changed entry does to them.           *)

(* Frame f is an entry of a table, or a page.                              *)
Ref(F, f) == \E l \in 0 .. MaxLevel - 1, p \in Pages : F[l][p] = f

(* Below what is absent nothing is found.                                  *)
LEMMA Path ==
  ASSUME NEW F, Tree(F), NEW p \in Pages, NEW j \in 0 .. MaxLevel, F[j][p] # Absent
  PROVE  \A k \in j .. MaxLevel : F[k][p] # Absent
<1> DEFINE Odd == {k \in Nat : k \in j .. MaxLevel /\ F[k][p] = Absent}
<1>0. MaxLevel \in Nat /\ j \in Nat BY Consts
<1>1. Odd = {}
  <2> SUFFICES ASSUME Odd # {} PROVE FALSE OBVIOUS
  <2>1. PICK n \in Odd : \A k \in Odd : n <= k
    <3>1. Odd \in SUBSET Nat OBVIOUS
    <3> HIDE DEF Odd
    <3> QED BY <3>1, LeastNat
  <2>2. n # j OBVIOUS
  <2>3. n - 1 \in Nat /\ n - 1 \in j .. MaxLevel /\ ~(n <= n - 1) /\ n \in 1 .. MaxLevel BY <1>0, <2>2
  <2>4. F[n - 1][p] # Absent BY <2>1, <2>3
  <2> QED BY <2>3, <2>4 DEF Tree
<1>2. \A k \in j .. MaxLevel : k \in Nat BY <1>0
<1> QED BY <1>1, <1>2

(* A change that leaves a tree: the entry is cleared, with nothing below   *)
(* it, or was absent and gets a new frame, or a place on the device.       *)
Fits(F, l, p, v) ==
  /\ l \in Levels /\ p \in Pages /\ F[l][p] # Absent
  /\ \/ v = Absent
     \/ F[l - 1][p] = Absent /\ v \in Frame /\ ~Ref(F, v)
     \/ F[l - 1][p] = Absent /\ l = 1 /\ v \in Nat /\ v >= Device
  /\ l > 1 => \A q \in Pages : Blk(q, l) = Blk(p, l) => F[l - 2][q] = Absent

LEMMA ChangedIs ==
  ASSUME NEW F, NEW l, NEW p, NEW v, NEW k \in 0 .. MaxLevel, NEW q \in Pages
  PROVE  Changed(F, l, p, v)[k][q] = IF k = l - 1 /\ Blk(q, l) = Blk(p, l) THEN v ELSE F[k][q]
BY DEF Changed

LEMMA TreeChanged ==
  ASSUME NEW F, Tree(F), NEW l, NEW p, NEW v, Fits(F, l, p, v)
  PROVE  Tree(Changed(F, l, p, v))
<1> DEFINE G == Changed(F, l, p, v)
<1>0. /\ MaxLevel \in Nat /\ MaxLevel > 2 /\ l \in Nat /\ l > 0 /\ l <= MaxLevel /\ l \in Levels /\ p \in Pages
      /\ Root \in Nat /\ Absent = 0 /\ Absent \notin Frame /\ Device \in Nat /\ Device > 0
      /\ \A f \in Frame : f \in Nat /\ f < Device
  BY Consts DEF Levels, Fits
<1>1. \A k \in 0 .. MaxLevel, q \in Pages :
        G[k][q] = IF k = l - 1 /\ Blk(q, l) = Blk(p, l) THEN v ELSE F[k][q]
  BY ChangedIs
<1>2. v \in Nat BY <1>0 DEF Fits
<1>3. G \in [0 .. MaxLevel -> [Pages -> Nat]]
  <2>1. \A k \in 0 .. MaxLevel :
          [q \in Pages |-> IF k = l - 1 /\ Blk(q, l) = Blk(p, l) THEN v ELSE F[k][q]] \in [Pages -> Nat]
    BY <1>2 DEF Tree
  <2> QED BY <2>1 DEF Changed
<1> HIDE DEF G
<1>4. ASSUME NEW q \in Pages PROVE G[MaxLevel][q] = Root
  <2>1. MaxLevel \in 0 .. MaxLevel /\ MaxLevel # l - 1 BY <1>0
  <2> QED BY <1>1, <2>1 DEF Tree
<1>5. ASSUME NEW k \in 1 .. MaxLevel - 1, NEW q \in Pages PROVE G[k][q] \in Frame \cup {Absent}
  <2>1. k \in 0 .. MaxLevel BY <1>0
  <2>2. F[k][q] \in Frame \cup {Absent} BY DEF Tree
  <2>3. k = l - 1 => v \in Frame \cup {Absent} BY <1>0 DEF Fits
  <2> QED BY <1>1, <2>1, <2>2, <2>3
<1>6. ASSUME NEW q \in Pages PROVE G[0][q] \in Frame \cup {Absent} \/ G[0][q] >= Device
  <2>1. 0 \in 0 .. MaxLevel BY <1>0
  <2>2. F[0][q] \in Frame \cup {Absent} \/ F[0][q] >= Device BY DEF Tree
  <2>3. v \in Frame \cup {Absent} \/ v >= Device BY DEF Fits
  <2> QED BY <1>1, <2>1, <2>2, <2>3
<1>7. ASSUME NEW k \in 1 .. MaxLevel, NEW q \in Pages, G[k][q] = Absent PROVE G[k - 1][q] = Absent
  <2>0. k \in 0 .. MaxLevel /\ k - 1 \in 0 .. MaxLevel /\ k \in Levels /\ k \in Nat BY <1>0 DEF Levels
  <2>1. CASE k = l - 1 /\ Blk(q, l) = Blk(p, l)
    <3>1. l > 1 /\ k - 1 # l - 1 /\ k - 1 = l - 2 BY <1>0, <2>0, <2>1
    <3>2. F[l - 2][q] = Absent BY <2>1, <3>1 DEF Fits
    <3> QED BY <1>1, <2>0, <3>1, <3>2
  <2>2. CASE ~(k = l - 1 /\ Blk(q, l) = Blk(p, l))
    <3>1. F[k][q] = Absent BY <1>1, <1>7, <2>0, <2>2
    <3>2. F[k - 1][q] = Absent BY <3>1 DEF Tree
    <3>3. ~(k - 1 = l - 1 /\ Blk(q, l) = Blk(p, l))
      <4> SUFFICES ASSUME k - 1 = l - 1, Blk(q, l) = Blk(p, l) PROVE FALSE OBVIOUS
      <4>1. k = l BY <1>0, <2>0
      <4>2. l \in 1 .. MaxLevel + 1 /\ l + 1 \in l .. MaxLevel + 1 /\ p \in Nat /\ q \in Nat BY <1>0, PageNat
      <4>3. Blk(q, l + 1) = Blk(p, l + 1) BY <4>2, Coarser
      <4>4. F[l][q] = F[l][p] BY <4>1, <4>3, <2>0, <1>0, TreeBlock
      <4> QED BY <3>1, <4>1, <4>4 DEF Fits
    <3> QED BY <1>1, <2>0, <3>2, <3>3
  <2> QED BY <2>1, <2>2
<1>8. ASSUME NEW k \in 0 .. MaxLevel, NEW q \in Pages, NEW r \in Pages, Blk(q, k + 1) = Blk(r, k + 1)
      PROVE  G[k][q] = G[k][r]
  <2>1. F[k][q] = F[k][r] BY <1>8, TreeBlock
  <2>2. k = l - 1 => Blk(q, l) = Blk(r, l)
    <3>1. k = l - 1 => k + 1 = l BY <1>0
    <3> QED BY <3>1, <1>8
  <2> QED BY <1>1, <2>1, <2>2
<1>9. ASSUME NEW k \in 0 .. MaxLevel - 1, NEW j \in 0 .. MaxLevel - 1, NEW q \in Pages, NEW r \in Pages,
             G[k][q] = G[j][r], G[k][q] \in Frame
      PROVE  k = j /\ Blk(q, k + 1) = Blk(r, k + 1)
  <2>0. k \in 0 .. MaxLevel /\ j \in 0 .. MaxLevel BY <1>0
  <2> DEFINE at(i, s) == i = l - 1 /\ Blk(s, l) = Blk(p, l)
  <2>1. G[k][q] = (IF at(k, q) THEN v ELSE F[k][q]) /\ G[j][r] = (IF at(j, r) THEN v ELSE F[j][r])
    BY <1>1, <2>0
  <2>2. CASE at(k, q) /\ at(j, r)
    <3>1. k + 1 = l BY <1>0, <2>2
    <3> QED BY <2>2, <3>1
  <2>3. CASE ~at(k, q) /\ ~at(j, r)
    <3>1. F[k][q] = F[j][r] /\ F[k][q] \in Frame BY <1>9, <2>1, <2>3
    <3> QED BY <3>1 DEF Tree
  <2>4. CASE at(k, q) /\ ~at(j, r)
    <3>1. v \in Frame /\ F[j][r] = v BY <1>9, <2>1, <2>4
    <3>2. Ref(F, v) BY <3>1 DEF Ref
    <3> QED BY <1>0, <3>1, <3>2 DEF Fits
  <2>5. CASE ~at(k, q) /\ at(j, r)
    <3>1. v \in Frame /\ F[k][q] = v BY <1>9, <2>1, <2>5
    <3>2. Ref(F, v) BY <3>1 DEF Ref
    <3> QED BY <1>0, <3>1, <3>2 DEF Fits
  <2> QED BY <2>2, <2>3, <2>4, <2>5
<1>10. Tree(G) BY <1>3, <1>4, <1>5, <1>6, <1>7, <1>8, <1>9 DEF Tree
<1> QED BY <1>10 DEF G

LEMMA RefChanged ==
  ASSUME NEW F, Tree(F), NEW l, NEW p, NEW v, Fits(F, l, p, v), NEW f \in Frame
  PROVE  Ref(Changed(F, l, p, v), f) <=> f = v \/ (Ref(F, f) /\ f # F[l - 1][p])
<1> DEFINE G == Changed(F, l, p, v)
<1>0. /\ MaxLevel \in Nat /\ l \in Nat /\ l > 0 /\ l <= MaxLevel /\ l \in Levels /\ p \in Pages
      /\ l - 1 \in 0 .. MaxLevel - 1 /\ (l - 1) + 1 = l /\ l - 1 \in 0 .. MaxLevel /\ f # Absent
  BY Consts DEF Levels, Fits
<1>1. \A k \in 0 .. MaxLevel - 1, q \in Pages :
        G[k][q] = IF k = l - 1 /\ Blk(q, l) = Blk(p, l) THEN v ELSE F[k][q]
  <2>1. \A k \in 0 .. MaxLevel - 1 : k \in 0 .. MaxLevel BY <1>0
  <2> QED BY <2>1, ChangedIs
<1> HIDE DEF G
<1>2. ASSUME Ref(G, f), f # v PROVE Ref(F, f) /\ f # F[l - 1][p]
  <2>1. PICK k \in 0 .. MaxLevel - 1, q \in Pages : G[k][q] = f BY <1>2 DEF Ref
  <2>2. ~(k = l - 1 /\ Blk(q, l) = Blk(p, l)) /\ F[k][q] = f BY <1>1, <1>2, <2>1
  <2>3. Ref(F, f) BY <2>2 DEF Ref
  <2>4. f # F[l - 1][p]
    <3> SUFFICES ASSUME f = F[l - 1][p] PROVE FALSE OBVIOUS
    <3>1. k = l - 1 /\ Blk(q, k + 1) = Blk(p, k + 1) BY <1>0, <2>2 DEF Tree
    <3>2. k + 1 = l BY <1>0, <3>1
    <3> QED BY <2>2, <3>1, <3>2
  <2> QED BY <2>3, <2>4
<1>3. ASSUME f = v PROVE Ref(G, f)
  <2>1. G[l - 1][p] = f BY <1>0, <1>1, <1>3
  <2> QED BY <1>0, <2>1 DEF Ref
<1>4. ASSUME Ref(F, f), f # F[l - 1][p] PROVE Ref(G, f)
  <2>1. PICK k \in 0 .. MaxLevel - 1, q \in Pages : F[k][q] = f BY <1>4 DEF Ref
  <2>2. ~(k = l - 1 /\ Blk(q, l) = Blk(p, l))
    <3> SUFFICES ASSUME k = l - 1, Blk(q, l) = Blk(p, l) PROVE FALSE OBVIOUS
    <3>1. F[l - 1][q] = F[l - 1][p] BY <1>0, TreeBlock
    <3> QED BY <1>4, <2>1, <3>1
  <2>3. G[k][q] = f BY <1>1, <2>1, <2>2
  <2> QED BY <2>3 DEF Ref
<1>5. Ref(G, f) <=> f = v \/ (Ref(F, f) /\ f # F[l - 1][p]) BY <1>2, <1>3, <1>4
<1> QED BY <1>5 DEF G

(* Tables are added and removed away from the pages that are present.      *)
LEMMA PagesKept ==
  ASSUME NEW F, Tree(F), NEW l, NEW p, NEW v, Fits(F, l, p, v), l > 1
  PROVE  \A q \in Pages :
           /\ Changed(F, l, p, v)[0][q] = F[0][q]
           /\ F[0][q] # Absent => \A k \in 0 .. MaxLevel : Changed(F, l, p, v)[k][q] = F[k][q]
<1> TAKE q \in Pages
<1>0. MaxLevel \in Nat /\ l \in Nat /\ l > 0 /\ l <= MaxLevel /\ l - 2 \in 0 .. MaxLevel /\ 0 \in 0 .. MaxLevel
  BY Consts DEF Levels, Fits
<1>1. 0 # l - 1 BY <1>0
<1>2. ASSUME F[0][q] # Absent, Blk(q, l) = Blk(p, l) PROVE FALSE
  <2>1. l - 2 \in 0 .. MaxLevel BY <1>0
  <2>2. F[l - 2][q] # Absent BY <1>0, <1>2, <2>1, Path
  <2> QED BY <1>2, <2>2 DEF Fits
<1> QED BY <1>0, <1>1, <1>2, ChangedIs

-------------------------------------------------------------------------------
(* Memory: the three ways in which an entry changes, each of which changes *)
(* what is found at the pages of its block and nothing else.               *)

(* The words of the frames, and of the root.                               *)
Memory == [Frame \cup {Root} -> [Index -> Nat]]

LEMMA TableRef ==
  ASSUME NEW F, Tree(F), NEW l \in Levels, NEW p \in Pages, F[l][p] # Absent, NEW f \in Frame, ~Ref(F, f)
  PROVE  F[l][p] # f
<1>1. CASE l = MaxLevel BY <1>1, Consts DEF Tree
<1>2. CASE l # MaxLevel
  <2>1. l \in 0 .. MaxLevel - 1 BY <1>2, Consts DEF Levels
  <2> QED BY <2>1 DEF Ref
<1> QED BY <1>1, <1>2

LEMMA Words == Clear \in [Index -> Nat] /\ Dirty \in [Index -> Nat]
BY DEF Clear, Dirty, Absent

(* The steps from a memory m, where F is found, to n, where G is: a new    *)
(* table; a new page, which its owner writes to, or a place on the device; *)
(* and an entry cleared, that of a page or of a table that is empty.       *)
Adds(m, F, l, p, f, n, G) ==
  /\ m \in Memory /\ F = LookUp(m, F) /\ Tree(F) /\ G = LookUp(n, G)
  /\ l \in Levels /\ l > 1 /\ p \in Pages /\ F[l][p] # Absent /\ F[l - 1][p] = Absent
  /\ f \in Frame /\ ~Ref(F, f)
  /\ n = [m EXCEPT ![F[l][p]][IndexOf(p, l)] = f, ![f] = Clear]

Fills(m, F, p, v, n, G) ==
  /\ m \in Memory /\ F = LookUp(m, F) /\ Tree(F) /\ G = LookUp(n, G)
  /\ p \in Pages /\ F[1][p] # Absent /\ F[0][p] = Absent
  /\ v \in Nat /\ ((v \in Frame /\ ~Ref(F, v)) \/ v >= Device)
  /\ n = [f \in DOMAIN m |-> IF f = v THEN Dirty
                               ELSE IF f = F[1][p] THEN [m[f] EXCEPT ![IndexOf(p, 1)] = v]
                               ELSE m[f]]

Clears(m, F, l, p, n, G) ==
  /\ m \in Memory /\ F = LookUp(m, F) /\ Tree(F) /\ G = LookUp(n, G)
  /\ l \in Levels /\ p \in Pages /\ F[l][p] # Absent
  /\ l > 1 => F[l - 1][p] # Absent /\ m[F[l - 1][p]] = Clear
  /\ n = [m EXCEPT ![F[l][p]][IndexOf(p, l)] = Absent]

LEMMA TableAdded ==
  ASSUME NEW m, NEW F, NEW l, NEW p, NEW f, NEW n, NEW G, Adds(m, F, l, p, f, n, G)
  PROVE  n \in Memory /\ Fits(F, l, p, f) /\ G = Changed(F, l, p, f)
<1> USE DEF Adds
<1> DEFINE t == F[l][p]  i == IndexOf(p, l)
<1>0. /\ t \in Frame \cup {Root} /\ f \in Frame \cup {Root} /\ t # f /\ f \in Nat /\ i \in Index
      /\ l \in Nat /\ l - 1 \in 1 .. MaxLevel /\ l - 2 = (l - 1) - 1 /\ l - 1 \in 0 .. MaxLevel
  BY TableIs, TableRef, Consts, IndexIs, PageNat DEF Levels
<1>1. m[t] \in [Index -> Nat] /\ DOMAIN m = Frame \cup {Root} BY <1>0 DEF Memory
<1>2. n[t] = [m[t] EXCEPT ![i] = f] /\ n[f] = Clear
  <2> HIDE DEF t, i
  <2>1. n = [m EXCEPT ![t][i] = f, ![f] = Clear] BY DEF t, i
  <2> QED BY <1>0, <1>1, <2>1
<1>3. \A u \in Frame \cup {Root} : u # t /\ u # f => n[u] = m[u]
  <2> HIDE DEF t, i
  <2>1. n = [m EXCEPT ![t][i] = f, ![f] = Clear] BY DEF t, i
  <2> QED BY <1>0, <1>1, <2>1
<1>4. n \in Memory
  <2>1. DOMAIN n = Frame \cup {Root} /\ n = [u \in Frame \cup {Root} |-> n[u]] BY <1>1
  <2>2. \A u \in Frame \cup {Root} : n[u] \in [Index -> Nat]
    <3>1. [m[t] EXCEPT ![i] = f] \in [Index -> Nat] BY <1>0, <1>1
    <3>2. \A u \in Frame \cup {Root} : m[u] \in [Index -> Nat] BY DEF Memory
    <3> HIDE DEF t, i
    <3> QED BY <1>2, <1>3, <3>1, <3>2, Words
  <2> QED BY <2>1, <2>2 DEF Memory
<1>5. Fits(F, l, p, f)
  <2>1. ASSUME NEW q \in Pages, Blk(q, l) = Blk(p, l) PROVE F[l - 2][q] = Absent
    <3>1. F[l - 1][q] = Absent BY <2>1, TreeBlock
    <3> QED BY <1>0, <3>1 DEF Tree
  <2> QED BY <2>1 DEF Fits
<1>6. ASSUME NEW k \in Levels, NEW q \in Pages, F[k][q] \notin {Absent, t} PROVE n[F[k][q]] = m[F[k][q]]
  <2>1. F[k][q] \in Frame \cup {Root} /\ F[k][q] # f BY <1>6, TableIs, TableRef
  <2> HIDE DEF t
  <2> QED BY <1>3, <1>6, <2>1
<1>7. Sets(m, F, l, p, f, n) BY <1>1, <1>2, <1>6 DEF Sets
<1>8. G = Changed(F, l, p, f) BY <1>7, SetEntry
<1> QED BY <1>4, <1>5, <1>8

LEMMA PageAdded ==
  ASSUME NEW m, NEW F, NEW p, NEW v, NEW n, NEW G, Fills(m, F, p, v, n, G)
  PROVE  n \in Memory /\ Fits(F, 1, p, v) /\ G = Changed(F, 1, p, v)
<1> USE DEF Fills
<1> DEFINE t == F[1][p]  i == IndexOf(p, 1)
<1>0. 1 \in Levels /\ 1 - 1 = 0 /\ Root < Device /\ Root \in Nat /\ Device \in Nat /\ \A f \in Frame : f < Device /\ f \in Nat
  BY Consts DEF Levels
<1>1. t \in Frame \cup {Root} /\ i \in Index BY <1>0, TableIs, IndexIs, PageNat
<1>2. \A k \in Levels, q \in Pages : F[k][q] # Absent => F[k][q] \in Frame \cup {Root} /\ F[k][q] # v
  <2> TAKE k \in Levels, q \in Pages
  <2> SUFFICES ASSUME F[k][q] # Absent PROVE F[k][q] \in Frame \cup {Root} /\ F[k][q] # v OBVIOUS
  <2>1. F[k][q] \in Frame \cup {Root} BY TableIs
  <2>2. CASE v \in Frame /\ ~Ref(F, v) BY <2>1, <2>2, TableRef
  <2>3. CASE v >= Device
    <3>1. v # Root /\ v \notin Frame BY <1>0, <2>3
    <3> QED BY <2>1, <3>1
  <2> QED BY <2>1, <2>2, <2>3
<1>3. t # v BY <1>0, <1>2
<1>4. m[t] \in [Index -> Nat] /\ DOMAIN m = Frame \cup {Root} BY <1>1 DEF Memory
<1>5. /\ n = [f \in Frame \cup {Root} |-> n[f]]
      /\ \A f \in Frame \cup {Root} : n[f] = IF f = v THEN Dirty ELSE IF f = t THEN [m[t] EXCEPT ![i] = v] ELSE m[f]
  BY <1>4
<1>6. n \in Memory
  <2>1. [m[t] EXCEPT ![i] = v] \in [Index -> Nat] BY <1>1, <1>4
  <2>2. \A u \in Frame \cup {Root} : m[u] \in [Index -> Nat] BY DEF Memory
  <2> HIDE DEF t, i
  <2>3. \A u \in Frame \cup {Root} : n[u] \in [Index -> Nat] BY <1>5, <2>1, <2>2, Words
  <2> QED BY <1>5, <2>3 DEF Memory
<1>7. Fits(F, 1, p, v) BY <1>0 DEF Fits
<1>8. n[t] = [m[t] EXCEPT ![i] = v] BY <1>1, <1>3, <1>5
<1>9. \A k \in Levels, q \in Pages : F[k][q] \notin {Absent, t} => n[F[k][q]] = m[F[k][q]]
  BY <1>2, <1>5
<1>10. G = Changed(F, 1, p, v)
  <2>1. ~(1 > 1) OBVIOUS
  <2>2. Sets(m, F, 1, p, v, n) BY <1>0, <1>4, <1>8, <1>9, <2>1 DEF Sets
  <2> QED BY <2>2, SetEntry
<1> QED BY <1>6, <1>7, <1>10

LEMMA EntryCleared ==
  ASSUME NEW m, NEW F, NEW l, NEW p, NEW n, NEW G, Clears(m, F, l, p, n, G)
  PROVE  n \in Memory /\ Fits(F, l, p, Absent) /\ G = Changed(F, l, p, Absent)
<1> USE DEF Clears
<1> DEFINE t == F[l][p]  i == IndexOf(p, l)
<1>0. /\ t \in Frame \cup {Root} /\ i \in Index /\ l \in Nat /\ Absent \in Nat
      /\ l > 1 => l - 1 \in Levels /\ (l - 1) + 1 = l /\ (l - 1) - 1 = l - 2
  BY TableIs, Consts, IndexIs, PageNat DEF Levels
<1>1. m[t] \in [Index -> Nat] /\ DOMAIN m = Frame \cup {Root} BY <1>0 DEF Memory
<1>2. n[t] = [m[t] EXCEPT ![i] = Absent] /\ \A u \in Frame \cup {Root} : u # t => n[u] = m[u]
  <2> HIDE DEF t, i
  <2>1. n = [m EXCEPT ![t][i] = Absent] BY DEF t, i
  <2> QED BY <1>0, <1>1, <2>1
<1>3. n \in Memory
  <2>1. DOMAIN n = Frame \cup {Root} /\ n = [u \in Frame \cup {Root} |-> n[u]] BY <1>1
  <2>2. \A u \in Frame \cup {Root} : n[u] \in [Index -> Nat]
    <3>1. [m[t] EXCEPT ![i] = Absent] \in [Index -> Nat] BY <1>0, <1>1
    <3>2. \A u \in Frame \cup {Root} : m[u] \in [Index -> Nat] BY DEF Memory
    <3> HIDE DEF t, i
    <3> QED BY <1>2, <3>1, <3>2
  <2> QED BY <2>1, <2>2 DEF Memory
<1>4. Fits(F, l, p, Absent)
  <2>1. ASSUME l > 1, NEW q \in Pages, Blk(q, l) = Blk(p, l) PROVE F[l - 2][q] = Absent
    <3>1. F[l - 1][p] \in Frame \cup {Root} BY <1>0, <2>1, TableIs
    <3>2. m[F[l - 1][p]] \in [Index -> Nat] /\ m[F[l - 1][p]] = Clear BY <3>1, <2>1 DEF Memory
    <3>3. \A r \in Pages : Blk(r, (l - 1) + 1) = Blk(p, (l - 1) + 1) => F[(l - 1) - 1][r] = Absent
      BY <1>0, <2>1, <3>2, EmptyIs
    <3> QED BY <1>0, <2>1, <3>3
  <2> QED BY <2>1 DEF Fits
<1>5. \A k \in Levels, q \in Pages : F[k][q] \notin {Absent, t} => n[F[k][q]] = m[F[k][q]]
  BY <1>2, TableIs
<1>6. G = Changed(F, l, p, Absent)
  <2>1. Sets(m, F, l, p, Absent, n) BY <1>1, <1>2, <1>5 DEF Sets
  <2> QED BY <2>1, SetEntry
<1> QED BY <1>3, <1>4, <1>6

-------------------------------------------------------------------------------
(* The inductive invariant.                                                *)

(* Of a walk: the next page, the one behind the entry it is at, the end of *)
(* its range, and the first page that it has not dealt with.               *)
Ahead(w) == w.base + w.off
Beyond(w) == Ahead(w) + Step[ReqLevel(w.kind)]
End(w) == w.base + w.len
Front(w) == IF w.pc = "up" THEN Beyond(w) ELSE Ahead(w)

Kinds == {"none", "tables", "pages", "map", "unpage", "unmap", "untable", "attr"}
Places == {"none", "enter", "loop", "up", "return", "end", "halt", "astray"}
Walks == [pc : Places, kind : Kinds, base : Nat, len : Nat, off : Nat, level : Levels,
          window : [Levels -> Nat], first : Nat, used : Nat, avail : Nat, st : {-1, 0, 1}]
CallKinds == {"none", "alloc", "map", "free", "unmap", "attr"}
Calls == [kind : CallKinds, stage : {"none", "do", "undo", "partial"}, base : Nat, len : Nat]
Shares == [base : Nat, len : Nat \ {0}, kind : {"alloc", "map"}, readonly : SUBSET Pages]

(* The types.                                                              *)
Shape ==
  /\ mem \in Memory
  /\ busy \subseteq Frame
  /\ walk \in Walks /\ call \in Calls
  /\ grants \subseteq Shares
  /\ unfit \in BOOLEAN

(* Which walk a call has at which of its stages. A call is in the middle   *)
(* of a walk for as long as there is one.                                  *)
Phases ==
  {<<"alloc", "do", "tables">>, <<"alloc", "do", "pages">>, <<"alloc", "undo", "unpage">>,
   <<"alloc", "undo", "untable">>, <<"alloc", "partial", "untable">>,
   <<"map", "do", "tables">>, <<"map", "do", "map">>, <<"map", "partial", "untable">>,
   <<"free", "do", "unpage">>, <<"free", "do", "untable">>,
   <<"unmap", "do", "unmap">>, <<"unmap", "do", "untable">>, <<"attr", "do", "attr">>}

Phased(w, c, u) ==
  \/ w = NoWalk /\ c = NoCall
  \/ /\ <<c.kind, c.stage, w.kind>> \in Phases /\ w.pc # "none"
     /\ u => w.kind = "untable"
     /\ c.stage = "partial" => u

Going == {"enter", "loop", "up", "return"}

(* The walk is within the range of its call, but for the pages before it   *)
(* in its first table, and on a boundary of the steps of its level.        *)
Bounds(w, c) == c.kind # "none" =>
  /\ c.len > 0 /\ c.base + c.len <= Step[MaxLevel + 1]
  /\ w.base <= c.base /\ c.base < w.base + Step[ReqLevel(w.kind)]
  /\ w.base % Step[ReqLevel(w.kind)] = 0 /\ Ahead(w) % Step[ReqLevel(w.kind)] = 0
  /\ End(w) <= Step[MaxLevel + 1]
  /\ c.stage # "partial" => End(w) <= c.base + c.len
  /\ c.stage = "do" \/ (c.stage = "undo" /\ w.kind = "untable") => End(w) = c.base + c.len

(* While a walk goes on, its windows show the tables above the next page,  *)
(* from its level up; what it returns says whether it has reached its end. *)
Placed(w, F) == w.pc # "none" =>
  /\ w.level >= ReqLevel(w.kind)
  /\ w.pc = "up" => w.level < MaxLevel
  /\ w.pc \in Going /\ w.off < w.len =>
       \A l \in w.level .. MaxLevel : w.window[l] = F[l][Ahead(w)] /\ w.window[l] # Absent
  /\ w.pc = "up" => w.off < w.len
  /\ w.pc = "enter" /\ w.len > 0 => w.off < w.len
  /\ w.len = 0 => w.off = 0
  /\ w.pc \in {"return", "end"} => (w.off >= w.len <=> w.st = 0)
  /\ w.pc \in {"end", "halt"} => w.st # 1
  /\ w.pc = "return" /\ w.st < 0 => w.kind = "untable" /\ w.used = 0
  /\ w.pc \in {"end", "halt"} /\ w.st < 0 => w.kind \in {"tables", "pages", "untable"}

(* The frames a walk has been given are not marked; what vm_map maps is    *)
(* taken in the order of the pages.                                        *)
Supplied(w, b) ==
  /\ w.kind \in {"tables", "pages"} /\ w.pc \in {"loop", "up", "return"} =>
       /\ w.first > 0 /\ w.used <= w.avail /\ w.first + w.avail <= Last + 1
       /\ \A f \in w.first .. w.first + w.avail - 1 : f \notin b
  /\ w.kind = "map" =>
       /\ w.pc = "enter" => w.off = 0
       /\ w.pc \in {"loop", "up", "return"} =>
            w.first = Device /\ w.avail = w.len
            /\ w.used = (IF w.pc = "up" THEN w.off + 1 ELSE w.off)
       /\ w.pc \in {"return", "end"} => w.st = 0

(* A frame is found somewhere exactly if it is marked, but for those that  *)
(* the walk has used or has collected.                                     *)
Run(w) == w.first .. w.first + w.used - 1
Handed(w, kinds) == IF w.kind \in kinds /\ w.pc \in {"loop", "up", "return"} THEN Run(w) ELSE {}
Owned(w, F, b) == w.pc # "astray" => \A f \in Frame :
  Ref(F, f) <=> f \in (b \ Handed(w, {"untable", "unpage"})) \cup Handed(w, {"tables", "pages"})

(* Only pages that are present are noted as not writable.                  *)
ReadOnly(F, ro) == \A e \in ro : \E p \in Pages : F[0][p] # Absent /\ e = <<F[1][p], IndexOf(p, 1)>>
Marked(F, ro, p) == <<F[1][p], IndexOf(p, 1)>> \in ro

UsedBy(gs) == UNION {PagesOf(g) : g \in gs}

(* The ranges in use have no page in common, with each other and with the  *)
(* one that is being given or taken back.                                  *)
Apart(c, gs) ==
  /\ \A g \in gs : PagesOf(g) \subseteq Pages /\ g.readonly \subseteq PagesOf(g)
  /\ \A g, h \in gs : g # h => PagesOf(g) \cap PagesOf(h) = {}
  /\ c.kind \notin {"none", "attr"} => PagesOf(c) \cap UsedBy(gs) = {}
  /\ c.kind = "attr" => \E g \in gs : g.kind = "alloc" /\ PagesOf(c) \subseteq g.readonly

(* What is in use is there with its attributes, and outside of it and of   *)
(* the call under way nothing is.                                          *)
Held(F, ro, c, gs) ==
  /\ \A p \in Pages : p \notin UsedBy(gs) \cup PagesOf(c) => F[0][p] = Absent
  /\ \A g \in gs : \A p \in PagesOf(g) :
       /\ IF g.kind = "map" THEN F[0][p] = Device + p - g.base ELSE F[0][p] \in Frame
       /\ p \notin PagesOf(c) => (Marked(F, ro, p) <=> p \in g.readonly)

(* In the range of the call: the pages behind the walk are done, and those *)
(* before it are not.                                                      *)
Changing(F, ro, w, c) == \A p \in PagesOf(c) :
  /\ c.kind \in {"alloc", "free"} => F[0][p] \in Frame \cup {Absent}
  /\ c.kind = "map" => F[0][p] \in {Absent, Device + p - c.base}
  /\ c.kind = "unmap" => F[0][p] = Absent \/ F[0][p] >= Device
  /\ w.kind \in {"tables", "untable"} => F[0][p] = Absent
  /\ w.kind \in {"pages", "map"} => (F[0][p] = Absent <=> p >= Front(w))
  /\ w.kind \in {"unpage", "unmap"} => (p < Front(w) \/ p >= End(w) => F[0][p] = Absent)
  /\ w.kind = "attr" => (p < Front(w) => Marked(F, ro, p))
  /\ c.kind \in {"alloc", "map"} => ~Marked(F, ro, p)

(* The tables that a walk needs are there: behind a walk that builds them, *)
(* and before one that drops them.                                         *)
Covered(F, w, c, u) ==
  /\ w.kind = "tables" => \A p \in Pages : w.base <= p /\ p < Front(w) => F[1][p] # Absent
  /\ w.kind \in {"pages", "map", "unpage", "unmap"} => \A p \in PagesOf(c) : F[1][p] # Absent
  /\ w.kind = "untable" /\ ~u /\ w.off < w.len /\ w.pc \in Going =>
       /\ \A p \in Pages : Beyond(w) <= p /\ p < End(w) => F[1][p] # Absent
       /\ w.pc # "up" => F[2][Ahead(w)] # Absent

(* A table has an entry, unless it is above the range of a call that has   *)
(* yet to fill it, or a walk that drops tables has still to pass it.       *)
Excused(w, c, l, p) ==
  \/ /\ c.kind \notin {"none", "attr"} /\ w.kind # "untable"
     /\ \E q \in PagesOf(c) : Blk(q, l + 1) = Blk(p, l + 1)
  \/ /\ w.kind = "untable"
     /\ \/ \E q \in Pages : Front(w) <= q /\ q < End(w) /\ Blk(q, l + 1) = Blk(p, l + 1)
        \/ w.pc = "up" /\ l >= w.level /\ Blk(Ahead(w), l + 1) = Blk(p, l + 1)
Tidy(F, w, c, u) == ~u => \A l \in 1 .. MaxLevel - 1, p \in Pages :
  \/ F[l][p] = Absent
  \/ \E q \in Pages : Blk(q, l + 1) = Blk(p, l + 1) /\ F[l - 1][q] # Absent
  \/ Excused(w, c, l, p)

(* No walk that releases what has been built fails.                        *)
Sound(w, c, u) == ~u =>
  /\ w.pc # "astray"
  /\ w.pc = "halt" => w.len = 0
  /\ w.pc \in {"end", "return"} /\ w.kind \in {"untable", "unpage", "unmap"} => w.st # -1

IInv ==
  /\ Shape /\ Tree(Found)
  /\ Phased(walk, call, unfit) /\ Bounds(walk, call) /\ Placed(walk, Found)
  /\ Supplied(walk, busy) /\ Owned(walk, Found, busy)
  /\ ReadOnly(Found, readonly) /\ Apart(call, grants) /\ Held(Found, readonly, call, grants)
  /\ Changing(Found, readonly, walk, call) /\ Covered(Found, walk, call, unfit)
  /\ Tidy(Found, walk, call, unfit) /\ Sound(walk, call, unfit)
-------------------------------------------------------------------------------
LEMMA ReqIs ==
  ASSUME NEW w \in Walks
  PROVE  /\ ReqLevel(w.kind) \in Levels /\ ReqLevel(w.kind) \in {1, 2} /\ ReqLevel(w.kind) < MaxLevel
         /\ Step[ReqLevel(w.kind)] \in Nat /\ Step[ReqLevel(w.kind)] > 0
         /\ ReqLevel(w.kind) = 1 => Step[ReqLevel(w.kind)] = 1
         /\ Ahead(w) \in Nat /\ Beyond(w) \in Nat /\ End(w) \in Nat
<1>1. ReqLevel(w.kind) \in {1, 2} BY DEF ReqLevel
<1>2. /\ ReqLevel(w.kind) \in Levels /\ ReqLevel(w.kind) < MaxLevel /\ ReqLevel(w.kind) \in 1 .. MaxLevel + 1
  BY <1>1, Consts DEF Levels
<1>3. Step[ReqLevel(w.kind)] \in Nat /\ Step[ReqLevel(w.kind)] > 0 BY <1>2, Steps
<1>4. ReqLevel(w.kind) = 1 => Step[ReqLevel(w.kind)] = 1 BY Steps
<1>5. w.base \in Nat /\ w.off \in Nat /\ w.len \in Nat BY DEF Walks
<1> QED BY <1>1, <1>2, <1>3, <1>4, <1>5 DEF Ahead, Beyond, End

LEMMA IsPage ==
  ASSUME NEW p \in Nat, p < Step[MaxLevel + 1]
  PROVE  p \in Pages
<1>1. MaxLevel + 1 \in 1 .. MaxLevel + 1 BY Consts
<1>2. Step[MaxLevel + 1] \in Nat BY <1>1, Steps
<1> QED BY <1>2 DEF Pages

LEMMA PageBelow ==
  ASSUME NEW p \in Pages
  PROVE  p \in Nat /\ p < Step[MaxLevel + 1]
<1>1. MaxLevel + 1 \in 1 .. MaxLevel + 1 BY Consts
<1>2. Step[MaxLevel + 1] \in Nat BY <1>1, Steps
<1> QED BY <1>2 DEF Pages

(* A walk on its way is at a page, and shows the tables above it.          *)
LEMMA Where ==
  ASSUME NEW w \in Walks, NEW c \in Calls, NEW F, NEW u, Phased(w, c, u), Bounds(w, c), Placed(w, F),
         w.pc \in Going, w.off < w.len
  PROVE  /\ c.kind # "none" /\ Ahead(w) \in Pages /\ Ahead(w) % Step[ReqLevel(w.kind)] = 0
         /\ Ahead(w) < End(w) /\ End(w) <= Step[MaxLevel + 1]
         /\ w.level \in Levels /\ w.level >= ReqLevel(w.kind)
         /\ \A l \in w.level .. MaxLevel : w.window[l] = F[l][Ahead(w)] /\ F[l][Ahead(w)] # Absent
<1>1. w.pc # "none" BY DEF Going
<1>2. c.kind # "none" BY <1>1 DEF Phased, Phases, NoWalk, NoCall
<1>3. w.base \in Nat /\ w.off \in Nat /\ w.len \in Nat /\ w.level \in Levels BY DEF Walks
<1>4. Ahead(w) \in Nat /\ Ahead(w) < End(w) /\ End(w) \in Nat BY <1>3 DEF Ahead, End
<1>5. End(w) <= Step[MaxLevel + 1] /\ Ahead(w) % Step[ReqLevel(w.kind)] = 0 BY <1>2 DEF Bounds
<1>6. Step[MaxLevel + 1] \in Nat
  <2>1. MaxLevel + 1 \in 1 .. MaxLevel + 1 BY Consts
  <2> QED BY <2>1, Steps
<1>7. Ahead(w) \in Pages BY <1>4, <1>5, <1>6, IsPage
<1>8. w.level >= ReqLevel(w.kind) /\ \A l \in w.level .. MaxLevel : w.window[l] = F[l][Ahead(w)] /\ w.window[l] # Absent
  BY <1>1 DEF Placed
<1> QED BY <1>2, <1>3, <1>4, <1>5, <1>7, <1>8

-------------------------------------------------------------------------------
(* The steps of the walk that change no entry.                             *)

(* A step of the walk in place, in which no entry changes.                 *)
LEMMA Stays ==
  ASSUME IInv, UNCHANGED <<mem, readonly, grants, call, unfit>>, walk.pc \in {"enter", "loop", "return"},
         walk' \in Walks, walk'.pc \notin {"none", "up"},
         walk'.kind = walk.kind, walk'.base = walk.base, walk'.len = walk.len, walk'.off = walk.off,
         busy' \subseteq Frame, Placed(walk', Found), Supplied(walk', busy'), Owned(walk', Found, busy'),
         Sound(walk', call, unfit)
  PROVE  IInv'
<1>0. Found' = Found BY FoundSame
<1>1. walk \in Walks /\ walk.pc # "none" /\ walk.pc # "up" BY DEF IInv, Shape
<1>2. Shape' BY DEF IInv, Shape
<1>3. Phased(walk, call, unfit)' BY <1>1 DEF IInv, Phased, NoWalk
<1>4. Bounds(walk, call)' BY DEF IInv, Bounds, Ahead, End
<1>5. Ahead(walk') = Ahead(walk) /\ Beyond(walk') = Beyond(walk) /\ End(walk') = End(walk)
      /\ Front(walk') = Ahead(walk) /\ Front(walk) = Ahead(walk)
  BY <1>1 DEF Ahead, Beyond, End, Front
<1>6. Changing(Found, readonly, walk, call)'
  <2>1. Changing(Found, readonly, walk, call) BY DEF IInv
  <2>2. Changing(Found, readonly, walk', call) BY <2>1, <1>5 DEF Changing
  <2> QED BY <2>2, <1>0
<1>7. Covered(Found, walk, call, unfit)'
  <2>1. Covered(Found, walk, call, unfit) BY DEF IInv
  <2>2. walk.pc \in Going BY <1>1 DEF Going
  <2>3. Covered(Found, walk', call, unfit) BY <2>1, <2>2, <1>1, <1>5 DEF Covered
  <2> QED BY <2>3, <1>0
<1>8. Tidy(Found, walk, call, unfit)'
  <2>1. Tidy(Found, walk, call, unfit) BY DEF IInv
  <2>2. \A l, p : Excused(walk, call, l, p) => Excused(walk', call, l, p) BY <1>1, <1>5 DEF Excused
  <2>3. Tidy(Found, walk', call, unfit) BY <2>1, <2>2 DEF Tidy
  <2> QED BY <2>3, <1>0
<1>9. Tree(Found)' /\ ReadOnly(Found, readonly)' /\ Apart(call, grants)' /\ Held(Found, readonly, call, grants)'
  BY <1>0 DEF IInv
<1>10. Placed(walk, Found)' /\ Supplied(walk, busy)' /\ Owned(walk, Found, busy)' /\ Sound(walk, call, unfit)'
  BY <1>0
<1> QED BY <1>2, <1>3, <1>4, <1>6, <1>7, <1>8, <1>9, <1>10 DEF IInv

(* The run of a frame that is free.                                        *)
LEMMA RunIs ==
  ASSUME busy \subseteq Frame, NEW f \in Frame \ busy
  PROVE  /\ Cardinality(RunFrom(f)) \in Nat /\ f + Cardinality(RunFrom(f)) <= Last + 1
         /\ \A g \in f .. f + Cardinality(RunFrom(f)) - 1 : g \notin busy
<1>0. Last \in Nat /\ f \in Nat /\ f > 0 /\ f <= Last BY Consts DEF Frame
<1> DEFINE RunEnds(g) == (f .. g) \cap busy = {} /\ (g = Last \/ g + 1 \in busy)
<1>1. \E g \in f .. Last : RunEnds(g)
  <2> DEFINE Stop == {g \in Nat : g \in f .. Last /\ (g = Last \/ g + 1 \in busy)}
  <2>1. Stop \in SUBSET Nat /\ Stop # {}
    <3>1. Last \in Stop BY <1>0
    <3> QED BY <3>1
  <2>2. PICK g \in Stop : \A h \in Stop : g <= h
    <3> HIDE DEF Stop
    <3> QED BY <2>1, LeastNat
  <2>3. ASSUME NEW h \in f .. g, h \in busy PROVE FALSE
    <3>1. h # f /\ h \in Nat /\ h - 1 \in Nat /\ h - 1 \in f .. Last /\ (h - 1) + 1 = h BY <1>0, <2>3
    <3>2. h - 1 \in Stop BY <2>3, <3>1
    <3>3. ~(g <= h - 1) BY <1>0, <3>1
    <3> QED BY <2>2, <3>2, <3>3
  <2> QED BY <2>3
<1> DEFINE e == CHOOSE g \in f .. Last : RunEnds(g)
<1>2. e \in f .. Last /\ RunEnds(e)
  <2> HIDE DEF RunEnds
  <2> QED BY <1>1
<1>3. RunFrom(f) = f .. e BY DEF RunFrom
<1> HIDE DEF e
<1>4. e \in Int /\ f \in Int /\ f <= e BY <1>0, <1>2
<1>5. Cardinality(f .. e) = e - f + 1 BY <1>4, FS_Interval
<1>6. e - f + 1 \in Nat /\ f + (e - f + 1) <= Last + 1 /\ f + (e - f + 1) - 1 = e BY <1>0, <1>2
<1> QED BY <1>2, <1>3, <1>5, <1>6

LEMMA EnterWithKeeps ==
  ASSUME IInv, NEW f \in Frame, EnterWith(f)
  PROVE  IInv'
<1>0. walk \in Walks /\ busy \subseteq Frame /\ f \in Nat /\ f > 0 BY Consts DEF IInv, Shape
<1>1. /\ walk.pc = "enter" /\ walk.kind \in {"tables", "pages"} /\ f \in Frame \ busy
      /\ walk' = [walk EXCEPT !.pc = "loop", !.first = f, !.used = 0, !.avail = Cardinality(RunFrom(f))]
      /\ UNCHANGED <<mem, readonly, busy, call, grants, unfit>>
  BY DEF EnterWith, tables
<1> DEFINE n == Cardinality(RunFrom(f))
<1>2. n \in Nat /\ f + n <= Last + 1 /\ \A g \in f .. f + n - 1 : g \notin busy BY <1>0, <1>1, RunIs
<1> HIDE DEF n
<1>2a. walk' = [walk EXCEPT !.pc = "loop", !.first = f, !.used = 0, !.avail = n] BY <1>1 DEF n
<1>3. walk' \in Walks BY <1>0, <1>2, <1>2a DEF Walks, Places
<1>4. /\ walk'.kind = walk.kind /\ walk'.base = walk.base /\ walk'.len = walk.len /\ walk'.off = walk.off
      /\ walk'.pc = "loop" /\ walk'.first = f /\ walk'.used = 0 /\ walk'.avail = n
      /\ walk'.level = walk.level /\ walk'.window = walk.window /\ walk'.st = walk.st
  BY <1>0, <1>2a DEF Walks
<1>5. Placed(walk', Found)
  <2>1. Placed(walk, Found) BY DEF IInv
  <2> QED BY <1>1, <1>4, <2>1 DEF Placed, Going, Ahead
<1>6. Supplied(walk', busy') BY <1>0, <1>1, <1>2, <1>4 DEF Supplied
<1>7. Owned(walk', Found, busy')
  <2>1. Owned(walk, Found, busy) BY DEF IInv
  <2>2. Run(walk') = {} BY <1>0, <1>4 DEF Run
  <2>3. \A k : Handed(walk', k) = {} /\ Handed(walk, k) = {} BY <1>1, <2>2 DEF Handed
  <2> QED BY <1>1, <1>4, <2>1, <2>3 DEF Owned
<1>8. Sound(walk', call, unfit) BY <1>4 DEF Sound
<1> QED BY <1>0, <1>1, <1>3, <1>4, <1>5, <1>6, <1>7, <1>8, Stays

LEMMA NoFramesKeeps ==
  ASSUME IInv, NoFrames
  PROVE  IInv'
<1>0. walk \in Walks /\ busy \subseteq Frame /\ call \in Calls BY DEF IInv, Shape
<1>1. /\ walk.pc = "enter" /\ walk.kind \in {"tables", "pages"}
      /\ walk' = [walk EXCEPT !.pc = "end", !.st = -1]
      /\ UNCHANGED <<mem, readonly, busy, call, grants, unfit>>
  BY DEF NoFrames, tables
<1>2. walk' \in Walks BY <1>0, <1>1 DEF Walks, Places
<1>3. /\ walk'.kind = walk.kind /\ walk'.base = walk.base /\ walk'.len = walk.len /\ walk'.off = walk.off
      /\ walk'.pc = "end" /\ walk'.st = -1 /\ walk'.level = walk.level /\ walk'.window = walk.window
      /\ walk'.used = walk.used
  BY <1>0, <1>1 DEF Walks
<1>4. walk.len > 0
  <2>1. /\ <<call.kind, call.stage, walk.kind>> \in Phases BY <1>1 DEF IInv, Phased, NoWalk
  <2>2. call.kind # "none" /\ call.stage = "do" BY <2>1, <1>1 DEF Phases
  <2>3. call.len > 0 /\ walk.base <= call.base /\ End(walk) = call.base + call.len BY <2>2 DEF IInv, Bounds
  <2>4. walk.base \in Nat /\ walk.len \in Nat /\ call.base \in Nat /\ call.len \in Nat BY <1>0 DEF Walks, Calls
  <2> QED BY <2>3, <2>4 DEF End
<1>5. Placed(walk', Found)
  <2>1. Placed(walk, Found) BY DEF IInv
  <2>2. walk.off \in Nat /\ walk.len \in Nat BY <1>0 DEF Walks
  <2> QED BY <1>1, <1>3, <1>4, <2>1, <2>2 DEF Placed, Going
<1>6. Supplied(walk', busy') BY <1>1, <1>3 DEF Supplied
<1>7. Owned(walk', Found, busy')
  <2>1. Owned(walk, Found, busy) BY DEF IInv
  <2>3. \A k : Handed(walk', k) = {} /\ Handed(walk, k) = {} BY <1>1, <1>3 DEF Handed
  <2> QED BY <1>1, <1>3, <2>1, <2>3 DEF Owned
<1>8. Sound(walk', call, unfit) BY <1>1, <1>3 DEF Sound
<1> QED BY <1>0, <1>1, <1>2, <1>3, <1>5, <1>6, <1>7, <1>8, Stays

LEMMA EnterKeeps ==
  ASSUME IInv, Enter
  PROVE  IInv'
<1>0. walk \in Walks /\ busy \subseteq Frame /\ Device \in Nat BY Consts DEF IInv, Shape
<1>1. /\ walk.pc = "enter" /\ walk.kind \notin {"tables", "pages"}
      /\ walk' = [walk EXCEPT !.pc = "loop", !.used = 0, !.avail = walk.len,
                              !.first = IF walk.kind = "map" THEN Device ELSE 0]
      /\ UNCHANGED <<mem, readonly, busy, call, grants, unfit>>
  BY DEF Enter, tables
<1>2. walk' \in Walks BY <1>0, <1>1 DEF Walks, Places
<1>3. /\ walk'.kind = walk.kind /\ walk'.base = walk.base /\ walk'.len = walk.len /\ walk'.off = walk.off
      /\ walk'.pc = "loop" /\ walk'.used = 0 /\ walk'.avail = walk.len
      /\ walk'.first = (IF walk.kind = "map" THEN Device ELSE 0)
      /\ walk'.level = walk.level /\ walk'.window = walk.window /\ walk'.st = walk.st
  BY <1>0, <1>1 DEF Walks
<1>4. Placed(walk', Found)
  <2>1. Placed(walk, Found) BY DEF IInv
  <2> QED BY <1>1, <1>3, <2>1 DEF Placed, Going, Ahead
<1>5. Supplied(walk', busy')
  <2>1. Supplied(walk, busy) BY DEF IInv
  <2> QED BY <1>1, <1>3, <2>1 DEF Supplied
<1>6. Owned(walk', Found, busy')
  <2>1. Owned(walk, Found, busy) BY DEF IInv
  <2>2. Run(walk') = {} BY <1>0, <1>3 DEF Run
  <2>3. \A k : Handed(walk', k) = {} /\ Handed(walk, k) = {} BY <1>1, <2>2 DEF Handed
  <2> QED BY <1>1, <1>3, <2>1, <2>3 DEF Owned
<1>7. Sound(walk', call, unfit) BY <1>3 DEF Sound
<1> QED BY <1>0, <1>1, <1>2, <1>3, <1>4, <1>5, <1>6, <1>7, Stays

(* The walk is left.                                                       *)
LEMMA Leaving ==
  ASSUME IInv, walk.pc = "loop", NEW st \in {-1, 0, 1}, Return(walk, st),
         UNCHANGED <<mem, readonly, busy, call, grants, unfit>>,
         walk.off >= walk.len <=> st = 0,
         st = -1 => walk.kind = "untable" /\ walk.used = 0 /\ unfit,
         walk.kind = "map" => st = 0
  PROVE  IInv'
<1>0. walk \in Walks /\ busy \subseteq Frame BY DEF IInv, Shape
<1>1. walk' = [walk EXCEPT !.pc = "return", !.st = st] BY DEF Return
<1>2. walk' \in Walks BY <1>0, <1>1 DEF Walks, Places
<1>3. /\ walk'.kind = walk.kind /\ walk'.base = walk.base /\ walk'.len = walk.len /\ walk'.off = walk.off
      /\ walk'.pc = "return" /\ walk'.st = st /\ walk'.level = walk.level /\ walk'.window = walk.window
      /\ walk'.used = walk.used /\ walk'.first = walk.first /\ walk'.avail = walk.avail
  BY <1>0, <1>1 DEF Walks
<1>4. Placed(walk', Found)
  <2>1. Placed(walk, Found) BY DEF IInv
  <2>2. walk.off \in Nat /\ walk.len \in Nat BY <1>0 DEF Walks
  <2> QED BY <1>1, <1>3, <2>1, <2>2 DEF Placed, Going, Ahead
<1>5. Supplied(walk', busy')
  <2>1. Supplied(walk, busy) BY DEF IInv
  <2> QED BY <1>1, <1>3, <2>1 DEF Supplied
<1>6. Owned(walk', Found, busy')
  <2>1. Owned(walk, Found, busy) BY DEF IInv
  <2>2. Run(walk') = Run(walk) BY <1>3 DEF Run
  <2>3. \A k : Handed(walk', k) = Handed(walk, k) BY <1>3, <2>2 DEF Handed
  <2> QED BY <1>3, <2>1, <2>3 DEF Owned
<1>7. Sound(walk', call, unfit)
  <2>1. ~unfit => st # -1 OBVIOUS
  <2> QED BY <2>1, <1>3 DEF Sound
<1> QED BY <1>0, <1>1, <1>2, <1>3, <1>4, <1>5, <1>6, <1>7, Stays

LEMMA DoneKeeps ==
  ASSUME IInv, Done
  PROVE  IInv'
<1>1. walk.pc = "loop" /\ walk.off >= walk.len /\ Return(walk, 0)
      /\ UNCHANGED <<mem, readonly, busy, call, grants, unfit>>
  BY DEF Done, tables
<1> QED BY <1>1, Leaving

LEMMA OutOfFramesKeeps ==
  ASSUME IInv, OutOfFrames
  PROVE  IInv'
<1>0. walk \in Walks BY DEF IInv, Shape
<1>1. walk.pc = "loop" /\ walk.off < walk.len /\ Short /\ Return(walk, 1)
      /\ UNCHANGED <<mem, readonly, busy, call, grants, unfit>>
  BY DEF OutOfFrames, tables
<1>2. walk.off \in Nat /\ walk.len \in Nat /\ walk.avail \in Nat /\ walk.used \in Nat BY <1>0 DEF Walks
<1>3. walk.kind # "map"
  <2>1. Supplied(walk, busy) BY DEF IInv
  <2>2. walk.kind = "map" => walk.avail = walk.len /\ walk.used = walk.off BY <1>1, <2>1 DEF Supplied
  <2> QED BY <1>1, <1>2, <2>2 DEF Short
<1> QED BY <1>1, <1>2, <1>3, Leaving

(* What the walk sees in the windows is what is found.                     *)
LEMMA Sees ==
  ASSUME IInv, walk.pc \in Going, walk.off < walk.len, NEW l \in walk.level .. MaxLevel
  PROVE  /\ Here = Ahead(walk) /\ Here \in Pages /\ l \in Levels
         /\ Table(l) = Found[l][Here] /\ Found[l][Here] # Absent /\ Entry(l) = Found[l - 1][Here]
<1>0. walk \in Walks /\ call \in Calls /\ Tree(Found) BY DEF IInv, Shape
<1>1. Phased(walk, call, unfit) /\ Bounds(walk, call) /\ Placed(walk, Found) BY DEF IInv
<1>2. /\ Ahead(walk) \in Pages /\ walk.level \in Levels
      /\ \A k \in walk.level .. MaxLevel : walk.window[k] = Found[k][Ahead(walk)] /\ Found[k][Ahead(walk)] # Absent
  BY <1>0, <1>1, Where
<1>3. l \in Levels BY <1>2, Consts DEF Levels
<1>4. Here = Ahead(walk) BY DEF Here, Ahead
<1>5. Table(l) = Found[l][Here] /\ Found[l][Here] # Absent BY <1>2, <1>4 DEF Table
<1>6. mem[Found[l][Here]][IndexOf(Here, l)] = Found[l - 1][Here] BY <1>2, <1>3, <1>4, <1>5, FoundIs, EntryIs
<1> QED BY <1>2, <1>3, <1>4, <1>5, <1>6 DEF Entry

(* A walk over pages is at a page of the call.                             *)
LEMMA InCall ==
  ASSUME IInv, walk.pc \in Going, walk.off < walk.len, walk.kind \notin {"tables", "untable"}
  PROVE  Ahead(walk) \in PagesOf(call) /\ Ahead(walk) \in Pages /\ End(walk) = call.base + walk.len
         /\ walk.base = call.base /\ ReqLevel(walk.kind) = 1 /\ Beyond(walk) = Ahead(walk) + 1
<1>0. walk \in Walks /\ call \in Calls BY DEF IInv, Shape
<1>1. Phased(walk, call, unfit) /\ Bounds(walk, call) /\ Placed(walk, Found) BY DEF IInv
<1>2. call.kind # "none" /\ Ahead(walk) \in Pages /\ Ahead(walk) < End(walk) BY <1>0, <1>1, Where
<1>3. ReqLevel(walk.kind) = 1 /\ Step[ReqLevel(walk.kind)] = 1 BY Steps DEF ReqLevel
<1>4. call.stage # "partial"
  <2>1. <<call.kind, call.stage, walk.kind>> \in Phases BY <1>1, <1>2 DEF Phased, NoCall
  <2> QED BY <2>1 DEF Phases
<1>5. walk.base <= call.base /\ call.base < walk.base + 1 /\ End(walk) <= call.base + call.len
  BY <1>1, <1>2, <1>3, <1>4 DEF Bounds
<1>6. walk.base \in Nat /\ walk.len \in Nat /\ walk.off \in Nat /\ call.base \in Nat /\ call.len \in Nat
  BY <1>0 DEF Walks, Calls
<1> QED BY <1>2, <1>3, <1>5, <1>6 DEF PagesOf, Ahead, End, Beyond

(* Nothing is missing on the way down, but for a release in a context that *)
(* is unfit.                                                               *)
LEMMA NotMissing ==
  ASSUME IInv, walk.pc \in Going, walk.off < walk.len, walk.kind # "tables", NEW k \in Levels, k >= ReqLevel(walk.kind),
         walk.kind = "untable" => ~unfit /\ (walk.pc = "up" => Found[2][Ahead(walk)] # Absent)
  PROVE  Found[k][Ahead(walk)] # Absent
<1> DEFINE p == Ahead(walk)
<1>0. walk \in Walks /\ call \in Calls /\ Tree(Found) /\ k \in 0 .. MaxLevel /\ k \in 1 .. MaxLevel BY Consts DEF IInv, Shape, Levels
<1>1. Phased(walk, call, unfit) /\ Bounds(walk, call) /\ Placed(walk, Found) BY DEF IInv
<1>2. call.kind # "none" /\ p \in Pages BY <1>0, <1>1, Where
<1>3. <<call.kind, call.stage, walk.kind>> \in Phases BY <1>1, <1>2 DEF Phased, NoCall
<1>4. CASE walk.kind = "untable"
  <2>1. Covered(Found, walk, call, unfit) BY DEF IInv
  <2>2. Found[2][p] # Absent BY <1>4, <2>1 DEF Covered
  <2>3. 2 \in 0 .. MaxLevel /\ k \in 2 .. MaxLevel BY <1>0, <1>4, Consts DEF ReqLevel
  <2> QED BY <1>0, <1>2, <2>2, <2>3, Path
<1>5. CASE walk.kind = "attr"
  <2>1. Apart(call, grants) /\ Held(Found, readonly, call, grants) BY DEF IInv
  <2>2. call.kind = "attr" /\ p \in PagesOf(call) BY <1>3, <1>5, InCall DEF Phases
  <2>3. PICK g \in grants : g.kind = "alloc" /\ PagesOf(call) \subseteq g.readonly BY <2>1, <2>2 DEF Apart
  <2>4. p \in PagesOf(g) BY <2>1, <2>2, <2>3 DEF Apart
  <2>5. Found[0][p] \in Frame BY <2>1, <2>3, <2>4 DEF Held
  <2>6. Found[0][p] # Absent /\ 0 \in 0 .. MaxLevel BY <2>5, Consts
  <2> QED BY <1>0, <1>2, <2>6, Path
<1>6. CASE walk.kind \notin {"untable", "attr"}
  <2>1. Covered(Found, walk, call, unfit) BY DEF IInv
  <2>2. walk.kind \in {"pages", "map", "unpage", "unmap"} BY <1>3, <1>6 DEF Phases
  <2>3. Found[1][p] # Absent BY <1>2, <2>1, <2>2, InCall DEF Covered
  <2>4. 1 \in 0 .. MaxLevel BY Consts
  <2> QED BY <1>0, <1>2, <2>3, <2>4, Path
<1> QED BY <1>4, <1>5, <1>6

LEMMA MissingKeeps ==
  ASSUME IInv, Missing
  PROVE  IInv'
<1>0. walk \in Walks /\ busy \subseteq Frame BY DEF IInv, Shape
<1>1. /\ walk.pc = "loop" /\ walk.off < walk.len /\ walk.level > ReqLevel(walk.kind)
      /\ Entry(walk.level) = Absent /\ walk.kind # "tables"
      /\ UNCHANGED <<mem, readonly, busy, call, grants, unfit>>
      /\ IF walk.kind = "untable" /\ walk.used > 0 THEN walk' = [walk EXCEPT !.pc = "astray"] ELSE Return(walk, -1)
  BY DEF Missing, Goes, tables
<1>2. walk.pc \in Going /\ walk.level \in walk.level .. MaxLevel /\ walk.level - 1 \in Levels /\ walk.level - 1 >= ReqLevel(walk.kind)
  <2>1. walk.level \in Levels BY <1>0 DEF Walks
  <2> QED BY <1>0, <1>1, <2>1, Consts, ReqIs DEF Going, Levels
<1>3. Found[walk.level - 1][Ahead(walk)] = Absent BY <1>1, <1>2, Sees
<1>4. walk.kind = "untable" /\ unfit
  <2> SUFFICES ASSUME ~(walk.kind = "untable" /\ unfit) PROVE FALSE OBVIOUS
  <2>1. unfit \in BOOLEAN BY DEF IInv, Shape
  <2> QED BY <1>1, <1>2, <1>3, <2>1, NotMissing
<1>5. CASE ~(walk.used > 0)
  <2>1. Return(walk, -1) BY <1>1, <1>5
  <2>2. walk.used \in Nat /\ walk.off \in Nat /\ walk.len \in Nat BY <1>0 DEF Walks
  <2>3. walk.used = 0 /\ ~(walk.off >= walk.len) BY <1>1, <1>5, <2>2
  <2> QED BY <1>1, <1>4, <2>1, <2>3, Leaving
<1>6. CASE walk.used > 0
  <2>1. walk' = [walk EXCEPT !.pc = "astray"] BY <1>1, <1>4, <1>6
  <2>2. walk' \in Walks BY <1>0, <2>1 DEF Walks, Places
  <2>3. /\ walk'.kind = walk.kind /\ walk'.base = walk.base /\ walk'.len = walk.len /\ walk'.off = walk.off
        /\ walk'.pc = "astray" /\ walk'.level = walk.level
    BY <1>0, <2>1 DEF Walks
  <2>4. Placed(walk', Found)
    <3>1. Placed(walk, Found) BY DEF IInv
    <3> QED BY <1>1, <2>3, <3>1 DEF Placed, Going
  <2>5. Supplied(walk', busy') BY <1>4, <2>3 DEF Supplied
  <2>6. Owned(walk', Found, busy') BY <2>3 DEF Owned
  <2>7. Sound(walk', call, unfit) BY <1>4 DEF Sound
  <2> QED BY <1>0, <1>1, <2>2, <2>3, <2>4, <2>5, <2>6, <2>7, Stays
<1> QED BY <1>5, <1>6

LEMMA BreakKeeps ==
  ASSUME IInv, NEW l \in {1, 2}, Break(l)
  PROVE  IInv'
<1>0. walk \in Walks BY DEF IInv, Shape
<1>1. walk.pc = "loop" /\ walk.off < walk.len /\ Wanted /\ Return(walk, 1)
      /\ UNCHANGED <<mem, readonly, busy, call, grants, unfit>>
  BY DEF Break, Request, Goes, tables
<1>2. walk.off \in Nat /\ walk.len \in Nat BY <1>0 DEF Walks
<1>3. walk.kind # "map" BY <1>1 DEF Wanted
<1> QED BY <1>1, <1>2, <1>3, Leaving

(* The walk goes down.                                                     *)
LEMMA DownKeeps ==
  ASSUME IInv, Goes, walk.level > ReqLevel(walk.kind), Entry(walk.level) # Absent,
         walk' = [walk EXCEPT !.level = walk.level - 1, !.window[walk.level - 1] = Entry(walk.level)],
         UNCHANGED <<mem, readonly, busy, call, grants, unfit>>
  PROVE  IInv'
<1> DEFINE l == walk.level  e == Entry(l)
<1>0. walk \in Walks /\ busy \subseteq Frame /\ Tree(Found) BY DEF IInv, Shape
<1>1. walk.pc = "loop" /\ walk.off < walk.len /\ walk.pc \in Going BY DEF Goes, Going
<1>2. /\ l \in Levels /\ l \in walk.level .. MaxLevel /\ l \in Nat /\ l - 1 \in Levels /\ l - 1 >= ReqLevel(walk.kind)
      /\ l - 1 \in 0 .. MaxLevel
  <2>1. walk.level \in Levels BY <1>0 DEF Walks
  <2> QED BY <1>0, <2>1, Consts, ReqIs DEF Levels
<1>3. e = Found[l - 1][Ahead(walk)] /\ Ahead(walk) \in Pages BY <1>1, <1>2, Sees
<1>4. e \in Nat BY <1>0, <1>2, <1>3 DEF Tree
<1> HIDE DEF e
<1>5. walk' = [walk EXCEPT !.level = l - 1, !.window[l - 1] = e] BY DEF e
<1>6. /\ walk'.kind = walk.kind /\ walk'.base = walk.base /\ walk'.len = walk.len /\ walk'.off = walk.off
      /\ walk'.pc = "loop" /\ walk'.level = l - 1 /\ walk'.st = walk.st /\ walk'.avail = walk.avail
      /\ walk'.used = walk.used /\ walk'.first = walk.first /\ walk'.window = [walk.window EXCEPT ![l - 1] = e]
      /\ walk'.window \in [Levels -> Nat]
  <2> DEFINE k == l - 1
  <2>1. walk' = [walk EXCEPT !.level = k, !.window = [walk.window EXCEPT ![k] = e]] BY <1>5
  <2>2. [walk.window EXCEPT ![k] = e] \in [Levels -> Nat] BY <1>0, <1>4 DEF Walks
  <2> HIDE DEF k
  <2>3. walk'.window = [walk.window EXCEPT ![k] = e] /\ walk'.level = k BY <1>0, <2>1 DEF Walks
  <2>4. /\ walk'.kind = walk.kind /\ walk'.base = walk.base /\ walk'.len = walk.len /\ walk'.off = walk.off
        /\ walk'.pc = walk.pc /\ walk'.st = walk.st /\ walk'.avail = walk.avail
        /\ walk'.used = walk.used /\ walk'.first = walk.first
    BY <1>0, <2>1 DEF Walks
  <2> QED BY <1>1, <2>2, <2>3, <2>4 DEF k
<1>7. walk' \in Walks BY <1>0, <1>2, <1>4, <1>5, <1>6 DEF Walks
<1>8. Placed(walk', Found)
  <2>1. Placed(walk, Found) BY DEF IInv
  <2>2. Ahead(walk') = Ahead(walk) BY <1>6 DEF Ahead
  <2>3. \A k \in l - 1 .. MaxLevel : k = l - 1 \/ k \in l .. MaxLevel BY <1>2, Consts
  <2>4. \A k \in l .. MaxLevel : k # l - 1 /\ k \in Levels BY <1>2, Consts DEF Levels
  <2>5. \A k \in l - 1 .. MaxLevel : walk'.window[k] = Found[k][Ahead(walk)] /\ walk'.window[k] # Absent
    <3>1. walk.window \in [Levels -> Nat] BY <1>0 DEF Walks
    <3>2. \A k \in l .. MaxLevel : walk.window[k] = Found[k][Ahead(walk)] /\ walk.window[k] # Absent
      BY <1>1, <2>1 DEF Placed
    <3>3. \A k \in l .. MaxLevel : walk'.window[k] = walk.window[k] BY <1>6, <2>4, <3>1
    <3>4. walk'.window[l - 1] = e BY <1>2, <1>6, <3>1
    <3>5. e # Absent BY DEF e
    <3> QED BY <1>3, <2>3, <3>2, <3>3, <3>4, <3>5
  <2> QED BY <1>1, <1>2, <1>6, <2>1, <2>2, <2>5 DEF Placed
<1>9. Supplied(walk', busy')
  <2>1. Supplied(walk, busy) BY DEF IInv
  <2> QED BY <1>1, <1>6, <2>1 DEF Supplied
<1>10. Owned(walk', Found, busy')
  <2>1. Owned(walk, Found, busy) BY DEF IInv
  <2>2. Run(walk') = Run(walk) BY <1>6 DEF Run
  <2>3. \A k : Handed(walk', k) = Handed(walk, k) BY <1>1, <1>6, <2>2 DEF Handed
  <2> QED BY <1>1, <1>6, <2>1, <2>3 DEF Owned
<1>11. Sound(walk', call, unfit) BY <1>6 DEF Sound
<1> QED BY <1>0, <1>1, <1>6, <1>7, <1>8, <1>9, <1>10, <1>11, Stays

LEMMA BackKeeps ==
  ASSUME IInv, Back
  PROVE  IInv'
<1>0. walk \in Walks /\ busy \subseteq Frame BY DEF IInv, Shape
<1>1. /\ walk.pc = "return"
      /\ busy' = (IF walk.st < 0 THEN busy
                  ELSE IF walk.kind \in {"tables", "pages"} THEN busy \cup Run(walk)
                  ELSE IF walk.kind \in {"untable", "unpage"} THEN busy \ Run(walk)
                  ELSE busy)
      /\ walk' = [walk EXCEPT !.pc = IF walk.st > 0 THEN "enter" ELSE "end"]
      /\ UNCHANGED <<mem, readonly, call, grants, unfit>>
  BY DEF Back, tables, Handled, Run
<1>2. walk' \in Walks BY <1>0, <1>1 DEF Walks, Places
<1>3. /\ walk'.kind = walk.kind /\ walk'.base = walk.base /\ walk'.len = walk.len /\ walk'.off = walk.off
      /\ walk'.pc = (IF walk.st > 0 THEN "enter" ELSE "end")
      /\ walk'.st = walk.st /\ walk'.level = walk.level /\ walk'.window = walk.window
      /\ walk'.used = walk.used
  BY <1>0, <1>1 DEF Walks
<1>4. walk.st \in {-1, 0, 1} /\ walk.off \in Nat /\ walk.len \in Nat /\ walk.first \in Nat /\ walk.used \in Nat /\ walk.avail \in Nat
  BY <1>0 DEF Walks
<1>5. Placed(walk, Found) /\ Supplied(walk, busy) /\ Owned(walk, Found, busy) /\ Sound(walk, call, unfit) BY DEF IInv
<1>6. Placed(walk', Found)
  <2>1. Ahead(walk') = Ahead(walk) BY <1>3 DEF Ahead
  <2>2. /\ walk.level >= ReqLevel(walk.kind) /\ (walk.off >= walk.len <=> walk.st = 0)
        /\ walk.st < 0 => walk.kind = "untable"
        /\ walk.len = 0 => walk.off = 0
        /\ walk.off < walk.len =>
             \A l \in walk.level .. MaxLevel : walk.window[l] = Found[l][Ahead(walk)] /\ walk.window[l] # Absent
    BY <1>1, <1>5 DEF Placed, Going
  <2>3. CASE walk.st > 0
    <3>1. walk'.pc = "enter" /\ walk.off < walk.len BY <1>3, <1>4, <2>2, <2>3
    <3> QED BY <1>3, <2>1, <2>2, <3>1 DEF Placed
  <2>4. CASE ~(walk.st > 0)
    <3>1. walk'.pc = "end" /\ walk.st # 1 BY <1>3, <2>4
    <3> QED BY <1>3, <2>1, <2>2, <3>1 DEF Placed, Going
  <2> QED BY <2>3, <2>4
<1>7. Supplied(walk', busy')
  <2>1. walk.kind = "map" => walk.st = 0 BY <1>1, <1>5 DEF Supplied
  <2> QED BY <1>3, <2>1 DEF Supplied
<1>8. walk.kind \in {"tables", "pages"} => Run(walk) \subseteq Frame
  <2>1. walk.kind \in {"tables", "pages"} => walk.first > 0 /\ walk.used <= walk.avail /\ walk.first + walk.avail <= Last + 1
    BY <1>1, <1>5 DEF Supplied
  <2> QED BY <1>4, <2>1, Consts DEF Run, Frame
<1>9. busy' \subseteq Frame BY <1>0, <1>1, <1>8
<1>10. Owned(walk', Found, busy')
  <2>1. \A k : Handed(walk', k) = {} BY <1>3 DEF Handed
  <2>2. \A k : Handed(walk, k) = IF walk.kind \in k THEN Run(walk) ELSE {} BY <1>1 DEF Handed
  <2>3. walk.st < 0 => walk.kind = "untable" /\ Run(walk) = {}
    <3>1. walk.st < 0 => walk.kind = "untable" /\ walk.used = 0 BY <1>1, <1>5 DEF Placed
    <3> QED BY <3>1, <1>4 DEF Run
  <2>4. \A f \in Frame : Ref(Found, f) <=> f \in (busy \ Handed(walk, {"untable", "unpage"})) \cup Handed(walk, {"tables", "pages"})
    BY <1>1, <1>5 DEF Owned
  <2> SUFFICES ASSUME NEW f \in Frame PROVE Ref(Found, f) <=> f \in busy'
    BY <2>1 DEF Owned
  <2>5. Ref(Found, f) <=> f \in (busy \ Handed(walk, {"untable", "unpage"})) \cup Handed(walk, {"tables", "pages"}) BY <2>4
  <2>6. CASE walk.kind \in {"tables", "pages"} BY <1>1, <2>2, <2>3, <2>5, <2>6
  <2>7. CASE walk.kind \in {"untable", "unpage"} BY <1>1, <2>2, <2>3, <2>5, <2>7
  <2>8. CASE walk.kind \notin {"tables", "pages", "untable", "unpage"} BY <1>1, <2>2, <2>5, <2>8
  <2> QED BY <2>6, <2>7, <2>8
<1>11. Sound(walk', call, unfit)
  <2>1. Sound(walk, call, unfit) BY <1>5
  <2> QED BY <1>1, <1>3, <2>1 DEF Sound
<1> QED BY <1>0, <1>1, <1>2, <1>3, <1>6, <1>7, <1>9, <1>10, <1>11, Stays

-------------------------------------------------------------------------------
(* What a step of the walk onward does to the parts of the invariant: the  *)
(* pages it passes, and the frames it uses or collects.                    *)

(* A step of the walk on its way.                                          *)
LEMMA Goes_On ==
  ASSUME IInv, walk.pc \in Going, walk' \in Walks, walk'.pc \in Going,
         walk'.kind = walk.kind, walk'.base = walk.base, walk'.len = walk.len,
         Ahead(walk') % Step[ReqLevel(walk.kind)] = 0,
         UNCHANGED <<busy, call, grants>>, mem' \in Memory, Tree(Found'),
         unfit' \in BOOLEAN, unfit => unfit', unfit' => unfit \/ walk.kind = "untable",
         Placed(walk', Found'), Supplied(walk', busy), Owned(walk', Found', busy),
         ReadOnly(Found', readonly'), Held(Found', readonly', call, grants),
         Changing(Found', readonly', walk', call), Covered(Found', walk', call, unfit'),
         Tidy(Found', walk', call, unfit'), Sound(walk', call, unfit')
  PROVE  IInv'
<1>1. Shape' BY DEF IInv, Shape
<1>2. Phased(walk, call, unfit)'
  <2>1. walk.pc # "none" /\ walk'.pc # "none" BY DEF Going
  <2>2. Phased(walk, call, unfit) BY DEF IInv
  <2>3. /\ <<call.kind, call.stage, walk.kind>> \in Phases /\ (unfit => walk.kind = "untable")
        /\ (call.stage = "partial" => unfit)
    BY <2>1, <2>2 DEF Phased, NoWalk
  <2>4. Phased(walk', call, unfit') BY <2>1, <2>3 DEF Phased
  <2> QED BY <2>4
<1>3. Bounds(walk, call)'
  <2>1. Bounds(walk, call) BY DEF IInv
  <2>2. Bounds(walk', call) BY <2>1 DEF Bounds, End
  <2> QED BY <2>2
<1>4. Apart(call, grants)' BY DEF IInv
<1> QED BY <1>1, <1>2, <1>3, <1>4 DEF IInv

(* Pages have entries of their own.                                        *)
LEMMA OnePage ==
  ASSUME NEW F, Tree(F), NEW p \in Pages, NEW q \in Pages, F[1][p] # Absent,
         F[1][q] = F[1][p], IndexOf(q, 1) = IndexOf(p, 1)
  PROVE  q = p
<1>0. 1 \in Levels /\ p \in Nat /\ q \in Nat BY Consts, PageNat DEF Levels
<1>1. Blk(q, 1 + 1) = Blk(p, 1 + 1) BY <1>0, TableIs
<1>2. Blk(q, 1) = Blk(p, 1) BY <1>0, <1>1, SameBlock
<1> QED BY <1>0, <1>2, BlkOne

(* A page that is not there is not read-only.                              *)
LEMMA Unmarked ==
  ASSUME NEW F, Tree(F), NEW ro, ReadOnly(F, ro), NEW q \in Pages, F[0][q] = Absent
  PROVE  ~Marked(F, ro, q)
<1> SUFFICES ASSUME Marked(F, ro, q) PROVE FALSE OBVIOUS
<1>1. PICK p \in Pages : F[0][p] # Absent /\ <<F[1][q], IndexOf(q, 1)>> = <<F[1][p], IndexOf(p, 1)>>
  BY DEF ReadOnly, Marked
<1>2. F[1][p] # Absent
  <2>1. 0 \in 0 .. MaxLevel /\ 1 \in 0 .. MaxLevel BY Consts
  <2> QED BY <1>1, <2>1, Path
<1>3. q = p BY <1>1, <1>2, OnePage
<1> QED BY <1>1, <1>3

(* A walk is at a block of the call.                                       *)
LEMMA InCallBlock ==
  ASSUME IInv, walk.pc \in Going, walk.off < walk.len, walk.kind # "untable",
         NEW l \in ReqLevel(walk.kind) .. MaxLevel + 1
  PROVE  \E q \in PagesOf(call) : q \in Pages /\ Blk(q, l) = Blk(Ahead(walk), l)
<1> DEFINE r == ReqLevel(walk.kind)  h == Ahead(walk)
<1>0. walk \in Walks /\ call \in Calls BY DEF IInv, Shape
<1>1. Phased(walk, call, unfit) /\ Bounds(walk, call) /\ Placed(walk, Found) BY DEF IInv
<1>2. call.kind # "none" /\ h \in Pages /\ h < End(walk) /\ h % Step[r] = 0 BY <1>0, <1>1, Where
<1>3. r \in Levels /\ r \in 1 .. MaxLevel + 1 /\ Step[r] \in Nat /\ Step[r] > 0 /\ h \in Nat BY <1>0, ReqIs, Consts DEF Levels
<1>4. call.stage # "partial"
  <2>1. <<call.kind, call.stage, walk.kind>> \in Phases BY <1>1, <1>2 DEF Phased, NoCall
  <2> QED BY <2>1 DEF Phases
<1>5. /\ walk.base <= call.base /\ call.base < walk.base + Step[r] /\ End(walk) <= call.base + call.len
      /\ call.len > 0 /\ call.base + call.len <= Step[MaxLevel + 1]
  BY <1>1, <1>2, <1>4 DEF Bounds
<1>6. /\ walk.base \in Nat /\ walk.off \in Nat /\ call.base \in Nat /\ call.len \in Nat /\ End(walk) \in Nat
      /\ h = walk.base + walk.off
  BY <1>0, ReqIs DEF Walks, Calls, Ahead
<1> HIDE DEF h, r
<1>7. \E q \in PagesOf(call) : q \in Nat /\ h <= q /\ q < h + Step[r]
  <2>1. CASE h < call.base
    <3>1. call.base \in PagesOf(call) /\ h <= call.base /\ call.base < h + Step[r] BY <1>3, <1>5, <1>6, <2>1 DEF PagesOf
    <3> QED BY <1>6, <3>1
  <2>2. CASE ~(h < call.base)
    <3>1. h \in PagesOf(call) /\ h < h + Step[r] /\ h <= h BY <1>2, <1>3, <1>5, <1>6, <2>2 DEF PagesOf
    <3> QED BY <1>3, <3>1
  <2> QED BY <2>1, <2>2
<1>8. PICK q \in PagesOf(call) : q \in Nat /\ h <= q /\ q < h + Step[r] BY <1>7
<1>9. q \in Pages
  <2>1. q < call.base + call.len BY <1>6, <1>8 DEF PagesOf
  <2>2. Step[MaxLevel + 1] \in Nat
    <3>1. MaxLevel + 1 \in 1 .. MaxLevel + 1 BY Consts
    <3> QED BY <3>1, Steps
  <2> QED BY <1>5, <1>6, <1>8, <2>1, <2>2, IsPage
<1>10. Blk(q, r) = Blk(h, r) BY <1>2, <1>3, <1>8, InBlock
<1>11. Blk(q, l) = Blk(h, l) BY <1>3, <1>8, <1>10, Coarser DEF r
<1> QED BY <1>9, <1>11 DEF h

(* On to the next entry, or on the way up.                                 *)
LEMMA MovedWalk ==
  ASSUME IInv, NEW l \in Levels, Request(l), NEW w \in Walks,
         w.pc = walk.pc, w.kind = walk.kind, w.base = walk.base, w.len = walk.len, w.off = walk.off,
         w.level = walk.level, w.window = walk.window, w.avail = walk.avail, w.st = walk.st,
         walk' = Moved(w, l)
  PROVE  /\ walk' \in Walks /\ walk'.pc \in {"loop", "up"} /\ walk'.pc \in Going
         /\ walk'.kind = walk.kind /\ walk'.base = walk.base /\ walk'.len = walk.len
         /\ walk'.level = walk.level /\ walk'.window = walk.window /\ walk'.avail = walk.avail
         /\ walk'.used = w.used /\ walk'.first = w.first
         /\ Front(walk') = Beyond(walk) /\ End(walk') = End(walk)
         /\ Ahead(walk') % Step[ReqLevel(walk.kind)] = 0
         /\ walk'.pc = "up" => walk'.off = walk.off /\ Ahead(walk') = Ahead(walk) /\ Beyond(walk') = Beyond(walk)
         /\ walk'.pc = "loop" =>
              /\ walk'.off = walk.off + Step[l] /\ Ahead(walk') = Beyond(walk) /\ Beyond(walk) \in Pages
              /\ Blk(Beyond(walk), l + 1) = Blk(Ahead(walk), l + 1)
              /\ walk.kind = "untable" => Beyond(walk) < End(walk)
         /\ \A G : Tree(G) /\ (\A k \in l .. MaxLevel, q \in Pages : G[k][q] = Found[k][q]) => Placed(walk', G)
<1> DEFINE h == Ahead(walk)  n == Beyond(walk)
<1>0. walk \in Walks /\ call \in Calls /\ Tree(Found) BY DEF IInv, Shape
<1>1. walk.pc = "loop" /\ walk.off < walk.len /\ l = ReqLevel(walk.kind) /\ walk.level = l /\ walk.pc \in Going
  BY DEF Request, Goes, Going
<1>2. Phased(walk, call, unfit) /\ Bounds(walk, call) /\ Placed(walk, Found) BY DEF IInv
<1>3. /\ h \in Pages /\ h \in Nat /\ h % Step[l] = 0
      /\ \A k \in l .. MaxLevel : walk.window[k] = Found[k][h] /\ Found[k][h] # Absent
  BY <1>0, <1>1, <1>2, Where, PageNat
<1>4. l \in Levels /\ l < MaxLevel /\ l \in Nat /\ Step[l] \in Nat /\ Step[l] > 0 /\ n = h + Step[l]
  BY <1>0, <1>1, ReqIs, Consts DEF Beyond, Levels
<1>5. n \in Nat /\ n % Step[l] = 0 BY <1>3, <1>4, NextBlock
<1>6. walk.off \in Nat /\ walk.base \in Nat /\ walk.len \in Nat BY <1>0 DEF Walks
<1>7. Here = h /\ Behind = n BY DEF Here, Ahead, Behind, Beyond
<1>8. CASE Leaves(l)
  <2>1. walk' = [w EXCEPT !.pc = "up"] BY <1>8 DEF Moved
  <2>2. walk' \in Walks BY <2>1 DEF Walks, Places
  <2>3. /\ walk'.pc = "up" /\ walk'.kind = walk.kind /\ walk'.base = walk.base /\ walk'.len = walk.len
        /\ walk'.level = walk.level /\ walk'.window = walk.window /\ walk'.avail = walk.avail
        /\ walk'.used = w.used /\ walk'.first = w.first /\ walk'.off = walk.off
    BY <2>1 DEF Walks
  <2>4. Ahead(walk') = h /\ Beyond(walk') = n /\ Front(walk') = n /\ End(walk') = End(walk)
    BY <2>3 DEF Ahead, Beyond, Front, End
  <2>5. ASSUME NEW G, Tree(G), \A k \in l .. MaxLevel, q \in Pages : G[k][q] = Found[k][q] PROVE Placed(walk', G)
    <3>1. \A k \in l .. MaxLevel : walk.window[k] = G[k][h] /\ walk.window[k] # Absent BY <1>3, <2>5
    <3>2. walk.len # 0 BY <1>1, <1>6
    <3>3. walk.level >= ReqLevel(walk.kind) /\ walk.level < MaxLevel BY <1>1, <1>4
    <3> QED BY <1>1, <2>3, <2>4, <3>1, <3>2, <3>3 DEF Placed
  <2> QED BY <1>1, <1>3, <2>2, <2>3, <2>4, <2>5 DEF Going
<1>9. CASE ~Leaves(l)
  <2>1. walk' = [w EXCEPT !.pc = "loop", !.off = @ + Step[l]] BY <1>1, <1>9 DEF Moved, Onward
  <2>2. walk' \in Walks
    <3> DEFINE o == w.off + Step[l]
    <3>1. walk' = [w EXCEPT !.pc = "loop", !.off = o] BY <2>1
    <3>2. o \in Nat BY <1>4, <1>6
    <3> HIDE DEF o
    <3> QED BY <3>1, <3>2 DEF Walks, Places
  <2>3. /\ walk'.pc = "loop" /\ walk'.kind = walk.kind /\ walk'.base = walk.base /\ walk'.len = walk.len
        /\ walk'.level = walk.level /\ walk'.window = walk.window /\ walk'.avail = walk.avail
        /\ walk'.used = w.used /\ walk'.first = w.first /\ walk'.off = walk.off + Step[l]
    BY <2>1 DEF Walks
  <2>4. Ahead(walk') = n /\ Front(walk') = n /\ End(walk') = End(walk)
    BY <1>4, <1>6, <2>3 DEF Ahead, Front, End
  <2>5. ~(IndexOf(n, l) < IndexOf(h, l)) /\ (walk.kind = "untable" => ~(walk.off + Step[l] >= walk.len))
    BY <1>7, <1>9 DEF Leaves
  <2>6. Blk(n, l + 1) = Blk(h, l + 1)
    <3>1. l \in l .. MaxLevel BY <1>4, Consts
    <3> QED BY <1>3, <1>4, <2>5, <3>1, NextIndex
  <2>7. \A k \in l + 1 .. MaxLevel + 1 : Blk(n, k) = Blk(h, k)
    <3>1. l + 1 \in 1 .. MaxLevel + 1 BY <1>4, Consts
    <3> QED BY <1>3, <1>5, <2>6, <3>1, Coarser
  <2>8. n \in Pages
    <3>1. MaxLevel + 1 \in l + 1 .. MaxLevel + 1 BY <1>4, Consts
    <3> QED BY <1>3, <1>5, <2>7, <3>1, PageIs
  <2>9. walk.kind = "untable" => n < End(walk)
    <3>1. n = walk.base + walk.off + Step[l] BY <1>4 DEF Ahead
    <3> QED BY <1>4, <1>6, <2>5, <3>1 DEF End
  <2>10. ASSUME NEW G, Tree(G), \A k \in l .. MaxLevel, q \in Pages : G[k][q] = Found[k][q] PROVE Placed(walk', G)
    <3>1. \A k \in l .. MaxLevel : walk.window[k] = G[k][n] /\ walk.window[k] # Absent
      <4> TAKE k \in l .. MaxLevel
      <4>1. k + 1 \in l + 1 .. MaxLevel + 1 /\ k \in 0 .. MaxLevel BY <1>4, Consts
      <4>2. Found[k][n] = Found[k][h] BY <1>0, <1>3, <2>7, <2>8, <4>1, TreeBlock
      <4> QED BY <1>3, <2>8, <2>10, <4>2
    <3>2. walk.len # 0 BY <1>1, <1>6
    <3>3. walk.level >= ReqLevel(walk.kind) /\ walk.level = l BY <1>1, <1>4
    <3> QED BY <1>1, <2>3, <2>4, <3>1, <3>2, <3>3 DEF Placed
  <2> QED BY <1>1, <1>5, <2>2, <2>3, <2>4, <2>6, <2>8, <2>9, <2>10 DEF Going
<1> QED BY <1>8, <1>9

LEMMA TidySame ==
  ASSUME NEW F, NEW w, NEW c, NEW u, Tidy(F, w, c, u), NEW x, w.kind # "untable", x.kind = w.kind
  PROVE  Tidy(F, x, c, u)
BY DEF Tidy, Excused

(* A call that is under way may leave tables empty in its range.           *)
LEMMA TidyKept ==
  ASSUME NEW F, Tree(F), NEW l, NEW p, NEW v, Fits(F, l, p, v), NEW w, NEW c, NEW u, Tidy(F, w, c, u), NEW x,
         w.kind # "untable", x.kind = w.kind, c.kind \notin {"none", "attr"},
         \E q \in PagesOf(c) : q \in Pages /\ Blk(q, l) = Blk(p, l)
  PROVE  Tidy(Changed(F, l, p, v), x, c, u)
<1> DEFINE G == Changed(F, l, p, v)
<1>1. PICK z \in PagesOf(c) : z \in Pages /\ Blk(z, l) = Blk(p, l) OBVIOUS
<1>2. /\ l \in Levels /\ l \in Nat /\ l > 0 /\ l <= MaxLevel /\ l \in 1 .. MaxLevel + 1 /\ l + 1 \in l .. MaxLevel + 1
      /\ p \in Pages /\ p \in Nat /\ z \in Nat /\ MaxLevel \in Nat
  BY <1>1, Consts, PageNat DEF Fits, Levels
<1>3. Blk(z, l + 1) = Blk(p, l + 1) BY <1>1, <1>2, Coarser
<1>4. \A k \in 0 .. MaxLevel, q \in Pages :
        G[k][q] = IF k = l - 1 /\ Blk(q, l) = Blk(p, l) THEN v ELSE F[k][q]
  BY ChangedIs
<1> HIDE DEF G
<1>5. ASSUME ~u, NEW k \in 1 .. MaxLevel - 1, NEW q \in Pages
      PROVE  \/ G[k][q] = Absent
             \/ \E r \in Pages : Blk(r, k + 1) = Blk(q, k + 1) /\ G[k - 1][r] # Absent
             \/ Excused(x, c, k, q)
  <2>0. k \in 0 .. MaxLevel /\ k - 1 \in 0 .. MaxLevel /\ k \in Nat BY <1>2
  <2>1. ASSUME NEW r \in PagesOf(c), Blk(r, k + 1) = Blk(q, k + 1) PROVE Excused(x, c, k, q) BY <2>1 DEF Excused
  <2>2. CASE k = l - 1 /\ Blk(q, l) = Blk(p, l)
    <3>1. k + 1 = l BY <1>2, <2>2
    <3>2. Blk(z, k + 1) = Blk(q, k + 1) BY <1>1, <2>2, <3>1
    <3> QED BY <2>1, <3>2
  <2>3. CASE ~(k = l - 1 /\ Blk(q, l) = Blk(p, l))
    <3>1. G[k][q] = F[k][q] BY <1>4, <2>0, <2>3
    <3>2. \/ F[k][q] = Absent
          \/ \E r \in Pages : Blk(r, k + 1) = Blk(q, k + 1) /\ F[k - 1][r] # Absent
          \/ Excused(w, c, k, q)
      BY <1>5 DEF Tidy
    <3>3. Excused(w, c, k, q) => Excused(x, c, k, q) BY DEF Excused
    <3>4. ASSUME NEW r \in Pages, Blk(r, k + 1) = Blk(q, k + 1), F[k - 1][r] # Absent, G[k - 1][r] = Absent
          PROVE  Excused(x, c, k, q)
      <4>1. k - 1 = l - 1 /\ Blk(r, l) = Blk(p, l) BY <1>4, <2>0, <3>4
      <4>2. k = l /\ r \in Nat BY <1>2, <2>0, <4>1, PageNat
      <4>3. Blk(r, l + 1) = Blk(p, l + 1) BY <1>2, <4>1, <4>2, Coarser
      <4>4. Blk(z, k + 1) = Blk(q, k + 1) BY <1>3, <3>4, <4>2, <4>3
      <4> QED BY <2>1, <4>4
    <3> QED BY <3>1, <3>2, <3>3, <3>4
  <2> QED BY <2>2, <2>3
<1>6. Tidy(G, x, c, u) BY <1>5 DEF Tidy
<1> QED BY <1>6 DEF G

(* When tables come and go, nothing changes for the pages.                 *)
LEMMA PagesStill ==
  ASSUME NEW F, Tree(F), NEW l, NEW p, NEW v, Fits(F, l, p, v), l > 1,
         NEW ro, NEW so \in {ro, ro \ {<<F[l][p], IndexOf(p, l)>>}},
         NEW w, NEW x, NEW c, NEW gs \in SUBSET Shares, w.kind \in {"tables", "untable"}, x.kind = w.kind,
         ReadOnly(F, ro), Apart(c, gs), Held(F, ro, c, gs), Changing(F, ro, w, c),
         PagesOf(c) \subseteq Pages
  PROVE  LET G == Changed(F, l, p, v) IN
         ReadOnly(G, so) /\ Held(G, so, c, gs) /\ Changing(G, so, x, c)
<1> DEFINE G == Changed(F, l, p, v)
<1>0. 1 \in Levels /\ 0 \in 0 .. MaxLevel /\ 1 \in 0 .. MaxLevel /\ l \in Levels /\ p \in Pages /\ F[l][p] # Absent /\ l # 1
  BY Consts DEF Levels, Fits
<1>1. \A q \in Pages : G[0][q] = F[0][q] /\ (F[0][q] # Absent => G[1][q] = F[1][q]) BY <1>0, PagesKept
<1> HIDE DEF G
<1>2. ASSUME NEW q \in Pages, F[0][q] # Absent PROVE Marked(G, so, q) <=> Marked(F, ro, q)
  <2>1. F[1][q] # Absent
    <3>1. 1 \in 0 .. MaxLevel BY <1>0
    <3> QED BY <1>0, <1>2, <3>1, Path
  <2>2. F[1][q] # F[l][p] BY <1>0, TableIs
  <2> QED BY <1>1, <1>2, <2>2 DEF Marked
<1>3. ReadOnly(G, so)
  <2>1. so \subseteq ro OBVIOUS
  <2> QED BY <1>1, <2>1 DEF ReadOnly
<1>4. Held(G, so, c, gs)
  <2>1. \A q \in Pages : q \notin UsedBy(gs) \cup PagesOf(c) => G[0][q] = Absent BY <1>1 DEF Held
  <2>2. ASSUME NEW g \in gs, NEW q \in PagesOf(g)
        PROVE /\ IF g.kind = "map" THEN G[0][q] = Device + q - g.base ELSE G[0][q] \in Frame
              /\ q \notin PagesOf(c) => (Marked(G, so, q) <=> q \in g.readonly)
    <3>1. q \in Pages BY DEF Apart
    <3>2. /\ IF g.kind = "map" THEN F[0][q] = Device + q - g.base ELSE F[0][q] \in Frame
          /\ q \notin PagesOf(c) => (Marked(F, ro, q) <=> q \in g.readonly)
      BY DEF Held
    <3>3. F[0][q] # Absent
      <4>1. CASE g.kind = "map"
        <5>1. g.base \in Nat /\ g.len \in Nat /\ q \in g.base .. g.base + g.len - 1 BY DEF Shares, PagesOf
        <5>2. F[0][q] = Device + q - g.base BY <3>2, <4>1
        <5>3. Device \in Nat /\ Device > 0 /\ Absent = 0 BY Consts
        <5>4. Device + q - g.base > 0 BY <5>1, <5>3
        <5> QED BY <5>2, <5>3, <5>4
      <4>2. CASE g.kind # "map" BY <3>2, <4>2, Consts
      <4> QED BY <4>1, <4>2
    <3> QED BY <1>1, <1>2, <3>1, <3>2, <3>3
  <2> QED BY <2>1, <2>2 DEF Held
<1>5. Changing(G, so, x, c)
  <2>1. \A q \in PagesOf(c) : G[0][q] = F[0][q] BY <1>1
  <2>2. Tree(G) BY TreeChanged DEF G
  <2>3. \A q \in PagesOf(c) : ~Marked(G, so, q)
    <3>1. \A q \in PagesOf(c) : q \in Pages /\ G[0][q] = Absent BY <2>1 DEF Changing
    <3> QED BY <1>3, <2>2, <3>1, Unmarked
  <2> QED BY <2>1, <2>3 DEF Changing
<1>6. ReadOnly(G, so) /\ Held(G, so, c, gs) /\ Changing(G, so, x, c) BY <1>3, <1>4, <1>5
<1> QED BY <1>6 DEF G

LEMMA CallPages ==
  ASSUME NEW w, NEW c \in Calls, Bounds(w, c), c.kind # "none"
  PROVE  PagesOf(c) \subseteq Pages
<1>1. c.base \in Nat /\ c.len \in Nat /\ c.base + c.len <= Step[MaxLevel + 1] BY DEF Calls, Bounds
<1>2. Step[MaxLevel + 1] \in Nat
  <2>1. MaxLevel + 1 \in 1 .. MaxLevel + 1 BY Consts
  <2> QED BY <2>1, Steps
<1> QED BY <1>1, <1>2, IsPage DEF PagesOf

(* The frame that a walk has been given is free.                           *)
LEMMA FreshFrame ==
  ASSUME IInv, Goes, walk.kind \in {"tables", "pages"}
  PROVE  /\ NextFrame \in Frame /\ ~Ref(Found, NextFrame) /\ NextFrame \notin Run(walk)
         /\ walk.used + 1 \in Nat /\ walk.used + 1 <= walk.avail
         /\ walk.first .. walk.first + (walk.used + 1) - 1 = Run(walk) \cup {NextFrame}
<1>1. walk \in Walks BY DEF IInv, Shape
<1>2. walk.first \in Nat /\ walk.used \in Nat /\ walk.avail \in Nat BY <1>1 DEF Walks
<1>3. walk.pc = "loop" /\ ~(walk.avail <= walk.used) BY DEF Goes, Short, Builds
<1>4. /\ walk.first > 0 /\ walk.first + walk.avail <= Last + 1
      /\ \A f \in walk.first .. walk.first + walk.avail - 1 : f \notin busy
  BY <1>3 DEF IInv, Supplied
<1>5. NextFrame = walk.first + walk.used BY DEF NextFrame
<1>6. NextFrame \in Frame /\ NextFrame \notin busy /\ NextFrame \notin Run(walk)
  BY <1>2, <1>3, <1>4, <1>5, Consts DEF Frame, Run
<1>7. Ref(Found, NextFrame) <=> NextFrame \in (busy \ Handed(walk, {"untable", "unpage"})) \cup Handed(walk, {"tables", "pages"})
  BY <1>3, <1>6 DEF IInv, Owned
<1>8. Handed(walk, {"untable", "unpage"}) = {} /\ Handed(walk, {"tables", "pages"}) = Run(walk) BY <1>3 DEF Handed
<1>9. walk.first .. walk.first + (walk.used + 1) - 1 = Run(walk) \cup {NextFrame} BY <1>2, <1>5 DEF Run
<1> QED BY <1>2, <1>3, <1>6, <1>7, <1>8, <1>9

(* The frame that has been used is referred to, and handed out.            *)
LEMMA OwnedTaken ==
  ASSUME IInv, Goes, walk.kind \in {"tables", "pages"}, NEW l, NEW p, Fits(Found, l, p, NextFrame),
         Found[l - 1][p] = Absent, NEW x, x.kind = walk.kind, x.pc \in {"loop", "up"},
         x.first = walk.first, x.used = walk.used + 1
  PROVE  Owned(x, Changed(Found, l, p, NextFrame), busy)
<1>1. walk.pc = "loop" /\ Tree(Found) BY DEF Goes, IInv
<1>2. Handed(walk, {"untable", "unpage"}) = {} /\ Handed(walk, {"tables", "pages"}) = Run(walk) BY <1>1 DEF Handed
<1>3. Handed(x, {"untable", "unpage"}) = {} /\ Handed(x, {"tables", "pages"}) = Run(x) BY DEF Handed
<1>4. Run(x) = Run(walk) \cup {NextFrame} BY FreshFrame DEF Run
<1>5. \A f \in Frame : Ref(Found, f) <=> f \in busy \cup Run(walk)
  <2>1. Owned(walk, Found, busy) BY DEF IInv
  <2> QED BY <1>1, <1>2, <2>1 DEF Owned
<1>6. \A f \in Frame : Ref(Changed(Found, l, p, NextFrame), f) <=> f = NextFrame \/ (Ref(Found, f) /\ f # Absent)
  BY <1>1, RefChanged
<1>7. \A f \in Frame : f # Absent BY Consts
<1> QED BY <1>3, <1>4, <1>5, <1>6, <1>7 DEF Owned

(* What adjoins makes a longer run.                                        *)
Lowest(f) == IF walk.used = 0 \/ f + 1 = walk.first THEN f ELSE walk.first

LEMMA WithIs ==
  ASSUME walk \in Walks, NEW f \in Nat, Adjoins(f)
  PROVE  /\ With(f) = [walk EXCEPT !.used = walk.used + 1, !.first = Lowest(f)]
         /\ walk.used + 1 \in Nat /\ Lowest(f) \in Nat
         /\ Lowest(f) .. Lowest(f) + (walk.used + 1) - 1 = Run(walk) \cup {f}
<1>1. walk.used \in Nat /\ walk.first \in Nat BY DEF Walks
<1>2. With(f) = [walk EXCEPT !.used = walk.used + 1, !.first = Lowest(f)] BY DEF With, Walks, Lowest
<1>3. Lowest(f) .. Lowest(f) + (walk.used + 1) - 1 = Run(walk) \cup {f}
  <2> USE DEF Lowest
  <2>1. CASE walk.used = 0 BY <1>1, <2>1 DEF Run
  <2>2. CASE walk.used # 0 /\ f + 1 = walk.first BY <1>1, <2>2 DEF Run
  <2>3. CASE walk.used # 0 /\ f + 1 # walk.first
    <3>1. f = walk.first + walk.used BY <2>3 DEF Adjoins
    <3> QED BY <1>1, <2>3, <3>1 DEF Run
  <2> QED BY <2>1, <2>2, <2>3
<1> QED BY <1>1, <1>2, <1>3 DEF Lowest

(* The frame that has been cleared is collected.                           *)
LEMMA OwnedDropped ==
  ASSUME IInv, walk.pc \in {"loop", "up"}, walk.kind \in {"untable", "unpage"}, NEW l, NEW p, Fits(Found, l, p, Absent),
         NEW x, x.kind = walk.kind, x.pc \in {"loop", "up"}, Run(x) = Run(walk) \cup {Found[l - 1][p]}
  PROVE  Owned(x, Changed(Found, l, p, Absent), busy)
<1>1. Tree(Found) BY DEF IInv
<1>2. Handed(walk, {"untable", "unpage"}) = Run(walk) /\ Handed(walk, {"tables", "pages"}) = {} BY DEF Handed
<1>3. Handed(x, {"untable", "unpage"}) = Run(x) /\ Handed(x, {"tables", "pages"}) = {} BY DEF Handed
<1>5. \A f \in Frame : Ref(Found, f) <=> f \in busy \ Run(walk)
  <2>1. Owned(walk, Found, busy) BY DEF IInv
  <2> QED BY <1>2, <2>1 DEF Owned
<1>6. \A f \in Frame : Ref(Changed(Found, l, p, Absent), f) <=> f = Absent \/ (Ref(Found, f) /\ f # Found[l - 1][p])
  BY <1>1, RefChanged
<1>7. \A f \in Frame : f # Absent BY Consts
<1> QED BY <1>3, <1>5, <1>6, <1>7 DEF Owned

(* A walk that drops tables has passed the entry of one: it is gone, was   *)
(* not there, or is not empty.                                             *)
LEMMA TablePassed ==
  ASSUME IInv, walk.kind = "untable", Request(2), NEW w \in Walks,
         w.kind = walk.kind, w.base = walk.base, w.len = walk.len, w.level = walk.level, w.pc \in {"loop", "up"},
         Front(w) = Beyond(walk), End(w) = End(walk),
         w.pc = "up" => Ahead(w) = Ahead(walk) /\ Beyond(w) = Beyond(walk),
         w.pc = "loop" => /\ Ahead(w) = Beyond(walk) /\ Beyond(walk) \in Pages /\ Beyond(walk) < End(walk)
                          /\ Blk(Beyond(walk), 2 + 1) = Blk(Ahead(walk), 2 + 1),
         NEW G, \A k \in 0 .. MaxLevel, q \in Pages :
                  k # 1 \/ Blk(q, 2) # Blk(Ahead(walk), 2) => G[k][q] = Found[k][q],
         \A q \in Pages : Blk(q, 2) = Blk(Ahead(walk), 2) =>
           G[1][q] = Absent \/ \E r \in Pages : Blk(r, 2) = Blk(q, 2) /\ G[0][r] # Absent
  PROVE  Tidy(G, w, call, unfit) /\ Covered(G, w, call, unfit)
<1> DEFINE h == Ahead(walk)  n == Beyond(walk)
<1>0. walk \in Walks /\ call \in Calls /\ Tree(Found) /\ Tidy(Found, walk, call, unfit) /\ Covered(Found, walk, call, unfit)
  BY DEF IInv, Shape
<1>1. walk.pc = "loop" /\ walk.off < walk.len /\ ReqLevel(walk.kind) = 2 /\ walk.level = 2 /\ walk.pc \in Going
  BY DEF Request, Goes, Going
<1>2. 2 \in Levels /\ 2 \in walk.level .. MaxLevel /\ 2 \in 1 .. MaxLevel + 1 /\ MaxLevel \in Nat BY <1>1, Consts DEF Levels
<1>3. h \in Pages /\ h \in Nat /\ h % Step[2] = 0 /\ Found[2][h] # Absent
  <2>1. Phased(walk, call, unfit) /\ Bounds(walk, call) /\ Placed(walk, Found) BY DEF IInv
  <2>2. h \in Pages /\ h % Step[2] = 0 BY <1>0, <1>1, <2>1, Where
  <2>3. Found[2][h] # Absent BY <1>1, <1>2, Sees
  <2> QED BY <2>2, <2>3, PageNat
<1>4. n = h + Step[2] /\ Step[2] \in Nat /\ Step[2] > 0 /\ n \in Nat /\ End(walk) \in Nat
  BY <1>0, <1>1, <1>3, ReqIs DEF Beyond
<1>5. \A q \in Pages : q \in Nat /\ (Blk(q, 2) = Blk(h, 2) <=> h <= q /\ q < n)
  BY <1>2, <1>3, <1>4, InBlock, PageNat
<1>6. ASSUME NEW k \in 2 .. MaxLevel + 1, NEW q \in Pages, Blk(q, 2) = Blk(h, 2) PROVE Blk(q, k) = Blk(h, k)
  BY <1>2, <1>3, <1>5, <1>6, Coarser
<1>7. Front(walk) = h BY <1>1 DEF Front
<1> HIDE DEF h, n
<1>8. ASSUME ~unfit, NEW k \in 1 .. MaxLevel - 1, NEW p \in Pages
      PROVE  \/ G[k][p] = Absent
             \/ \E q \in Pages : Blk(q, k + 1) = Blk(p, k + 1) /\ G[k - 1][q] # Absent
             \/ Excused(w, call, k, p)
  <2>0. k \in Nat /\ k \in 0 .. MaxLevel /\ k - 1 \in 0 .. MaxLevel /\ k + 1 \in 2 .. MaxLevel + 1 BY <1>2
  <2>1. CASE k >= 2 /\ Blk(p, k + 1) = Blk(h, k + 1)
    <3>1. CASE w.pc = "up"
      <4>1. k >= w.level /\ Blk(Ahead(w), k + 1) = Blk(p, k + 1) BY <1>1, <2>1, <3>1 DEF h
      <4> QED BY <3>1, <4>1 DEF Excused
    <3>2. CASE w.pc = "loop"
      <4>1. n \in Pages /\ n < End(walk) /\ Blk(n, 2 + 1) = Blk(h, 2 + 1) BY <3>2 DEF n, h
      <4>2. 2 + 1 \in 1 .. MaxLevel + 1 /\ k + 1 \in 2 + 1 .. MaxLevel + 1 BY <2>0, <2>1, <1>2, Consts
      <4>3. Blk(n, k + 1) = Blk(h, k + 1) BY <1>3, <1>4, <4>1, <4>2, Coarser
      <4>4. Front(w) <= n /\ n < End(w) BY <1>4, <4>1 DEF n
      <4> QED BY <2>1, <4>1, <4>3, <4>4 DEF Excused
    <3> QED BY <3>1, <3>2
  <2>2. CASE k = 1 /\ Blk(p, k + 1) = Blk(h, k + 1)
    <3>1. k + 1 = 2 /\ k - 1 = 0 BY <2>2
    <3>2. G[1][p] = Absent \/ \E r \in Pages : Blk(r, 2) = Blk(p, 2) /\ G[0][r] # Absent BY <2>2, <3>1 DEF h
    <3> QED BY <2>2, <3>1, <3>2
  <2>3. CASE Blk(p, k + 1) # Blk(h, k + 1)
    <3>1. \A q \in Pages : Blk(q, k + 1) = Blk(p, k + 1) => Blk(q, 2) # Blk(h, 2) BY <1>6, <2>0, <2>3
    <3>2. G[k][p] = Found[k][p] /\ \A q \in Pages : Blk(q, k + 1) = Blk(p, k + 1) => G[k - 1][q] = Found[k - 1][q]
      BY <2>0, <3>1 DEF h
    <3>3. \/ Found[k][p] = Absent
          \/ \E q \in Pages : Blk(q, k + 1) = Blk(p, k + 1) /\ Found[k - 1][q] # Absent
          \/ Excused(walk, call, k, p)
      BY <1>0, <1>8 DEF Tidy
    <3>4. ASSUME Excused(walk, call, k, p) PROVE Excused(w, call, k, p)
      <4>1. PICK q \in Pages : h <= q /\ q < End(walk) /\ Blk(q, k + 1) = Blk(p, k + 1)
        BY <1>1, <1>7, <3>4 DEF Excused
      <4>2. ~(q < n) BY <1>5, <3>1, <4>1
      <4>3. Front(w) <= q /\ q < End(w) BY <1>4, <1>5, <4>1, <4>2 DEF n
      <4> QED BY <4>1, <4>3 DEF Excused
    <3> QED BY <3>2, <3>3, <3>4
  <2> QED BY <2>0, <2>1, <2>2, <2>3
<1>9. Tidy(G, w, call, unfit) BY <1>8 DEF Tidy
<1>10. ASSUME ~unfit PROVE /\ \A p \in Pages : Beyond(w) <= p /\ p < End(w) => G[1][p] # Absent
                           /\ w.pc # "up" => G[2][Ahead(w)] # Absent
  <2>1. \A p \in Pages : n <= p /\ p < End(walk) => Found[1][p] # Absent
    BY <1>0, <1>1, <1>10 DEF Covered, n
  <2>2. 1 \in 0 .. MaxLevel /\ 2 \in 0 .. MaxLevel BY <1>2, Consts
  <2>3. ASSUME NEW p \in Pages, Beyond(w) <= p, p < End(w) PROVE G[1][p] # Absent
    <3>1. n <= p
      <4>1. CASE w.pc = "up" BY <2>3, <4>1 DEF n
      <4>2. CASE w.pc = "loop"
        <5>1. Beyond(w) = n + Step[2] BY <1>1, <4>2 DEF Beyond, n
        <5> QED BY <1>4, <1>5, <2>3, <5>1
      <4> QED BY <4>1, <4>2
    <3>2. Blk(p, 2) # Blk(h, 2) BY <1>4, <1>5, <3>1
    <3> QED BY <2>1, <2>2, <2>3, <3>1, <3>2 DEF h
  <2>4. w.pc = "loop" => G[2][Ahead(w)] # Absent
    <3> SUFFICES ASSUME w.pc = "loop" PROVE G[2][Ahead(w)] # Absent OBVIOUS
    <3>1. n \in Pages /\ Ahead(w) = n /\ Blk(n, 2 + 1) = Blk(h, 2 + 1) BY DEF n, h
    <3>2. Found[2][n] = Found[2][h] BY <1>0, <1>3, <2>2, <3>1, TreeBlock
    <3>3. G[2][n] = Found[2][n] BY <2>2, <3>1
    <3> QED BY <1>3, <3>1, <3>2, <3>3
  <2> QED BY <2>3, <2>4
<1>11. Covered(G, w, call, unfit) BY <1>10 DEF Covered
<1> QED BY <1>9, <1>11

LEMMA PassKeeps ==
  ASSUME IInv, NEW l \in {1, 2}, Pass(l)
  PROVE  IInv'
<1> DEFINE h == Ahead(walk)
<1>0. walk \in Walks /\ call \in Calls /\ Tree(Found) /\ l \in Levels /\ unfit \in BOOLEAN /\ mem \in Memory
  BY Consts DEF IInv, Shape, Levels
<1>1. /\ Request(l) /\ walk.kind \in {"unpage", "unmap", "untable"} /\ ~Wanted /\ walk' = Moved(walk, l)
      /\ walk.pc = "loop" /\ walk.off < walk.len /\ l = ReqLevel(walk.kind) /\ walk.level = l /\ walk.pc \in Going
      /\ UNCHANGED <<mem, readonly, busy, call, grants, unfit>>
  BY DEF Pass, Request, Goes, Going, tables
<1>2. /\ walk' \in Walks /\ walk'.pc \in {"loop", "up"} /\ walk'.pc \in Going
      /\ walk'.kind = walk.kind /\ walk'.base = walk.base /\ walk'.len = walk.len
      /\ walk'.level = walk.level /\ walk'.avail = walk.avail
      /\ walk'.used = walk.used /\ walk'.first = walk.first
      /\ Front(walk') = Beyond(walk) /\ End(walk') = End(walk)
      /\ Ahead(walk') % Step[ReqLevel(walk.kind)] = 0
      /\ walk'.pc = "up" => Ahead(walk') = h /\ Beyond(walk') = Beyond(walk)
      /\ walk'.pc = "loop" =>
           /\ Ahead(walk') = Beyond(walk) /\ Beyond(walk) \in Pages
           /\ Blk(Beyond(walk), l + 1) = Blk(h, l + 1)
           /\ walk.kind = "untable" => Beyond(walk) < End(walk)
      /\ \A G : Tree(G) /\ (\A k \in l .. MaxLevel, q \in Pages : G[k][q] = Found[k][q]) => Placed(walk', G)
  BY <1>0, <1>1, MovedWalk
<1>3. Found' = Found BY <1>1, FoundSame
<1>4. /\ l \in walk.level .. MaxLevel /\ h \in Pages /\ Entry(l) = Found[l - 1][h] /\ Found[l][h] # Absent /\ Here = h
  <2>1. l \in walk.level .. MaxLevel BY <1>0, <1>1, Consts
  <2> QED BY <1>1, <2>1, Sees
<1>5. Placed(walk', Found) BY <1>0, <1>2
<1>6. Supplied(walk', busy) BY <1>1, <1>2 DEF Supplied
<1>7. Owned(walk', Found, busy)
  <2>1. Run(walk') = Run(walk) BY <1>2 DEF Run
  <2>2. \A k : Handed(walk', k) = Handed(walk, k) BY <1>1, <1>2, <2>1 DEF Handed
  <2>3. Owned(walk, Found, busy) BY DEF IInv
  <2> QED BY <1>1, <1>2, <2>2, <2>3 DEF Owned
<1>8. Changing(Found, readonly, walk', call)
  <2>1. Changing(Found, readonly, walk, call) BY DEF IInv
  <2>2. CASE walk.kind = "untable" BY <1>2, <2>1, <2>2 DEF Changing
  <2>3. CASE walk.kind \in {"unpage", "unmap"}
    <3>1. Beyond(walk) = h + 1 /\ h \in Nat BY <1>1, <1>4, <2>3, InCall, PageNat
    <3>2. Found[0][h] = Absent
      <4>1. l = 1 BY <1>1, <2>3 DEF ReqLevel
      <4> QED BY <1>1, <1>4, <2>3, <4>1 DEF Wanted
    <3>3. Front(walk) = h BY <1>1 DEF Front
    <3>4. ASSUME NEW p \in PagesOf(call), p < Front(walk') \/ p >= End(walk') PROVE Found[0][p] = Absent
      <4>1. p \in Nat BY <1>0 DEF PagesOf, Calls
      <4>2. p = h \/ p < h \/ p >= End(walk) BY <1>2, <3>1, <3>4, <4>1
      <4> QED BY <2>1, <2>3, <3>2, <3>3, <4>2 DEF Changing
    <3> QED BY <1>2, <2>1, <2>3, <3>4 DEF Changing
  <2> QED BY <1>1, <2>2, <2>3
<1>9. Covered(Found, walk', call, unfit) /\ Tidy(Found, walk', call, unfit)
  <2>1. CASE walk.kind \in {"unpage", "unmap"}
    <3>1. Covered(Found, walk, call, unfit) /\ Tidy(Found, walk, call, unfit) BY DEF IInv
    <3>2. Covered(Found, walk', call, unfit) BY <1>2, <2>1, <3>1 DEF Covered
    <3> QED BY <1>2, <2>1, <3>1, <3>2, TidySame
  <2>2. CASE walk.kind = "untable"
    <3>1. l = 2 /\ l - 1 = 1 /\ 1 \in Levels /\ 2 \in Levels /\ l + 1 = 2 + 1 /\ 1 \in 0 .. MaxLevel
      BY <1>1, <2>2, Consts DEF ReqLevel, Levels
    <3>2. \A q \in Pages : Blk(q, 2) = Blk(h, 2) => Found[2 - 1][q] = Found[2 - 1][h] BY <1>0, <1>4, <3>1, TreeBlock
    <3>3. Found[1][h] = Absent \/ \E r \in Pages : Blk(r, 2) = Blk(h, 2) /\ Found[0][r] # Absent
      <4> SUFFICES ASSUME Found[1][h] # Absent PROVE \E r \in Pages : Blk(r, 2) = Blk(h, 2) /\ Found[0][r] # Absent OBVIOUS
      <4>1. Found[1][h] \in Frame \cup {Root} BY <1>0, <1>4, <3>1, TableIs
      <4>2. mem[Found[1][h]] \in [Index -> Nat] BY <1>0, <4>1 DEF Memory
      <4>3. mem[Found[1][h]] # Clear BY <1>1, <1>4, <2>2, <3>1 DEF Wanted, Empty
      <4>4. mem[Found[1][h]] = Clear <=> \A q \in Pages : Blk(q, 1 + 1) = Blk(h, 1 + 1) => Found[1 - 1][q] = Absent
        BY <1>0, <1>4, <3>1, <4>2, FoundIs, EmptyIs
      <4>5. \E q \in Pages : Blk(q, 1 + 1) = Blk(h, 1 + 1) /\ Found[1 - 1][q] # Absent BY <4>3, <4>4
      <4> QED BY <4>5
    <3>4. \A q \in Pages : Blk(q, 2) = Blk(h, 2) =>
             Found[1][q] = Absent \/ \E r \in Pages : Blk(r, 2) = Blk(q, 2) /\ Found[0][r] # Absent
      BY <3>2, <3>3
    <3> QED BY <1>1, <1>2, <2>2, <3>1, <3>4, TablePassed
  <2> QED BY <1>1, <2>1, <2>2
<1>10. Sound(walk', call, unfit) BY <1>2 DEF Sound
<1>11. ReadOnly(Found, readonly) /\ Held(Found, readonly, call, grants) BY DEF IInv
<1> QED BY <1>0, <1>1, <1>2, <1>3, <1>5, <1>6, <1>7, <1>8, <1>9, <1>10, <1>11, Goes_On

-------------------------------------------------------------------------------
(* The steps that fill or clear an entry.                                  *)

LEMMA ProtectKeeps ==
  ASSUME IInv, Protect
  PROVE  IInv'
<1> DEFINE h == Ahead(walk)  e == <<Found[1][h], IndexOf(h, 1)>>
<1>0. walk \in Walks /\ call \in Calls /\ Tree(Found) /\ 1 \in Levels /\ unfit \in BOOLEAN /\ mem \in Memory
  BY Consts DEF IInv, Shape, Levels
<1>1. /\ Request(1) /\ walk.kind = "attr" /\ walk' = Moved(walk, 1)
      /\ walk.pc = "loop" /\ walk.off < walk.len /\ ReqLevel(walk.kind) = 1 /\ walk.level = 1 /\ walk.pc \in Going
      /\ readonly' = (IF Entry(1) # Absent THEN readonly \cup {<<Table(1), IndexOf(Here, 1)>>} ELSE readonly)
      /\ UNCHANGED <<mem, busy, call, grants, unfit>>
  BY DEF Protect, Request, Goes, Going
<1>2. /\ walk' \in Walks /\ walk'.pc \in {"loop", "up"} /\ walk'.pc \in Going
      /\ walk'.kind = walk.kind /\ walk'.base = walk.base /\ walk'.len = walk.len
      /\ walk'.used = walk.used /\ walk'.first = walk.first
      /\ Front(walk') = Beyond(walk) /\ End(walk') = End(walk)
      /\ Ahead(walk') % Step[ReqLevel(walk.kind)] = 0
      /\ \A G : Tree(G) /\ (\A k \in 1 .. MaxLevel, q \in Pages : G[k][q] = Found[k][q]) => Placed(walk', G)
  BY <1>0, <1>1, MovedWalk
<1>3. Found' = Found BY <1>1, FoundSame
<1>4. h \in Pages /\ Entry(1) = Found[0][h] /\ Found[1][h] # Absent /\ Table(1) = Found[1][h] /\ Here = h
  <2>1. 1 \in walk.level .. MaxLevel /\ 1 - 1 = 0 BY <1>1, Consts
  <2> QED BY <1>1, <2>1, Sees
<1>5. h \in PagesOf(call) /\ Beyond(walk) = h + 1 /\ h \in Nat BY <1>1, <1>4, InCall, PageNat
<1>6. call.kind = "attr"
  <2>1. Phased(walk, call, unfit) BY DEF IInv
  <2>2. <<call.kind, call.stage, walk.kind>> \in Phases BY <1>1, <2>1 DEF Phased, NoWalk
  <2> QED BY <1>1, <2>2 DEF Phases
<1>7. Apart(call, grants) /\ Held(Found, readonly, call, grants) /\ ReadOnly(Found, readonly) /\ Changing(Found, readonly, walk, call)
      /\ Covered(Found, walk, call, unfit) /\ Tidy(Found, walk, call, unfit) /\ Owned(walk, Found, busy)
  BY DEF IInv
<1>8. Found[0][h] # Absent
  <2>1. PICK g \in grants : g.kind = "alloc" /\ PagesOf(call) \subseteq g.readonly BY <1>6, <1>7 DEF Apart
  <2>2. h \in PagesOf(g) BY <1>5, <1>7, <2>1 DEF Apart
  <2>3. Found[0][h] \in Frame BY <1>7, <2>1, <2>2 DEF Held
  <2> QED BY <2>3, Consts
<1>9. readonly' = readonly \cup {e} BY <1>1, <1>4, <1>8
<1> HIDE DEF h
<1>10. \A p \in Pages : Marked(Found, readonly', p) <=> Marked(Found, readonly, p) \/ p = h
  <2> TAKE p \in Pages
  <2>1. <<Found[1][p], IndexOf(p, 1)>> = e => p = h BY <1>0, <1>4, OnePage
  <2> QED BY <1>9, <2>1 DEF Marked
<1>11. Placed(walk', Found) BY <1>0, <1>2
<1>12. Supplied(walk', busy) BY <1>1, <1>2 DEF Supplied
<1>13. Owned(walk', Found, busy)
  <2>1. \A k : Handed(walk', k) = IF "attr" \in k THEN Run(walk) ELSE {} BY <1>1, <1>2 DEF Handed, Run
  <2>2. \A k : Handed(walk, k) = IF "attr" \in k THEN Run(walk) ELSE {} BY <1>1 DEF Handed
  <2> QED BY <1>1, <1>2, <1>7, <2>1, <2>2 DEF Owned
<1>14. ReadOnly(Found, readonly') BY <1>4, <1>7, <1>8, <1>9 DEF ReadOnly
<1>15. Held(Found, readonly', call, grants)
  <2>1. \A g \in grants : \A p \in PagesOf(g) : p \in Pages BY <1>7 DEF Apart
  <2>2. \A p \in Pages : p \notin PagesOf(call) => (Marked(Found, readonly', p) <=> Marked(Found, readonly, p))
    BY <1>5, <1>10
  <2>3. \A g \in grants : \A p \in PagesOf(g) : p \notin PagesOf(call) => (Marked(Found, readonly', p) <=> p \in g.readonly)
    BY <1>7, <2>1, <2>2 DEF Held
  <2>4. \A g \in grants : \A p \in PagesOf(g) :
          IF g.kind = "map" THEN Found[0][p] = Device + p - g.base ELSE Found[0][p] \in Frame
    BY <1>7 DEF Held
  <2>5. \A p \in Pages : p \notin UsedBy(grants) \cup PagesOf(call) => Found[0][p] = Absent BY <1>7 DEF Held
  <2> QED BY <2>3, <2>4, <2>5 DEF Held
<1>16. Changing(Found, readonly', walk', call)
  <2>1. Front(walk) = h BY <1>1 DEF Front, h
  <2>2. ASSUME NEW p \in PagesOf(call), p < Front(walk') PROVE Marked(Found, readonly', p)
    <3>1. p \in Nat /\ p \in Pages
      <4>1. Bounds(walk, call) BY DEF IInv
      <4>2. PagesOf(call) \subseteq Pages BY <1>0, <1>6, <4>1, CallPages
      <4> QED BY <4>2, PageNat
    <3>2. p = h \/ p < h BY <1>2, <1>5, <2>2, <3>1
    <3>3. p < h => Marked(Found, readonly, p) BY <1>1, <1>7, <2>1 DEF Changing
    <3> QED BY <1>10, <3>1, <3>2, <3>3
  <2> QED BY <1>1, <1>2, <1>6, <1>7, <2>2 DEF Changing
<1>17. Covered(Found, walk', call, unfit) BY <1>1, <1>2 DEF Covered
<1>18. Tidy(Found, walk', call, unfit) BY <1>1, <1>2, <1>7, TidySame
<1>19. Sound(walk', call, unfit) BY <1>2 DEF Sound
<1> QED BY <1>0, <1>1, <1>2, <1>3, <1>11, <1>12, <1>13, <1>14, <1>15, <1>16, <1>17, <1>18, <1>19, Goes_On

LEMMA BuildKeeps ==
  ASSUME IInv, Build
  PROVE  IInv'
<1> DEFINE h == Ahead(walk)
<1>0. walk \in Walks /\ call \in Calls /\ Tree(Found) /\ 2 \in Levels /\ unfit \in BOOLEAN /\ mem \in Memory /\ grants \in SUBSET Shares
  BY Consts DEF IInv, Shape, Levels
<1>1. /\ Request(2) /\ walk.kind = "tables" /\ Goes
      /\ walk.pc = "loop" /\ walk.off < walk.len /\ ReqLevel(walk.kind) = 2 /\ walk.level = 2 /\ walk.pc \in Going
      /\ IF Entry(2) = Absent THEN mem' = NewTable(2) /\ walk' = Moved([walk EXCEPT !.used = @ + 1], 2)
                              ELSE mem' = mem /\ walk' = Moved(walk, 2)
      /\ UNCHANGED <<readonly, busy, call, grants, unfit>>
  BY DEF Build, Request, Goes, Going, ReqLevel
<1> DEFINE u == IF Entry(2) = Absent THEN walk.used + 1 ELSE walk.used
           w == [walk EXCEPT !.used = u]
<1>2. w \in Walks /\ walk' = Moved(w, 2) /\ w.used = u /\ w.first = walk.first /\ w.pc = walk.pc /\ w.kind = walk.kind
      /\ w.base = walk.base /\ w.len = walk.len /\ w.off = walk.off
      /\ w.level = walk.level /\ w.window = walk.window /\ w.avail = walk.avail /\ w.st = walk.st
  <2>1. walk.used \in Nat /\ u \in Nat BY <1>0 DEF Walks
  <2>2. Entry(2) # Absent => w = walk BY <1>0 DEF Walks
  <2>3. walk' = Moved(w, 2) BY <1>1, <2>2
  <2> HIDE DEF u
  <2> QED BY <1>0, <2>1, <2>3 DEF Walks
<1> HIDE DEF w, u
<1>3. /\ walk' \in Walks /\ walk'.pc \in {"loop", "up"} /\ walk'.pc \in Going
      /\ walk'.kind = walk.kind /\ walk'.base = walk.base /\ walk'.len = walk.len
      /\ walk'.avail = walk.avail /\ walk'.used = u /\ walk'.first = walk.first
      /\ Front(walk') = Beyond(walk) /\ End(walk') = End(walk)
      /\ Ahead(walk') % Step[ReqLevel(walk.kind)] = 0
      /\ \A G : Tree(G) /\ (\A k \in 2 .. MaxLevel, q \in Pages : G[k][q] = Found[k][q]) => Placed(walk', G)
  BY <1>0, <1>1, <1>2, MovedWalk
<1>4. /\ h \in Pages /\ Entry(2) = Found[1][h] /\ Found[2][h] # Absent /\ Table(2) = Found[2][h] /\ Here = h
      /\ 2 - 1 = 1 /\ h \in Nat
  <2>1. 2 \in walk.level .. MaxLevel /\ 2 - 1 = 1 BY <1>1, Consts
  <2> QED BY <1>1, <2>1, Sees, PageNat
<1>5. /\ Apart(call, grants) /\ Held(Found, readonly, call, grants) /\ ReadOnly(Found, readonly) /\ Changing(Found, readonly, walk, call)
      /\ Covered(Found, walk, call, unfit) /\ Tidy(Found, walk, call, unfit) /\ Owned(walk, Found, busy) /\ Supplied(walk, busy)
      /\ Phased(walk, call, unfit) /\ Bounds(walk, call) /\ Placed(walk, Found)
  BY DEF IInv
<1>6. call.kind \notin {"none", "attr"}
  <2>1. <<call.kind, call.stage, walk.kind>> \in Phases BY <1>1, <1>5 DEF Phased, NoWalk
  <2> QED BY <1>1, <2>1 DEF Phases
<1>7. PagesOf(call) \subseteq Pages BY <1>0, <1>5, <1>6, CallPages
<1>8. h % Step[2] = 0 /\ Beyond(walk) = h + Step[2] /\ Front(walk) = h
  <2>1. h % Step[2] = 0 BY <1>0, <1>1, <1>5, Where
  <2> QED BY <1>1, <2>1 DEF Beyond, Front
<1>9. NextFrame \in Frame /\ ~Ref(Found, NextFrame) /\ walk.used + 1 <= walk.avail BY <1>1, FreshFrame
<1>10. walk.used \in Nat /\ walk.avail \in Nat /\ walk.base \in Nat BY <1>0 DEF Walks
<1>11. Supplied(walk', busy)
  <2>1. u \in Nat /\ u <= walk.avail BY <1>1, <1>5, <1>9, <1>10 DEF u, Supplied
  <2> QED BY <1>1, <1>3, <1>5, <2>1 DEF Supplied
<1>12. Sound(walk', call, unfit) BY <1>3 DEF Sound
<1>13. ASSUME NEW G, G[1][h] # Absent,
              \A q \in Pages : G[1][q] = Found[1][q] \/ G[1][q] = G[1][h],
              \A q \in Pages : Blk(q, 2) = Blk(h, 2) => G[1][q] = G[1][h]
       PROVE  Covered(G, walk', call, unfit)
  <2>1. ASSUME NEW p \in Pages, walk.base <= p, p < Beyond(walk) PROVE G[1][p] # Absent
    <3>1. p \in Nat BY PageNat
    <3>2. CASE p < h
      <4>1. Found[1][p] # Absent BY <1>1, <1>5, <1>8, <2>1, <3>2 DEF Covered
      <4> QED BY <1>13, <4>1
    <3>3. CASE ~(p < h)
      <4>1. h <= p /\ p < h + Step[2] BY <1>4, <1>8, <2>1, <3>1, <3>3
      <4>2. Blk(p, 2) = Blk(h, 2) BY <1>0, <1>4, <1>8, <3>1, <4>1, InBlock
      <4> QED BY <1>13, <4>2
    <3> QED BY <3>2, <3>3
  <2> QED BY <1>1, <1>3, <2>1 DEF Covered
<1>14. CASE Entry(2) = Absent
  <2>1. /\ mem' = [mem EXCEPT ![Found[2][h]][IndexOf(h, 2)] = NextFrame, ![NextFrame] = Clear]
        /\ Found[2 - 1][h] = Absent /\ 2 > 1
    BY <1>1, <1>4, <1>14 DEF NewTable
  <2>2. mem' \in Memory /\ Fits(Found, 2, h, NextFrame) /\ Found' = Changed(Found, 2, h, NextFrame)
    <3>1. Adds(mem, Found, 2, h, NextFrame, mem', Found')
      BY <1>0, <1>4, <1>9, <2>1, FoundIs, FoundNext DEF Adds
    <3> QED BY <3>1, TableAdded
  <2>3. Tree(Found') BY <1>0, <2>2, TreeChanged
  <2>4. \A k \in 0 .. MaxLevel, q \in Pages : Found'[k][q] = IF k = 1 /\ Blk(q, 2) = Blk(h, 2) THEN NextFrame ELSE Found[k][q]
    BY <1>4, <2>2, ChangedIs
  <2>5. Placed(walk', Found')
    <3>1. \A k \in 2 .. MaxLevel, q \in Pages : Found'[k][q] = Found[k][q]
      <4>1. \A k \in 2 .. MaxLevel : k \in 0 .. MaxLevel /\ k # 1 BY Consts
      <4> QED BY <2>4, <4>1
    <3> QED BY <1>3, <2>3, <3>1
  <2>6. Owned(walk', Found', busy)
    <3>1. u = walk.used + 1 BY <1>14 DEF u
    <3> QED BY <1>1, <1>3, <2>1, <2>2, <3>1, OwnedTaken
  <2>7. ReadOnly(Found', readonly) /\ Held(Found', readonly, call, grants) /\ Changing(Found', readonly, walk', call)
    <3>1. readonly \in {readonly, readonly \ {<<Found[2][h], IndexOf(h, 2)>>}} OBVIOUS
    <3>2. LET G == Changed(Found, 2, h, NextFrame) IN
          ReadOnly(G, readonly) /\ Held(G, readonly, call, grants) /\ Changing(G, readonly, walk', call)
      BY <1>0, <1>1, <1>3, <1>5, <1>7, <2>1, <2>2, <3>1, PagesStill
    <3> QED BY <2>2, <3>2
  <2>8. Covered(Found', walk', call, unfit)
    <3>1. 1 \in 0 .. MaxLevel /\ NextFrame # Absent BY <1>9, Consts
    <3>2. Found'[1][h] = NextFrame BY <1>4, <2>4, <3>1
    <3>3. \A q \in Pages : Found'[1][q] = Found[1][q] \/ Found'[1][q] = Found'[1][h] BY <2>4, <3>1, <3>2
    <3>4. \A q \in Pages : Blk(q, 2) = Blk(h, 2) => Found'[1][q] = Found'[1][h] BY <2>4, <3>1, <3>2
    <3> QED BY <1>13, <3>1, <3>2, <3>3, <3>4
  <2>9. Tidy(Found', walk', call, unfit)
    <3>1. 2 \in ReqLevel(walk.kind) .. MaxLevel + 1 BY <1>1, Consts
    <3>2. \E q \in PagesOf(call) : q \in Pages /\ Blk(q, 2) = Blk(h, 2) BY <1>1, <3>1, InCallBlock
    <3> QED BY <1>0, <1>1, <1>3, <1>5, <1>6, <2>2, <3>2, TidyKept
  <2> QED BY <1>0, <1>1, <1>3, <1>11, <1>12, <2>2, <2>3, <2>5, <2>6, <2>7, <2>8, <2>9, Goes_On
<1>15. CASE Entry(2) # Absent
  <2>1. mem' = mem /\ u = walk.used BY <1>1, <1>15 DEF u
  <2>2. Found' = Found BY <2>1, FoundSame
  <2>3. Placed(walk', Found) BY <1>0, <1>3
  <2>4. Owned(walk', Found, busy)
    <3>1. Run(walk') = Run(walk) BY <1>3, <2>1 DEF Run
    <3>2. \A k : Handed(walk', k) = Handed(walk, k) BY <1>1, <1>3, <3>1 DEF Handed
    <3> QED BY <1>1, <1>3, <1>5, <3>2 DEF Owned
  <2>5. Changing(Found, readonly, walk', call) BY <1>1, <1>3, <1>5 DEF Changing
  <2>6. Covered(Found, walk', call, unfit)
    <3>1. \A q \in Pages : Blk(q, 2) = Blk(h, 2) => Found[2 - 1][q] = Found[2 - 1][h] BY <1>0, <1>4, TreeBlock
    <3> QED BY <1>4, <1>13, <1>15, <3>1
  <2>7. Tidy(Found, walk', call, unfit) BY <1>1, <1>3, <1>5, TidySame
  <2> QED BY <1>0, <1>1, <1>3, <1>5, <1>11, <1>12, <2>1, <2>2, <2>3, <2>4, <2>5, <2>6, <2>7, Goes_On
<1> QED BY <1>14, <1>15

(* A new table on the way down.                                            *)
LEMMA AddKeeps ==
  ASSUME IInv, Goes, NEW l, l = walk.level, l > 2, walk.kind = "tables", Entry(l) = Absent,
         mem' = NewTable(l), NEW k, k = l - 1, NEW f, f = NextFrame, NEW u, u = walk.used + 1,
         walk' = [walk EXCEPT !.level = k, !.window = [walk.window EXCEPT ![k] = f], !.used = u],
         UNCHANGED <<readonly, busy, call, grants, unfit>>
  PROVE  IInv'
<1> DEFINE h == Ahead(walk)
<1>0. walk \in Walks /\ call \in Calls /\ Tree(Found) /\ unfit \in BOOLEAN /\ mem \in Memory /\ grants \in SUBSET Shares
  BY DEF IInv, Shape
<1>1. walk.pc = "loop" /\ walk.off < walk.len /\ walk.pc \in Going /\ ReqLevel(walk.kind) = 2
  BY DEF Goes, Going, ReqLevel
<1>2. l \in Levels /\ l \in Nat /\ MaxLevel \in Nat /\ l <= MaxLevel /\ k \in Levels /\ k \in 0 .. MaxLevel /\ k >= 2
      /\ l \in walk.level .. MaxLevel /\ l \in 2 .. MaxLevel + 1
  <2>1. walk.level \in Levels BY <1>0 DEF Walks
  <2> QED BY <2>1, Consts DEF Levels
<1>3. /\ h \in Pages /\ h \in Nat /\ Entry(l) = Found[k][h] /\ Found[l][h] # Absent /\ Table(l) = Found[l][h] /\ Here = h
  BY <1>1, <1>2, Sees, PageNat
<1>4. f \in Frame /\ ~Ref(Found, f) /\ u \in Nat /\ u <= walk.avail /\ f \in Nat /\ f # Absent
  BY <1>1, FreshFrame, Consts
<1>5. /\ walk'.kind = walk.kind /\ walk'.base = walk.base /\ walk'.len = walk.len /\ walk'.off = walk.off
      /\ walk'.pc = "loop" /\ walk'.level = k /\ walk'.avail = walk.avail /\ walk'.st = walk.st
      /\ walk'.used = u /\ walk'.first = walk.first /\ walk'.window = [walk.window EXCEPT ![k] = f]
      /\ walk' \in Walks
  <2> DEFINE v == [walk.window EXCEPT ![k] = f]
  <2>1. v \in [Levels -> Nat] BY <1>0, <1>4 DEF Walks
  <2>2. walk' = [walk EXCEPT !.level = k, !.window = v, !.used = u] OBVIOUS
  <2> HIDE DEF v
  <2>3. /\ walk'.kind = walk.kind /\ walk'.base = walk.base /\ walk'.len = walk.len /\ walk'.off = walk.off
        /\ walk'.pc = walk.pc /\ walk'.level = k /\ walk'.avail = walk.avail /\ walk'.st = walk.st
        /\ walk'.used = u /\ walk'.first = walk.first /\ walk'.window = v
        /\ walk' \in Walks
    BY <1>0, <1>2, <1>4, <2>1, <2>2 DEF Walks
  <2> QED BY <1>1, <2>3 DEF v
<1>6. Ahead(walk') = h /\ Beyond(walk') = Beyond(walk) /\ Front(walk') = h /\ Front(walk) = h /\ End(walk') = End(walk)
  BY <1>1, <1>5 DEF Ahead, Beyond, Front, End
<1>7. /\ Apart(call, grants) /\ Held(Found, readonly, call, grants) /\ ReadOnly(Found, readonly) /\ Changing(Found, readonly, walk, call)
      /\ Covered(Found, walk, call, unfit) /\ Tidy(Found, walk, call, unfit) /\ Supplied(walk, busy)
      /\ Phased(walk, call, unfit) /\ Bounds(walk, call) /\ Placed(walk, Found)
  BY DEF IInv
<1>8. call.kind \notin {"none", "attr"} /\ h % Step[ReqLevel(walk.kind)] = 0
  <2>1. <<call.kind, call.stage, walk.kind>> \in Phases BY <1>1, <1>7 DEF Phased, NoWalk
  <2> QED BY <1>0, <1>1, <1>7, <2>1, Where DEF Phases
<1>9. PagesOf(call) \subseteq Pages BY <1>0, <1>7, <1>8, CallPages
<1>10. mem' \in Memory /\ Fits(Found, l, h, f) /\ Found' = Changed(Found, l, h, f)
  <2>1. /\ mem' = [mem EXCEPT ![Found[l][h]][IndexOf(h, l)] = f, ![f] = Clear]
        /\ Found[l - 1][h] = Absent /\ l > 1
    BY <1>2, <1>3 DEF NewTable
  <2>2. Adds(mem, Found, l, h, f, mem', Found') BY <1>0, <1>2, <1>3, <1>4, <2>1, FoundIs, FoundNext DEF Adds
  <2> QED BY <2>2, TableAdded
<1>11. Tree(Found') BY <1>0, <1>10, TreeChanged
<1>12. \A j \in 0 .. MaxLevel, q \in Pages : Found'[j][q] = IF j = k /\ Blk(q, l) = Blk(h, l) THEN f ELSE Found[j][q]
  BY <1>10, ChangedIs
<1>13. Placed(walk', Found')
  <2>1. \A j \in k .. MaxLevel : walk'.window[j] = Found'[j][h] /\ walk'.window[j] # Absent
    <3> TAKE j \in k .. MaxLevel
    <3>0. walk.window \in [Levels -> Nat] /\ j \in Levels /\ j \in 0 .. MaxLevel BY SMTT(30), <1>0, <1>2 DEF Walks, Levels
    <3>1. CASE j = k BY <1>2, <1>3, <1>4, <1>5, <1>12, <3>0, <3>1
    <3>2. CASE j # k
      <4>1. j \in l .. MaxLevel BY <1>2, <3>2
      <4>2. walk.window[j] = Found[j][h] /\ walk.window[j] # Absent BY <1>1, <1>7, <4>1 DEF Placed
      <4> QED BY <1>3, <1>5, <1>12, <3>0, <3>2, <4>2
    <3> QED BY <3>1, <3>2
  <2>2. walk.len # 0
    <3>1. walk.len \in Nat /\ walk.off \in Nat BY <1>0 DEF Walks
    <3> QED BY <1>1, <3>1
  <2> QED BY <1>1, <1>2, <1>5, <1>6, <2>1, <2>2 DEF Placed
<1>14. Supplied(walk', busy) BY <1>1, <1>4, <1>5, <1>7 DEF Supplied
<1>15. Owned(walk', Found', busy) BY <1>1, <1>3, <1>5, <1>10, OwnedTaken
<1>16. ReadOnly(Found', readonly) /\ Held(Found', readonly, call, grants) /\ Changing(Found', readonly, walk', call)
  <2>1. readonly \in {readonly, readonly \ {<<Found[l][h], IndexOf(h, l)>>}} /\ l > 1 BY <1>2
  <2>2. LET G == Changed(Found, l, h, f) IN
        ReadOnly(G, readonly) /\ Held(G, readonly, call, grants) /\ Changing(G, readonly, walk', call)
    BY <1>0, <1>5, <1>7, <1>9, <1>10, <2>1, PagesStill
  <2> QED BY <1>10, <2>2
<1>17. Covered(Found', walk', call, unfit)
  <2>1. 1 \in 0 .. MaxLevel /\ 1 # k BY <1>2, Consts
  <2>2. \A q \in Pages : Found'[1][q] = Found[1][q] BY <1>12, <2>1
  <2> QED BY <1>5, <1>6, <1>7, <2>2 DEF Covered
<1>18. Tidy(Found', walk', call, unfit)
  <2>1. \E q \in PagesOf(call) : q \in Pages /\ Blk(q, l) = Blk(h, l) BY <1>1, <1>2, InCallBlock
  <2> QED BY <1>0, <1>5, <1>7, <1>8, <1>10, <2>1, TidyKept
<1>19. Sound(walk', call, unfit) BY <1>5 DEF Sound
<1> QED BY <1>0, <1>1, <1>5, <1>6, <1>8, <1>10, <1>11, <1>13, <1>14, <1>15, <1>16, <1>17, <1>18, <1>19, Goes_On DEF Going

LEMMA DescendKeeps ==
  ASSUME IInv, Descend
  PROVE  IInv'
<1>0. walk \in Walks BY DEF IInv, Shape
<1> DEFINE l == walk.level
<1>1. /\ Goes /\ l > ReqLevel(walk.kind) /\ UNCHANGED <<readonly, busy, call, grants, unfit>>
      /\ \/ /\ Entry(l) # Absent /\ mem' = mem
            /\ walk' = [walk EXCEPT !.level = l - 1, !.window[l - 1] = Entry(l)]
         \/ /\ Entry(l) = Absent /\ walk.kind = "tables" /\ mem' = NewTable(l)
            /\ walk' = [[walk EXCEPT !.level = l - 1, !.window[l - 1] = NextFrame] EXCEPT !.used = @ + 1]
  BY DEF Descend
<1>2. CASE Entry(l) # Absent BY <1>1, <1>2, DownKeeps
<1>3. CASE Entry(l) = Absent
  <2>1. walk.kind = "tables" /\ mem' = NewTable(l) BY <1>1, <1>3
  <2>2. l > 2 BY <1>1, <2>1 DEF ReqLevel
  <2> DEFINE k == l - 1  f == NextFrame  u == walk.used + 1
  <2>3. walk' = [[walk EXCEPT !.level = k, !.window[k] = f] EXCEPT !.used = @ + 1] BY <1>1, <1>3
  <2>4. walk' = [walk EXCEPT !.level = k, !.window = [walk.window EXCEPT ![k] = f], !.used = u]
    <3> HIDE DEF k, f
    <3> QED BY <1>0, <2>3 DEF Walks
  <2> QED BY <1>1, <1>3, <2>1, <2>2, <2>4, AddKeeps
<1> QED BY <1>2, <1>3

(* The entry of one page changes, from or to absent, in a range that is    *)
(* under way and apart from the others.                                    *)
Turns(F, h, v, ro, so, c, gs) ==
  /\ Tree(F) /\ h \in Pages /\ Fits(F, 1, h, v)
  /\ so = ro \/ so = ro \ {<<F[1][h], IndexOf(h, 1)>>}
  /\ F[0][h] = Absent \/ <<F[1][h], IndexOf(h, 1)>> \notin so
  /\ c.kind \notin {"none", "attr"} /\ h \in PagesOf(c)
  /\ ReadOnly(F, ro) /\ Apart(c, gs) /\ Held(F, ro, c, gs)

LEMMA PageChanged ==
  ASSUME NEW F, NEW h, NEW v, NEW ro, NEW so, NEW c, NEW gs, Turns(F, h, v, ro, so, c, gs),
         NEW G, G = Changed(F, 1, h, v)
  PROVE  /\ ReadOnly(G, so) /\ Held(G, so, c, gs)
         /\ \A k \in 0 .. MaxLevel, q \in Pages : G[k][q] = IF k = 0 /\ q = h THEN v ELSE F[k][q]
         /\ \A q \in Pages : Marked(G, so, q) => Marked(F, ro, q)
<1> USE DEF Turns
<1> DEFINE e == <<F[1][h], IndexOf(h, 1)>>
<1>0. 0 \in 0 .. MaxLevel /\ 1 \in 0 .. MaxLevel /\ 1 - 1 = 0 /\ h \in Nat /\ F[1][h] # Absent BY Consts, PageNat DEF Fits
<1>1. \A k \in 0 .. MaxLevel, q \in Pages : G[k][q] = IF k = 0 /\ q = h THEN v ELSE F[k][q]
  <2>1. \A q \in Pages : q \in Nat /\ (Blk(q, 1) = Blk(h, 1) <=> q = h) BY <1>0, PageNat, BlkOne
  <2> QED BY <1>0, <2>1, ChangedIs
<1>2. \A q \in Pages : q # h => G[0][q] = F[0][q] /\ G[1][q] = F[1][q] BY <1>0, <1>1
<1>3. \A q \in Pages : <<F[1][q], IndexOf(q, 1)>> = e => q = h BY <1>0, OnePage
<1>4. \A q \in Pages : q # h => (Marked(G, so, q) <=> Marked(F, ro, q)) BY <1>2, <1>3 DEF Marked
<1>5. ReadOnly(G, so)
  <2>1. ASSUME NEW x \in so PROVE \E q \in Pages : G[0][q] # Absent /\ x = <<G[1][q], IndexOf(q, 1)>>
    <3>1. PICK q \in Pages : F[0][q] # Absent /\ x = <<F[1][q], IndexOf(q, 1)>> BY <2>1 DEF ReadOnly
    <3>2. q # h BY <2>1, <3>1
    <3> QED BY <1>2, <3>1, <3>2
  <2> QED BY <2>1 DEF ReadOnly
<1>6. h \notin UsedBy(gs) BY DEF Apart
<1>7. Held(G, so, c, gs)
  <2>1. ASSUME NEW q \in Pages, q \notin UsedBy(gs) \cup PagesOf(c) PROVE G[0][q] = Absent
    <3>1. q # h BY <2>1
    <3> QED BY <1>2, <2>1, <3>1 DEF Held
  <2>2. ASSUME NEW g \in gs, NEW q \in PagesOf(g)
        PROVE /\ IF g.kind = "map" THEN G[0][q] = Device + q - g.base ELSE G[0][q] \in Frame
              /\ q \notin PagesOf(c) => (Marked(G, so, q) <=> q \in g.readonly)
    <3>1. q \in Pages /\ q # h BY <1>6 DEF Apart, UsedBy
    <3> QED BY <1>2, <1>4, <3>1 DEF Held
  <2> QED BY <2>1, <2>2 DEF Held
<1>8. ~Marked(G, so, h)
  <2>1. F[0][h] = Absent => e \notin ro BY Unmarked DEF Marked
  <2>2. e \notin so BY <2>1
  <2>3. G[1][h] = F[1][h] BY <1>0, <1>1
  <2> QED BY <2>2, <2>3 DEF Marked
<1>9. \A q \in Pages : Marked(G, so, q) => Marked(F, ro, q) BY <1>4, <1>8
<1> QED BY <1>1, <1>5, <1>7, <1>9

LEMMA FillKeeps ==
  ASSUME IInv, Fill
  PROVE  IInv'
<1> DEFINE h == Ahead(walk)  f == NextFrame  u == walk.used + 1  w == [walk EXCEPT !.used = u]
<1>0. walk \in Walks /\ call \in Calls /\ Tree(Found) /\ 1 \in Levels /\ unfit \in BOOLEAN /\ mem \in Memory /\ grants \in SUBSET Shares
  BY Consts DEF IInv, Shape, Levels
<1>1. /\ Request(1) /\ Goes /\ walk.kind \in {"pages", "map"}
      /\ walk.pc = "loop" /\ walk.off < walk.len /\ ReqLevel(walk.kind) = 1 /\ walk.level = 1 /\ walk.pc \in Going
      /\ UNCHANGED <<readonly, busy, call, grants, unfit>>
  BY DEF Fill, Request, Goes, Going, ReqLevel
<1>2. /\ h \in Pages /\ Entry(1) = Found[0][h] /\ Found[1][h] # Absent /\ Table(1) = Found[1][h] /\ Here = h
      /\ h \in Nat /\ 1 - 1 = 0
  <2>1. 1 \in walk.level .. MaxLevel /\ 1 - 1 = 0 BY <1>1, Consts
  <2> QED BY <1>1, <2>1, Sees, PageNat
<1>3. h \in PagesOf(call) /\ Beyond(walk) = h + 1 /\ walk.base = call.base /\ Front(walk) = h BY <1>1, InCall DEF Front
<1>4. /\ Apart(call, grants) /\ Held(Found, readonly, call, grants) /\ ReadOnly(Found, readonly) /\ Changing(Found, readonly, walk, call)
      /\ Covered(Found, walk, call, unfit) /\ Tidy(Found, walk, call, unfit) /\ Owned(walk, Found, busy) /\ Supplied(walk, busy)
      /\ Phased(walk, call, unfit) /\ Bounds(walk, call) /\ Placed(walk, Found)
  BY DEF IInv
<1>5. call.kind = (IF walk.kind = "map" THEN "map" ELSE "alloc")
  <2>1. <<call.kind, call.stage, walk.kind>> \in Phases BY <1>1, <1>4 DEF Phased, NoWalk
  <2> QED BY <1>1, <2>1 DEF Phases
<1>6. Found[0][h] = Absent BY <1>1, <1>2, <1>3, <1>4 DEF Changing
<1>7. walk.used \in Nat /\ walk.avail \in Nat /\ walk.base \in Nat /\ walk.off \in Nat /\ walk.first \in Nat /\ u \in Nat
      /\ h = walk.base + walk.off
  BY <1>0 DEF Walks, Ahead
<1>8. walk' = Moved(w, 1)
      /\ mem' = [g \in DOMAIN mem |-> IF g = f THEN Dirty
                                       ELSE IF g = Found[1][h] THEN [mem[g] EXCEPT ![IndexOf(h, 1)] = f]
                                       ELSE mem[g]]
  <2>1. w = [walk EXCEPT !.used = @ + 1] BY <1>0 DEF Walks
  <2> QED BY <1>2, <1>6, <2>1 DEF Fill
<1>9. /\ w \in Walks /\ w.used = u /\ w.first = walk.first /\ w.pc = walk.pc /\ w.kind = walk.kind
      /\ w.base = walk.base /\ w.len = walk.len /\ w.off = walk.off
      /\ w.level = walk.level /\ w.window = walk.window /\ w.avail = walk.avail /\ w.st = walk.st
  <2> HIDE DEF u
  <2> QED BY <1>0, <1>7 DEF Walks
<1> HIDE DEF w
<1>10. /\ walk' \in Walks /\ walk'.pc \in {"loop", "up"} /\ walk'.pc \in Going
       /\ walk'.kind = walk.kind /\ walk'.base = walk.base /\ walk'.len = walk.len
       /\ walk'.avail = walk.avail /\ walk'.used = u /\ walk'.first = walk.first
       /\ Front(walk') = Beyond(walk) /\ End(walk') = End(walk)
       /\ Ahead(walk') % Step[ReqLevel(walk.kind)] = 0
       /\ walk'.pc = "up" => walk'.off = walk.off
       /\ walk'.pc = "loop" => walk'.off = walk.off + Step[1]
       /\ \A G : Tree(G) /\ (\A k \in 1 .. MaxLevel, q \in Pages : G[k][q] = Found[k][q]) => Placed(walk', G)
  BY <1>0, <1>1, <1>8, <1>9, MovedWalk
<1>11. walk.kind = "map" => walk.first = Device /\ walk.avail = walk.len /\ walk.used = walk.off
  BY <1>1, <1>4 DEF Supplied
<1>12. /\ f \in Nat /\ ((f \in Frame /\ ~Ref(Found, f)) \/ f >= Device)
       /\ (walk.kind = "pages" => f \in Frame /\ u <= walk.avail)
       /\ (walk.kind = "map" => f = Device + h - call.base /\ f >= Device)
  <2>1. CASE walk.kind = "pages" BY <1>1, <2>1, FreshFrame, Consts
  <2>2. CASE walk.kind = "map"
    <3>1. f = Device + walk.off BY <1>11, <2>2 DEF NextFrame
    <3> QED BY <1>3, <1>7, <2>2, <3>1, Consts
  <2> QED BY <1>1, <2>1, <2>2
<1>13. mem' \in Memory /\ Fits(Found, 1, h, f) /\ Found' = Changed(Found, 1, h, f)
  <2>1. Fills(mem, Found, h, f, mem', Found') BY <1>0, <1>2, <1>6, <1>8, <1>12, FoundIs, FoundNext DEF Fills
  <2> QED BY <2>1, PageAdded
<1>14. Tree(Found') BY <1>0, <1>13, TreeChanged
<1>15. /\ ReadOnly(Found', readonly) /\ Held(Found', readonly, call, grants)
       /\ \A k \in 0 .. MaxLevel, q \in Pages : Found'[k][q] = IF k = 0 /\ q = h THEN f ELSE Found[k][q]
       /\ \A q \in Pages : Marked(Found', readonly, q) => Marked(Found, readonly, q)
  <2>1. Turns(Found, h, f, readonly, readonly, call, grants) BY <1>0, <1>2, <1>3, <1>4, <1>5, <1>6, <1>13 DEF Turns
  <2> QED BY <1>13, <2>1, PageChanged
<1> HIDE DEF f, u
<1>16. Placed(walk', Found')
  <2>1. \A k \in 1 .. MaxLevel : k \in 0 .. MaxLevel /\ k # 0 BY Consts
  <2> QED BY <1>10, <1>14, <1>15, <2>1
<1>17. Supplied(walk', busy)
  <2>1. Step[1] = 1 BY Steps
  <2>2. walk.kind = "pages" => u <= walk.avail BY <1>12
  <2>3. walk.kind = "map" => u = walk.off + 1 BY <1>11 DEF u
  <2> QED BY <1>1, <1>4, <1>10, <1>11, <2>1, <2>2, <2>3 DEF Supplied
<1>18. Owned(walk', Found', busy)
  <2>1. CASE walk.kind = "pages" BY <1>1, <1>2, <1>6, <1>10, <1>13, <2>1, OwnedTaken DEF f, u
  <2>2. CASE walk.kind = "map"
    <3>1. \A k : Handed(walk', k) = IF "map" \in k THEN Run(walk') ELSE {} BY <1>10, <2>2 DEF Handed
    <3>2. \A k : Handed(walk, k) = IF "map" \in k THEN Run(walk) ELSE {} BY <1>1, <2>2 DEF Handed
    <3>3. \A g \in Frame : g # f /\ g # Absent BY <1>12, <2>2, Consts
    <3>4. \A g \in Frame : Ref(Found', g) <=> Ref(Found, g)
      <4>1. \A g \in Frame : Ref(Changed(Found, 1, h, f), g) <=> g = f \/ (Ref(Found, g) /\ g # Found[1 - 1][h])
        BY <1>0, <1>13, RefChanged
      <4> QED BY <1>2, <1>6, <1>13, <3>3, <4>1
    <3> QED BY <1>1, <1>4, <1>10, <3>1, <3>2, <3>4 DEF Owned
  <2> QED BY <1>1, <2>1, <2>2
<1>19. Changing(Found', readonly, walk', call)
  <2>1. PagesOf(call) \subseteq Pages BY <1>0, <1>4, <1>5, CallPages
  <2>2. \A p \in PagesOf(call) : p \in Nat /\ Found'[0][p] = IF p = h THEN f ELSE Found[0][p]
    <3>1. 0 \in 0 .. MaxLevel BY Consts
    <3> QED BY <1>15, <2>1, <3>1, PageNat
  <2>3. f # Absent BY <1>1, <1>12, Consts
  <2>4. \A p \in PagesOf(call) : Found'[0][p] = Absent <=> p >= Front(walk')
    <3>1. \A p \in PagesOf(call) : Found[0][p] = Absent <=> p >= h BY <1>1, <1>3, <1>4 DEF Changing
    <3>2. Front(walk') = h + 1 BY <1>3, <1>10
    <3> QED BY <1>2, <2>2, <2>3, <3>1, <3>2
  <2>5. \A p \in PagesOf(call) : walk.kind = "map" => Found'[0][p] \in {Absent, Device + p - call.base}
    BY <1>4, <1>5, <1>12, <2>2 DEF Changing
  <2>6. \A p \in PagesOf(call) : walk.kind = "pages" => Found'[0][p] \in Frame \cup {Absent}
    BY <1>4, <1>5, <1>12, <2>2 DEF Changing
  <2>7. \A p \in PagesOf(call) : call.kind \in {"alloc", "map"} => ~Marked(Found', readonly, p)
    BY <1>4, <1>15, <2>1 DEF Changing
  <2> QED BY <1>1, <1>5, <1>10, <2>4, <2>5, <2>6, <2>7 DEF Changing
<1>20. Covered(Found', walk', call, unfit)
  <2>1. PagesOf(call) \subseteq Pages BY <1>0, <1>4, <1>5, CallPages
  <2>2. 1 \in 0 .. MaxLevel /\ 1 # 0 BY Consts
  <2>3. \A p \in Pages : Found'[1][p] = Found[1][p] BY <1>15, <2>2
  <2> QED BY <1>1, <1>4, <1>10, <2>1, <2>3 DEF Covered
<1>21. Tidy(Found', walk', call, unfit) BY <1>0, <1>1, <1>2, <1>3, <1>4, <1>5, <1>10, <1>13, TidyKept
<1>22. Sound(walk', call, unfit) BY <1>10 DEF Sound
<1> QED BY <1>0, <1>1, <1>10, <1>13, <1>14, <1>15, <1>16, <1>17, <1>18, <1>19, <1>20, <1>21, <1>22, Goes_On

(* A page is taken out.                                                    *)
LEMMA DropPageKeeps ==
  ASSUME IInv, Drop(1)
  PROVE  IInv'
<1> DEFINE h == Ahead(walk)  f == Found[0][h]  u == walk.used + 1
           a == Lowest(f)
           w == [walk EXCEPT !.used = u, !.first = a]
           so == readonly \ {<<Found[1][h], IndexOf(h, 1)>>}
<1>0. walk \in Walks /\ call \in Calls /\ Tree(Found) /\ 1 \in Levels /\ unfit \in BOOLEAN /\ mem \in Memory /\ grants \in SUBSET Shares
  BY Consts DEF IInv, Shape, Levels
<1>1. /\ Request(1) /\ Wanted /\ Adjoins(Entry(1)) /\ Cleared(1) /\ walk' = Moved(With(Entry(1)), 1)
      /\ walk.pc = "loop" /\ walk.off < walk.len /\ ReqLevel(walk.kind) = 1 /\ walk.level = 1 /\ walk.pc \in Going
      /\ UNCHANGED <<busy, call, grants, unfit>>
  BY DEF Drop, Request, Goes, Going
<1>2. /\ h \in Pages /\ Entry(1) = f /\ Found[1][h] # Absent /\ Table(1) = Found[1][h] /\ Here = h
      /\ h \in Nat /\ 1 - 1 = 0
  <2>1. 1 \in walk.level .. MaxLevel /\ 1 - 1 = 0 BY <1>1, Consts
  <2> QED BY <1>1, <2>1, Sees, PageNat
<1>3. walk.kind \in {"unpage", "unmap"} /\ f # Absent BY <1>1, <1>2 DEF Wanted, ReqLevel
<1>4. h \in PagesOf(call) /\ Beyond(walk) = h + 1 /\ Front(walk) = h BY <1>1, <1>3, InCall DEF Front
<1>5. /\ Apart(call, grants) /\ Held(Found, readonly, call, grants) /\ ReadOnly(Found, readonly) /\ Changing(Found, readonly, walk, call)
      /\ Covered(Found, walk, call, unfit) /\ Tidy(Found, walk, call, unfit) /\ Owned(walk, Found, busy) /\ Supplied(walk, busy)
      /\ Phased(walk, call, unfit) /\ Bounds(walk, call) /\ Placed(walk, Found)
  BY DEF IInv
<1>6. IF walk.kind = "unmap" THEN call.kind = "unmap" ELSE call.kind \in {"alloc", "free"}
  <2>1. <<call.kind, call.stage, walk.kind>> \in Phases BY <1>1, <1>5 DEF Phased, NoWalk
  <2> QED BY <1>3, <2>1 DEF Phases
<1>7. f \in Nat /\ (walk.kind = "unmap" => f >= Device)
  <2>1. 0 \in 0 .. MaxLevel BY Consts
  <2> QED BY <1>0, <1>2, <1>3, <1>4, <1>5, <1>6, <2>1 DEF Tree, Changing
<1> HIDE DEF f
<1>8. /\ With(f) = w /\ u \in Nat /\ a \in Nat /\ a .. a + u - 1 = Run(walk) \cup {f}
  BY <1>0, <1>1, <1>2, <1>7, WithIs
<1> HIDE DEF a, u
<1>9. /\ w \in Walks /\ w.used = u /\ w.first = a /\ w.pc = walk.pc /\ w.kind = walk.kind
      /\ w.base = walk.base /\ w.len = walk.len /\ w.off = walk.off
      /\ w.level = walk.level /\ w.window = walk.window /\ w.avail = walk.avail /\ w.st = walk.st
  BY <1>0, <1>8 DEF Walks
<1> HIDE DEF w
<1>10. /\ walk' \in Walks /\ walk'.pc \in {"loop", "up"} /\ walk'.pc \in Going
       /\ walk'.kind = walk.kind /\ walk'.base = walk.base /\ walk'.len = walk.len
       /\ walk'.used = u /\ walk'.first = a
       /\ Front(walk') = Beyond(walk) /\ End(walk') = End(walk)
       /\ Ahead(walk') % Step[ReqLevel(walk.kind)] = 0
       /\ \A G : Tree(G) /\ (\A k \in 1 .. MaxLevel, q \in Pages : G[k][q] = Found[k][q]) => Placed(walk', G)
  BY <1>0, <1>1, <1>2, <1>8, <1>9, MovedWalk
<1>11. mem' \in Memory /\ Fits(Found, 1, h, Absent) /\ Found' = Changed(Found, 1, h, Absent) /\ readonly' = so
  <2>1. mem' = [mem EXCEPT ![Found[1][h]][IndexOf(h, 1)] = Absent] /\ readonly' = so BY <1>1, <1>2 DEF Cleared
  <2>2. ~(1 > 1) OBVIOUS
  <2>3. Clears(mem, Found, 1, h, mem', Found') BY <1>0, <1>2, <2>1, <2>2, FoundIs, FoundNext DEF Clears
  <2> QED BY <2>1, <2>3, EntryCleared
<1>12. Tree(Found') BY <1>0, <1>11, TreeChanged
<1>13. /\ ReadOnly(Found', readonly') /\ Held(Found', readonly', call, grants)
       /\ \A k \in 0 .. MaxLevel, q \in Pages : Found'[k][q] = IF k = 0 /\ q = h THEN Absent ELSE Found[k][q]
       /\ \A q \in Pages : Marked(Found', readonly', q) => Marked(Found, readonly, q)
  <2>1. <<Found[1][h], IndexOf(h, 1)>> \notin so OBVIOUS
  <2>2. Turns(Found, h, Absent, readonly, so, call, grants) BY <1>0, <1>2, <1>4, <1>5, <1>6, <1>11, <2>1 DEF Turns
  <2> QED BY <1>11, <2>2, PageChanged
<1>14. Placed(walk', Found')
  <2>1. \A k \in 1 .. MaxLevel : k \in 0 .. MaxLevel /\ k # 0 BY Consts
  <2> QED BY <1>10, <1>12, <1>13, <2>1
<1>15. Supplied(walk', busy) BY <1>3, <1>10 DEF Supplied
<1>16. Owned(walk', Found', busy)
  <2>1. CASE walk.kind = "unpage"
    <3>1. Run(walk') = Run(walk) \cup {f} BY <1>8, <1>10 DEF Run
    <3>2. walk.kind \in {"untable", "unpage"} /\ walk.pc \in {"loop", "up"} BY <1>1, <2>1
    <3>3. Run(walk') = Run(walk) \cup {Found[1 - 1][h]} BY <1>2, <3>1 DEF f
    <3> QED BY <1>10, <1>11, <3>2, <3>3, OwnedDropped
  <2>2. CASE walk.kind = "unmap"
    <3>1. \A k : Handed(walk', k) = IF "unmap" \in k THEN Run(walk') ELSE {} BY <1>10, <2>2 DEF Handed
    <3>2. \A k : Handed(walk, k) = IF "unmap" \in k THEN Run(walk) ELSE {} BY <1>1, <2>2 DEF Handed
    <3>3. \A g \in Frame : g # f /\ g # Absent BY <1>7, <2>2, Consts
    <3>4. \A g \in Frame : Ref(Found', g) <=> Ref(Found, g)
      <4>1. \A g \in Frame : Ref(Changed(Found, 1, h, Absent), g) <=> g = Absent \/ (Ref(Found, g) /\ g # Found[1 - 1][h])
        BY <1>0, <1>11, RefChanged
      <4> QED BY <1>2, <1>11, <3>3, <4>1 DEF f
    <3> QED BY <1>1, <1>5, <1>10, <3>1, <3>2, <3>4 DEF Owned
  <2> QED BY <1>3, <2>1, <2>2
<1>17. Changing(Found', readonly', walk', call)
  <2>1. PagesOf(call) \subseteq Pages BY <1>0, <1>5, <1>6, CallPages
  <2>2. \A p \in PagesOf(call) : p \in Nat /\ Found'[0][p] = IF p = h THEN Absent ELSE Found[0][p]
    <3>1. 0 \in 0 .. MaxLevel BY Consts
    <3> QED BY <1>13, <2>1, <3>1, PageNat
  <2>3. ASSUME NEW p \in PagesOf(call), p < Front(walk') \/ p >= End(walk') PROVE Found'[0][p] = Absent
    <3>1. p = h \/ p < h \/ p >= End(walk) BY <1>2, <1>4, <1>10, <2>2, <2>3
    <3>2. p < h \/ p >= End(walk) => Found[0][p] = Absent BY <1>3, <1>4, <1>5 DEF Changing
    <3> QED BY <2>2, <3>1, <3>2
  <2>4. \A p \in PagesOf(call) : call.kind \in {"alloc", "free"} => Found'[0][p] \in Frame \cup {Absent}
    BY <1>5, <2>2 DEF Changing
  <2>5. \A p \in PagesOf(call) : call.kind = "unmap" => Found'[0][p] = Absent \/ Found'[0][p] >= Device
    BY <1>5, <2>2 DEF Changing
  <2>6. \A p \in PagesOf(call) : call.kind \in {"alloc", "map"} => ~Marked(Found', readonly', p)
    BY <1>5, <1>13, <2>1 DEF Changing
  <2> QED BY <1>3, <1>6, <1>10, <2>3, <2>4, <2>5, <2>6 DEF Changing
<1>18. Covered(Found', walk', call, unfit)
  <2>1. PagesOf(call) \subseteq Pages BY <1>0, <1>5, <1>6, CallPages
  <2>2. 1 \in 0 .. MaxLevel /\ 1 # 0 BY Consts
  <2>3. \A p \in Pages : Found'[1][p] = Found[1][p] BY <1>13, <2>2
  <2> QED BY <1>3, <1>5, <1>10, <2>1, <2>3 DEF Covered
<1>19. Tidy(Found', walk', call, unfit)
  <2>1. walk.kind # "untable" /\ call.kind \notin {"none", "attr"} BY <1>3, <1>6
  <2>2. \E q \in PagesOf(call) : q \in Pages /\ Blk(q, 1) = Blk(h, 1) BY <1>2, <1>4
  <2> QED BY <1>0, <1>5, <1>10, <1>11, <2>1, <2>2, TidyKept
<1>20. Sound(walk', call, unfit) BY <1>10 DEF Sound
<1> QED BY <1>0, <1>1, <1>10, <1>11, <1>12, <1>13, <1>14, <1>15, <1>16, <1>17, <1>18, <1>19, <1>20, Goes_On

(* A table that is empty is taken out.                                     *)
LEMMA DropTableKeeps ==
  ASSUME IInv, Drop(2)
  PROVE  IInv'
<1> DEFINE h == Ahead(walk)  f == Found[1][h]  u == walk.used + 1
           a == Lowest(f)
           w == [walk EXCEPT !.used = u, !.first = a]
           so == readonly \ {<<Found[2][h], IndexOf(h, 2)>>}
<1>0. walk \in Walks /\ call \in Calls /\ Tree(Found) /\ 2 \in Levels /\ unfit \in BOOLEAN /\ mem \in Memory /\ grants \in SUBSET Shares
  BY Consts DEF IInv, Shape, Levels
<1>1. /\ Request(2) /\ Wanted /\ Adjoins(Entry(2)) /\ Cleared(2) /\ walk' = Moved(With(Entry(2)), 2)
      /\ walk.pc = "loop" /\ walk.off < walk.len /\ ReqLevel(walk.kind) = 2 /\ walk.level = 2 /\ walk.pc \in Going
      /\ UNCHANGED <<busy, call, grants, unfit>>
  BY DEF Drop, Request, Goes, Going
<1>2. /\ h \in Pages /\ Entry(2) = f /\ Found[2][h] # Absent /\ Table(2) = Found[2][h] /\ Here = h
      /\ h \in Nat /\ 2 - 1 = 1
  <2>1. 2 \in walk.level .. MaxLevel /\ 2 - 1 = 1 BY <1>1, Consts
  <2> QED BY <1>1, <2>1, Sees, PageNat
<1>3. walk.kind = "untable" /\ f # Absent /\ mem[f] = Clear BY <1>1, <1>2 DEF Wanted, ReqLevel, Empty
<1>4. /\ Apart(call, grants) /\ Held(Found, readonly, call, grants) /\ ReadOnly(Found, readonly) /\ Changing(Found, readonly, walk, call)
      /\ Phased(walk, call, unfit) /\ Bounds(walk, call)
  BY DEF IInv
<1>5. call.kind # "none"
  <2>1. <<call.kind, call.stage, walk.kind>> \in Phases BY <1>1, <1>4 DEF Phased, NoWalk
  <2> QED BY <2>1 DEF Phases
<1>6. f \in Nat
  <2>1. 1 \in 0 .. MaxLevel BY Consts
  <2> QED BY <1>0, <1>2, <2>1 DEF Tree
<1> HIDE DEF f
<1>8. /\ With(f) = w /\ u \in Nat /\ a \in Nat /\ a .. a + u - 1 = Run(walk) \cup {f}
  BY <1>0, <1>1, <1>2, <1>6, WithIs
<1> HIDE DEF a, u
<1>9. /\ w \in Walks /\ w.used = u /\ w.first = a /\ w.pc = walk.pc /\ w.kind = walk.kind
      /\ w.base = walk.base /\ w.len = walk.len /\ w.off = walk.off
      /\ w.level = walk.level /\ w.window = walk.window /\ w.avail = walk.avail /\ w.st = walk.st
  BY <1>0, <1>8 DEF Walks
<1> HIDE DEF w
<1>10. /\ walk' \in Walks /\ walk'.pc \in {"loop", "up"} /\ walk'.pc \in Going
       /\ walk'.kind = walk.kind /\ walk'.base = walk.base /\ walk'.len = walk.len /\ walk'.level = walk.level
       /\ walk'.used = u /\ walk'.first = a
       /\ Front(walk') = Beyond(walk) /\ End(walk') = End(walk)
       /\ Ahead(walk') % Step[ReqLevel(walk.kind)] = 0
       /\ walk'.pc = "up" => Ahead(walk') = h /\ Beyond(walk') = Beyond(walk)
       /\ walk'.pc = "loop" =>
            /\ Ahead(walk') = Beyond(walk) /\ Beyond(walk) \in Pages
            /\ Blk(Beyond(walk), 2 + 1) = Blk(h, 2 + 1)
            /\ walk.kind = "untable" => Beyond(walk) < End(walk)
       /\ \A G : Tree(G) /\ (\A k \in 2 .. MaxLevel, q \in Pages : G[k][q] = Found[k][q]) => Placed(walk', G)
  BY <1>0, <1>1, <1>2, <1>8, <1>9, MovedWalk
<1>11. mem' \in Memory /\ Fits(Found, 2, h, Absent) /\ Found' = Changed(Found, 2, h, Absent) /\ readonly' = so
  <2>1. mem' = [mem EXCEPT ![Found[2][h]][IndexOf(h, 2)] = Absent] /\ readonly' = so BY <1>1, <1>2 DEF Cleared
  <2>2. Found[2 - 1][h] # Absent /\ mem[Found[2 - 1][h]] = Clear BY <1>2, <1>3 DEF f
  <2>3. Clears(mem, Found, 2, h, mem', Found') BY <1>0, <1>2, <2>1, <2>2, FoundIs, FoundNext DEF Clears
  <2> QED BY <2>1, <2>3, EntryCleared
<1>12. Tree(Found') BY <1>0, <1>11, TreeChanged
<1>13. \A k \in 0 .. MaxLevel, q \in Pages : Found'[k][q] = IF k = 1 /\ Blk(q, 2) = Blk(h, 2) THEN Absent ELSE Found[k][q]
  BY <1>2, <1>11, ChangedIs
<1>14. Placed(walk', Found')
  <2>1. \A k \in 2 .. MaxLevel : k \in 0 .. MaxLevel /\ k # 1 BY Consts
  <2> QED BY <1>10, <1>12, <1>13, <2>1
<1>15. Supplied(walk', busy) BY <1>3, <1>10 DEF Supplied
<1>16. Owned(walk', Found', busy)
  <2>1. Run(walk') = Run(walk) \cup {f} BY <1>8, <1>10 DEF Run
  <2>2. walk.kind \in {"untable", "unpage"} /\ walk.pc \in {"loop", "up"} BY <1>1, <1>3
  <2>3. Run(walk') = Run(walk) \cup {Found[2 - 1][h]} BY <1>2, <2>1 DEF f
  <2> QED BY <1>10, <1>11, <2>2, <2>3, OwnedDropped
<1>17. ReadOnly(Found', readonly') /\ Held(Found', readonly', call, grants) /\ Changing(Found', readonly', walk', call)
  <2>1. so \in {readonly, readonly \ {<<Found[2][h], IndexOf(h, 2)>>}} /\ 2 > 1 OBVIOUS
  <2>2. PagesOf(call) \subseteq Pages BY <1>0, <1>4, <1>5, CallPages
  <2>3. LET G == Changed(Found, 2, h, Absent) IN
        ReadOnly(G, so) /\ Held(G, so, call, grants) /\ Changing(G, so, walk', call)
    BY <1>0, <1>3, <1>4, <1>10, <1>11, <2>1, <2>2, PagesStill
  <2> QED BY <1>11, <2>3
<1>18. Tidy(Found', walk', call, unfit) /\ Covered(Found', walk', call, unfit)
  <2>1. 1 \in 0 .. MaxLevel BY Consts
  <2>2. \A k \in 0 .. MaxLevel, q \in Pages : k # 1 \/ Blk(q, 2) # Blk(h, 2) => Found'[k][q] = Found[k][q] BY <1>13
  <2>3. \A q \in Pages : Blk(q, 2) = Blk(h, 2) => Found'[1][q] = Absent BY <1>13, <2>1
  <2> QED BY <1>1, <1>3, <1>10, <2>2, <2>3, TablePassed
<1>20. Sound(walk', call, unfit) BY <1>10 DEF Sound
<1> QED BY <1>0, <1>1, <1>10, <1>11, <1>12, <1>14, <1>15, <1>16, <1>17, <1>18, <1>20, Goes_On

-------------------------------------------------------------------------------
(* The way up.                                                             *)

(* A walk that goes up.                                                    *)
LEMMA Upward ==
  ASSUME IInv, walk.pc = "up"
  PROVE  /\ walk.pc \in Going /\ walk.off < walk.len /\ call.kind # "none"
         /\ Up \in Levels /\ Up \in Nat /\ Up > 1 /\ Up > ReqLevel(walk.kind) /\ Up <= MaxLevel /\ Up - 1 = walk.level
         /\ Up - 1 \in Levels /\ Up \in walk.level .. MaxLevel
         /\ Ahead(walk) \in Pages /\ Ahead(walk) \in Nat /\ Ahead(walk) % Step[ReqLevel(walk.kind)] = 0
         /\ ReqLevel(walk.kind) \in Levels /\ Step[ReqLevel(walk.kind)] \in Nat /\ Step[ReqLevel(walk.kind)] > 0
         /\ Beyond(walk) = Ahead(walk) + Step[ReqLevel(walk.kind)] /\ Beyond(walk) \in Nat
         /\ Beyond(walk) % Step[ReqLevel(walk.kind)] = 0
         /\ Front(walk) = Beyond(walk) /\ End(walk) \in Nat /\ Ahead(walk) < End(walk)
         /\ Here = Ahead(walk) /\ Behind = Beyond(walk)
         /\ Table(Up) = Found[Up][Ahead(walk)] /\ Found[Up][Ahead(walk)] # Absent
         /\ Entry(Up) = Found[Up - 1][Ahead(walk)]
         /\ Found[walk.level][Ahead(walk)] # Absent
<1>0. walk \in Walks /\ call \in Calls BY DEF IInv, Shape
<1>1. Phased(walk, call, unfit) /\ Bounds(walk, call) /\ Placed(walk, Found) BY DEF IInv
<1>2. walk.pc \in Going /\ walk.off < walk.len /\ walk.level < MaxLevel /\ walk.level >= ReqLevel(walk.kind)
  BY <1>1 DEF Placed, Going
<1>3. /\ call.kind # "none" /\ Ahead(walk) \in Pages /\ Ahead(walk) % Step[ReqLevel(walk.kind)] = 0 /\ Ahead(walk) < End(walk)
  BY <1>0, <1>1, <1>2, Where
<1>4. walk.level \in Levels BY <1>0 DEF Walks
<1>5. /\ ReqLevel(walk.kind) \in Levels /\ Step[ReqLevel(walk.kind)] \in Nat /\ Step[ReqLevel(walk.kind)] > 0
      /\ Beyond(walk) \in Nat /\ End(walk) \in Nat
  BY <1>0, ReqIs
<1>6. /\ Up \in Levels /\ Up \in Nat /\ Up > 1 /\ Up > ReqLevel(walk.kind) /\ Up <= MaxLevel /\ Up - 1 = walk.level
      /\ Up - 1 \in Levels /\ Up \in walk.level .. MaxLevel /\ walk.level \in walk.level .. MaxLevel
  BY <1>2, <1>4, <1>5, Consts DEF Up, Levels
<1>7. Beyond(walk) = Ahead(walk) + Step[ReqLevel(walk.kind)] /\ Front(walk) = Beyond(walk) BY DEF Beyond, Front
<1>8. Here = Ahead(walk) /\ Behind = Beyond(walk) BY DEF Here, Ahead, Behind, Beyond
<1>9. Beyond(walk) % Step[ReqLevel(walk.kind)] = 0 BY <1>3, <1>5, <1>7, NextBlock, PageNat
<1>10. /\ Table(Up) = Found[Up][Ahead(walk)] /\ Found[Up][Ahead(walk)] # Absent /\ Entry(Up) = Found[Up - 1][Ahead(walk)]
       /\ Found[walk.level][Ahead(walk)] # Absent
  BY <1>2, <1>6, <1>8, Sees
<1> QED BY <1>2, <1>3, <1>5, <1>6, <1>7, <1>8, <1>9, <1>10, PageNat

LEMMA RaisedWalk ==
  ASSUME IInv, walk.pc = "up", NEW w \in Walks,
         w.pc = walk.pc, w.kind = walk.kind, w.base = walk.base, w.len = walk.len, w.off = walk.off,
         w.window = walk.window, w.avail = walk.avail,
         walk' = Raised(w)
  PROVE  /\ walk' \in Walks /\ walk'.pc \in {"loop", "up"} /\ walk'.pc \in Going
         /\ walk'.kind = walk.kind /\ walk'.base = walk.base /\ walk'.len = walk.len
         /\ walk'.level = Up /\ walk'.avail = walk.avail
         /\ walk'.used = w.used /\ walk'.first = w.first
         /\ Front(walk') = Beyond(walk) /\ End(walk') = End(walk)
         /\ Ahead(walk') % Step[ReqLevel(walk.kind)] = 0
         /\ (walk'.pc = "up" => walk'.off = walk.off /\ Ahead(walk') = Ahead(walk) /\ Beyond(walk') = Beyond(walk))
         /\ (walk'.pc = "loop" =>
               /\ walk'.off = walk.off + Step[ReqLevel(walk.kind)] /\ Ahead(walk') = Beyond(walk)
               /\ \/ Up = MaxLevel
                  \/ /\ IndexOf(Beyond(walk), Up) > IndexOf(Ahead(walk), Up)
                     /\ mem[Found[Up][Ahead(walk)]][IndexOf(Beyond(walk), Up)] # Absent)
         /\ \A G : Tree(G) /\ (\A k \in Up .. MaxLevel, q \in Pages : G[k][q] = Found[k][q]) => Placed(walk', G)
<1> DEFINE h == Ahead(walk)  n == Beyond(walk)  r == ReqLevel(walk.kind)
<1>0. walk \in Walks /\ call \in Calls /\ Tree(Found) BY DEF IInv, Shape
<1>1. /\ walk.pc \in Going /\ walk.off < walk.len
      /\ Up \in Levels /\ Up \in Nat /\ Up > r /\ Up <= MaxLevel /\ Up - 1 = walk.level
      /\ h \in Pages /\ h \in Nat /\ h % Step[r] = 0
      /\ r \in Levels /\ Step[r] \in Nat /\ Step[r] > 0
      /\ n = h + Step[r] /\ n \in Nat /\ n % Step[r] = 0
      /\ Here = h /\ Behind = n /\ Table(Up) = Found[Up][h]
  BY Upward
<1>2. /\ walk.off \in Nat /\ walk.base \in Nat /\ walk.len \in Nat /\ walk.len # 0
  <2>1. walk.off \in Nat /\ walk.base \in Nat /\ walk.len \in Nat BY <1>0 DEF Walks
  <2> QED BY <1>1, <2>1
<1>3. \A k \in Up .. MaxLevel : walk.window[k] = Found[k][h] /\ Found[k][h] # Absent
  <2>1. Placed(walk, Found) BY DEF IInv
  <2>2. \A k \in Up .. MaxLevel : k \in walk.level .. MaxLevel
    <3>1. walk.level \in Nat /\ MaxLevel \in Nat BY <1>0, Consts DEF Walks
    <3> QED BY <1>1, <3>1
  <2> QED BY <1>1, <2>1, <2>2 DEF Placed
<1> DEFINE U == Up
<1>4. U \in Levels /\ U \in Nat /\ MaxLevel \in Nat /\ r \in Nat BY <1>1, Consts
<1>5. walk' = IF Arrived(U) THEN Onward([w EXCEPT !.level = U]) ELSE [w EXCEPT !.level = U] BY DEF Raised
<1> HIDE DEF U
<1>6. CASE ~Arrived(U)
  <2>1. walk' = [w EXCEPT !.level = U] BY <1>5, <1>6
  <2>2. /\ walk'.pc = "up" /\ walk'.kind = walk.kind /\ walk'.base = walk.base /\ walk'.len = walk.len
        /\ walk'.level = U /\ walk'.window = walk.window /\ walk'.avail = walk.avail
        /\ walk'.used = w.used /\ walk'.first = w.first /\ walk'.off = walk.off /\ walk' \in Walks
    BY <1>4, <2>1 DEF Walks
  <2>3. Ahead(walk') = h /\ Beyond(walk') = n /\ Front(walk') = n /\ End(walk') = End(walk)
    BY <2>2 DEF Ahead, Beyond, Front, End
  <2>4. U < MaxLevel
    <3>1. U # MaxLevel BY <1>6 DEF Arrived
    <3>2. U <= MaxLevel BY <1>1 DEF U
    <3> QED BY <1>4, <3>1, <3>2
  <2>5. ASSUME NEW G, Tree(G), \A k \in Up .. MaxLevel, q \in Pages : G[k][q] = Found[k][q] PROVE Placed(walk', G)
    <3>1. \A k \in U .. MaxLevel : walk.window[k] = G[k][h] /\ walk.window[k] # Absent BY <1>1, <1>3, <2>5 DEF U
    <3>2. U >= r BY <1>1, <1>4 DEF U
    <3> QED BY <1>1, <1>2, <2>2, <2>3, <2>4, <3>1, <3>2 DEF Placed
  <2> QED BY <1>1, <2>2, <2>3, <2>5 DEF Going, U
<1>7. CASE Arrived(U)
  <2> DEFINE o == w.off + Step[r]
  <2>1. walk' = [w EXCEPT !.level = U, !.pc = "loop", !.off = o]
    <3>1. walk' = Onward([w EXCEPT !.level = U]) BY <1>5, <1>7
    <3> QED BY <3>1 DEF Onward, Walks
  <2>2. o \in Nat /\ o = walk.off + Step[r] BY <1>1, <1>2
  <2> HIDE DEF o
  <2>3. /\ walk'.pc = "loop" /\ walk'.kind = walk.kind /\ walk'.base = walk.base /\ walk'.len = walk.len
        /\ walk'.level = U /\ walk'.window = walk.window /\ walk'.avail = walk.avail
        /\ walk'.used = w.used /\ walk'.first = w.first /\ walk'.off = o /\ walk' \in Walks
    <3>1. /\ walk'.pc = "loop" /\ walk'.kind = w.kind /\ walk'.base = w.base /\ walk'.len = w.len
          /\ walk'.level = U /\ walk'.window = w.window /\ walk'.avail = w.avail
          /\ walk'.used = w.used /\ walk'.first = w.first /\ walk'.off = o
      BY <2>1 DEF Walks
    <3>2. walk' \in Walks BY <1>4, <2>1, <2>2 DEF Walks, Places
    <3> QED BY <3>1, <3>2
  <2>4. Ahead(walk') = n /\ Front(walk') = n /\ End(walk') = End(walk)
    <3>1. walk.base + (walk.off + Step[r]) = n
      <4>1. h = walk.base + walk.off BY DEF Ahead
      <4> HIDE DEF h, n, r
      <4> QED BY <1>1, <1>2, <4>1
    <3> QED BY <2>2, <2>3, <3>1 DEF Ahead, Front, End
  <2>5. U = MaxLevel \/ (IndexOf(n, U) > IndexOf(h, U) /\ mem[Found[U][h]][IndexOf(n, U)] # Absent)
    BY <1>1, <1>7 DEF Arrived, U
  <2>6. ASSUME NEW G, Tree(G), \A k \in Up .. MaxLevel, q \in Pages : G[k][q] = Found[k][q] PROVE Placed(walk', G)
    <3>1. ASSUME o < walk.len, NEW k \in U .. MaxLevel PROVE walk.window[k] = G[k][n] /\ walk.window[k] # Absent
      <4>1. n \in Pages
        <5>1. n < End(walk) BY <1>1, <1>2, <2>2, <3>1 DEF Ahead, End
        <5>2. End(walk) <= Step[MaxLevel + 1]
          <6>1. Phased(walk, call, unfit) /\ Bounds(walk, call) /\ Placed(walk, Found) BY DEF IInv
          <6> QED BY <1>0, <1>1, <6>1, Where
        <5>3. Step[MaxLevel + 1] \in Nat /\ End(walk) \in Nat
          <6>1. MaxLevel + 1 \in 1 .. MaxLevel + 1 BY Consts
          <6> QED BY <1>0, <6>1, Steps, ReqIs
        <5> QED BY <1>1, <5>1, <5>2, <5>3, IsPage
      <4>2. walk.window[k] = G[k][h] /\ walk.window[k] # Absent BY <1>1, <1>3, <2>6, <3>1 DEF U
      <4>3. k \in 0 .. MaxLevel /\ k \in Nat BY <1>4, <3>1
      <4>4. G[k][n] = G[k][h]
        <5>1. CASE U = MaxLevel
          <6>1. k = MaxLevel BY <1>4, <3>1, <5>1
          <6> QED BY <1>1, <2>6, <4>1, <6>1 DEF Tree
        <5>2. CASE IndexOf(n, U) > IndexOf(h, U)
          <6>1. U \in r .. MaxLevel /\ U + 1 \in 1 .. MaxLevel + 1 /\ k + 1 \in U + 1 .. MaxLevel + 1
            BY <1>1, <1>4, <3>1, Consts DEF U, Levels
          <6>2. Blk(n, U + 1) = Blk(h, U + 1) BY <1>1, <5>2, <6>1, NextIndex
          <6>3. Blk(n, k + 1) = Blk(h, k + 1) BY <1>1, <6>1, <6>2, Coarser
          <6> QED BY <1>1, <2>6, <4>1, <4>3, <6>3, TreeBlock
        <5> QED BY <2>5, <5>1, <5>2
      <4> QED BY <4>2, <4>4
    <3>2. U >= r BY <1>1, <1>4 DEF U
    <3> QED BY <1>1, <1>2, <2>3, <2>4, <3>1, <3>2 DEF Placed
  <2> QED BY <1>1, <2>2, <2>3, <2>4, <2>5, <2>6 DEF Going, U
<1> QED BY <1>6, <1>7

(* A walk that drops tables has gone a level up: the table it has left is  *)
(* gone, was not there, or is not empty.                                   *)
LEMMA TidyRisen ==
  ASSUME IInv, walk.kind = "untable", walk.pc = "up", NEW w \in Walks,
         w.kind = walk.kind, w.base = walk.base, w.len = walk.len, w.level = Up, w.pc \in {"loop", "up"},
         Front(w) = Beyond(walk), End(w) = End(walk),
         w.pc = "up" => Ahead(w) = Ahead(walk) /\ Beyond(w) = Beyond(walk),
         w.pc = "loop" => /\ Ahead(w) = Beyond(walk)
                          /\ \/ Up = MaxLevel
                             \/ /\ IndexOf(Beyond(walk), Up) > IndexOf(Ahead(walk), Up)
                                /\ mem[Found[Up][Ahead(walk)]][IndexOf(Beyond(walk), Up)] # Absent,
         NEW G, Tree(G),
         \A k \in 0 .. MaxLevel, q \in Pages :
           k # Up - 1 \/ Blk(q, Up) # Blk(Ahead(walk), Up) => G[k][q] = Found[k][q],
         \A q \in Pages : Blk(q, Up) = Blk(Ahead(walk), Up) =>
           G[Up - 1][q] = Absent \/ \E r \in Pages : Blk(r, Up) = Blk(q, Up) /\ G[Up - 2][r] # Absent
  PROVE  Tidy(G, w, call, unfit) /\ Covered(G, w, call, unfit)
<1> DEFINE h == Ahead(walk)  n == Beyond(walk)  U == Up
<1>0. walk \in Walks /\ call \in Calls /\ Tree(Found) /\ Tidy(Found, walk, call, unfit) /\ Covered(Found, walk, call, unfit)
  BY DEF IInv, Shape
<1>1. /\ walk.pc \in Going /\ walk.off < walk.len /\ ReqLevel(walk.kind) = 2
      /\ U \in Levels /\ U \in Nat /\ U > 2 /\ U <= MaxLevel /\ U - 1 = walk.level /\ MaxLevel \in Nat
      /\ h \in Pages /\ h \in Nat /\ h % Step[2] = 0
      /\ 2 \in Levels /\ Step[2] \in Nat /\ Step[2] > 0
      /\ n = h + Step[2] /\ n \in Nat /\ End(walk) \in Nat
      /\ Front(walk) = n /\ Found[U][h] # Absent
  <2>1. ReqLevel(walk.kind) = 2 BY DEF ReqLevel
  <2> QED BY <2>1, Upward, Consts
<1>2. \A k \in 0 .. MaxLevel, q \in Pages : k # U - 1 \/ Blk(q, U) # Blk(h, U) => G[k][q] = Found[k][q] OBVIOUS
<1>3. \A q \in Pages : Blk(q, U) = Blk(h, U) =>
         G[U - 1][q] = Absent \/ \E r \in Pages : Blk(r, U) = Blk(q, U) /\ G[U - 2][r] # Absent
  OBVIOUS
<1>4. w.level = U /\ w.pc \in {"loop", "up"} /\ Front(w) = n /\ End(w) = End(walk) /\ w.kind = "untable"
      /\ (w.pc = "up" => Ahead(w) = h /\ Beyond(w) = n)
      /\ (w.pc = "loop" => /\ Ahead(w) = n
                           /\ \/ U = MaxLevel
                              \/ IndexOf(n, U) > IndexOf(h, U) /\ mem[Found[U][h]][IndexOf(n, U)] # Absent)
  OBVIOUS
<1> HIDE DEF h, n, U
<1>5. ASSUME w.pc = "loop", U # MaxLevel
      PROVE  n \in Pages /\ Blk(n, U + 1) = Blk(h, U + 1) /\ G[U - 1][n] # Absent
  <2>1. IndexOf(n, U) > IndexOf(h, U) /\ mem[Found[U][h]][IndexOf(n, U)] # Absent BY <1>4, <1>5
  <2>2. U \in 2 .. MaxLevel /\ U + 1 \in 1 .. MaxLevel + 1 /\ MaxLevel + 1 \in U + 1 .. MaxLevel + 1 /\ U \in 0 .. MaxLevel
        /\ U - 1 \in 0 .. MaxLevel
    BY <1>1
  <2>3. Blk(n, U + 1) = Blk(h, U + 1) BY <1>1, <2>1, <2>2, NextIndex
  <2>4. Blk(n, MaxLevel + 1) = Blk(h, MaxLevel + 1) BY <1>1, <2>2, <2>3, Coarser
  <2>5. n \in Pages BY <1>1, <2>4, PageIs
  <2>6. Found[U][n] = Found[U][h] BY <1>0, <1>1, <2>2, <2>3, <2>5, TreeBlock
  <2>7. Found[U - 1][n] # Absent
    <3>1. mem[Found[U][n]][IndexOf(n, U)] = Found[U - 1][n] BY <1>1, <2>5, <2>6, FoundIs, EntryIs
    <3> QED BY <2>1, <2>6, <3>1
  <2>8. Blk(n, U) # Blk(h, U)
    <3>1. IndexOf(n, U) # IndexOf(h, U)
      <4>1. IndexOf(n, U) \in Index /\ IndexOf(h, U) \in Index BY <1>1, IndexIs
      <4>2. Fanout \in Nat BY Consts
      <4> QED BY <2>1, <4>1, <4>2 DEF Index
    <3> QED BY <1>1, <3>1, SameBlock
  <2>9. G[U - 1][n] = Found[U - 1][n] BY <1>2, <2>2, <2>5, <2>8
  <2> QED BY <2>3, <2>5, <2>7, <2>9
<1>6. ASSUME ~unfit, NEW k \in 1 .. MaxLevel - 1, NEW p \in Pages
      PROVE  \/ G[k][p] = Absent
             \/ \E q \in Pages : Blk(q, k + 1) = Blk(p, k + 1) /\ G[k - 1][q] # Absent
             \/ Excused(w, call, k, p)
  <2>0. k \in Nat /\ k \in 0 .. MaxLevel /\ k - 1 \in 0 .. MaxLevel /\ k + 1 \in 2 .. MaxLevel + 1 /\ k + 1 \in 1 .. MaxLevel + 1
    BY <1>1
  <2>1. CASE k >= U /\ Blk(p, k + 1) = Blk(h, k + 1)
    <3>1. CASE w.pc = "up" BY <1>4, <2>1, <3>1 DEF Excused
    <3>2. CASE w.pc = "loop"
      <4>1. U # MaxLevel BY <1>1, <2>0, <2>1
      <4>2. n \in Pages /\ Blk(n, U + 1) = Blk(h, U + 1) /\ G[U - 1][n] # Absent BY <1>5, <3>2, <4>1
      <4>3. U - 1 \in 0 .. MaxLevel /\ k - 1 \in U - 1 .. MaxLevel BY <1>1, <2>0, <2>1
      <4>4. G[k - 1][n] # Absent BY <4>2, <4>3, Path
      <4>5. U + 1 \in 1 .. MaxLevel + 1 /\ k + 1 \in U + 1 .. MaxLevel + 1 BY <1>1, <2>0, <2>1
      <4>6. Blk(n, k + 1) = Blk(h, k + 1) BY <1>1, <4>2, <4>5, Coarser
      <4> QED BY <2>1, <4>2, <4>4, <4>6
    <3> QED BY <1>4, <3>1, <3>2
  <2>2. CASE k = U - 1 /\ Blk(p, k + 1) = Blk(h, k + 1)
    <3>1. k + 1 = U /\ k - 1 = U - 2 BY <1>1, <2>2
    <3> QED BY <1>3, <2>2, <3>1
  <2>3. CASE ~(k >= U - 1 /\ Blk(p, k + 1) = Blk(h, k + 1))
    <3>1. G[k][p] = Found[k][p]
      <4>1. CASE k = U - 1
        <5>1. k + 1 = U BY <1>1, <4>1
        <5> QED BY <1>2, <2>0, <2>3, <4>1, <5>1, <1>1
      <4> QED BY <1>2, <2>0, <4>1
    <3>2. ASSUME NEW q \in Pages, Blk(q, k + 1) = Blk(p, k + 1) PROVE G[k - 1][q] = Found[k - 1][q]
      <4>1. CASE k - 1 = U - 1 /\ Blk(q, U) = Blk(h, U)
        <5>1. k = U /\ U \in 1 .. MaxLevel + 1 /\ U + 1 \in U .. MaxLevel + 1 BY <1>1, <2>0, <4>1
        <5>2. Blk(q, U + 1) = Blk(h, U + 1) BY <1>1, <4>1, <5>1, Coarser, PageNat
        <5> QED BY <1>1, <2>3, <3>2, <5>1, <5>2
      <4> QED BY <1>2, <2>0, <4>1
    <3>3. \/ Found[k][p] = Absent
          \/ \E q \in Pages : Blk(q, k + 1) = Blk(p, k + 1) /\ Found[k - 1][q] # Absent
          \/ Excused(walk, call, k, p)
      BY <1>0, <1>6 DEF Tidy
    <3>4. ASSUME Excused(walk, call, k, p) PROVE Excused(w, call, k, p)
      <4>1. \/ \E q \in Pages : Front(walk) <= q /\ q < End(walk) /\ Blk(q, k + 1) = Blk(p, k + 1)
            \/ k >= walk.level /\ Blk(Ahead(walk), k + 1) = Blk(p, k + 1)
        BY <3>4 DEF Excused
      <4>2. ~(k >= walk.level /\ Blk(Ahead(walk), k + 1) = Blk(p, k + 1)) BY <1>1, <2>3 DEF h
      <4>3. \E q \in Pages : Front(w) <= q /\ q < End(w) /\ Blk(q, k + 1) = Blk(p, k + 1) BY <1>1, <1>4, <4>1, <4>2
      <4> QED BY <1>4, <4>3 DEF Excused
    <3> QED BY <3>1, <3>2, <3>3, <3>4
  <2>4. k >= U - 1 => k >= U \/ k = U - 1 BY <1>1, <2>0
  <2> QED BY <2>1, <2>2, <2>3, <2>4
<1>7. Tidy(G, w, call, unfit) BY <1>6 DEF Tidy
<1>8. ASSUME ~unfit, w.off < w.len
      PROVE /\ \A p \in Pages : Beyond(w) <= p /\ p < End(w) => G[1][p] # Absent
            /\ w.pc # "up" => G[2][Ahead(w)] # Absent
  <2>1. \A p \in Pages : n <= p /\ p < End(walk) => Found[1][p] # Absent BY <1>0, <1>1, <1>8 DEF Covered, n
  <2>2. 1 \in 0 .. MaxLevel /\ 2 \in 1 .. MaxLevel /\ 1 # U - 1 BY <1>1, Consts
  <2>3. \A p \in Pages : G[1][p] = Found[1][p] BY <1>2, <2>2
  <2>4. ASSUME NEW p \in Pages, Beyond(w) <= p, p < End(w) PROVE G[1][p] # Absent
    <3>1. n <= p
      <4>1. CASE w.pc = "up" BY <1>4, <2>4, <4>1
      <4>2. CASE w.pc = "loop"
        <5>1. Beyond(w) = n + Step[2] BY <1>1, <1>4, <4>2 DEF Beyond
        <5>2. p \in Nat BY PageNat
        <5> QED BY <1>1, <2>4, <5>1, <5>2
      <4> QED BY <1>4, <4>1, <4>2
    <3> QED BY <1>4, <2>1, <2>3, <2>4, <3>1
  <2>5. ASSUME w.pc # "up" PROVE G[2][Ahead(w)] # Absent
    <3>1. Ahead(w) = n BY <1>4, <2>5
    <3>2. n < End(walk)
      <4>1. w.off \in Nat /\ w.base \in Nat /\ w.len \in Nat BY DEF Walks
      <4> QED BY <1>4, <1>8, <3>1, <4>1 DEF Ahead, End
    <3>3. n \in Pages
      <4>1. Phased(walk, call, unfit) /\ Bounds(walk, call) /\ Placed(walk, Found) BY DEF IInv
      <4>2. End(walk) <= Step[MaxLevel + 1] BY <1>0, <1>1, <4>1, Where
      <4>3. MaxLevel + 1 \in 1 .. MaxLevel + 1 BY Consts
      <4>4. Step[MaxLevel + 1] \in Nat BY <4>3, Steps
      <4> QED BY <1>1, <3>2, <4>2, <4>4, IsPage
    <3>4. G[1][n] # Absent BY <1>1, <2>1, <2>3, <3>2, <3>3
    <3> QED BY <2>2, <3>1, <3>3, <3>4, Path
  <2> QED BY <2>4, <2>5
<1>9. Covered(G, w, call, unfit) BY <1>4, <1>8 DEF Covered
<1> QED BY <1>7, <1>9

LEMMA RiseKeeps ==
  ASSUME IInv, Rise
  PROVE  IInv'
<1> DEFINE h == Ahead(walk)
<1>0. walk \in Walks /\ call \in Calls /\ Tree(Found) /\ unfit \in BOOLEAN /\ mem \in Memory
  BY DEF IInv, Shape
<1>1. /\ walk.pc = "up" /\ ~Spent /\ walk' = Raised(walk) /\ walk.pc \in Going
      /\ UNCHANGED <<mem, readonly, busy, call, grants, unfit>>
  BY DEF Rise, Going, tables
<1>2. /\ walk' \in Walks /\ walk'.pc \in {"loop", "up"} /\ walk'.pc \in Going
      /\ walk'.kind = walk.kind /\ walk'.base = walk.base /\ walk'.len = walk.len
      /\ walk'.level = Up /\ walk'.avail = walk.avail
      /\ walk'.used = walk.used /\ walk'.first = walk.first
      /\ Front(walk') = Beyond(walk) /\ End(walk') = End(walk)
      /\ Ahead(walk') % Step[ReqLevel(walk.kind)] = 0
      /\ (walk'.pc = "up" => walk'.off = walk.off /\ Ahead(walk') = h /\ Beyond(walk') = Beyond(walk))
      /\ (walk'.pc = "loop" =>
            /\ walk'.off = walk.off + Step[ReqLevel(walk.kind)] /\ Ahead(walk') = Beyond(walk)
            /\ \/ Up = MaxLevel
               \/ /\ IndexOf(Beyond(walk), Up) > IndexOf(h, Up)
                  /\ mem[Found[Up][h]][IndexOf(Beyond(walk), Up)] # Absent)
      /\ \A G : Tree(G) /\ (\A k \in Up .. MaxLevel, q \in Pages : G[k][q] = Found[k][q]) => Placed(walk', G)
  BY <1>0, <1>1, RaisedWalk
<1>3. Found' = Found BY <1>1, FoundSame
<1>4. /\ Up \in Levels /\ Up \in Nat /\ Up > 1 /\ Up <= MaxLevel /\ Up - 1 \in Levels /\ h \in Pages /\ Front(walk) = Beyond(walk)
      /\ walk.off < walk.len /\ Found[walk.level][h] # Absent /\ Up - 1 = walk.level /\ Entry(Up) = Found[Up - 1][h]
  BY <1>1, Upward
<1>5. Placed(walk', Found) BY <1>0, <1>2
<1>6. Supplied(walk', busy)
  <2>1. Supplied(walk, busy) BY DEF IInv
  <2>2. walk.kind = "map" => Step[ReqLevel(walk.kind)] = 1 BY Steps DEF ReqLevel
  <2>3. walk.off \in Nat BY <1>0 DEF Walks
  <2> QED BY <1>1, <1>2, <2>1, <2>2, <2>3 DEF Supplied
<1>7. Owned(walk', Found, busy)
  <2>1. Run(walk') = Run(walk) BY <1>2 DEF Run
  <2>2. \A k : Handed(walk', k) = Handed(walk, k) BY <1>1, <1>2, <2>1 DEF Handed
  <2>3. Owned(walk, Found, busy) BY DEF IInv
  <2> QED BY <1>1, <1>2, <2>2, <2>3 DEF Owned
<1>8. Changing(Found, readonly, walk', call)
  <2>1. Changing(Found, readonly, walk, call) BY DEF IInv
  <2> QED BY <1>2, <1>4, <2>1 DEF Changing
<1>9. Covered(Found, walk', call, unfit) /\ Tidy(Found, walk', call, unfit)
  <2>1. CASE walk.kind # "untable"
    <3>1. Covered(Found, walk, call, unfit) /\ Tidy(Found, walk, call, unfit) BY DEF IInv
    <3>2. Covered(Found, walk', call, unfit) BY <1>2, <1>4, <2>1, <3>1 DEF Covered
    <3> QED BY <1>2, <2>1, <3>1, <3>2, TidySame
  <2>2. CASE walk.kind = "untable"
    <3>1. Up - 2 = (Up - 1) - 1 /\ (Up - 1) + 1 = Up BY <1>4
    <3>2. \A q \in Pages : Blk(q, Up) = Blk(h, Up) => Found[Up - 1][q] = Found[Up - 1][h] BY <1>0, <1>4, TreeBlock
    <3>3. \E r \in Pages : Blk(r, Up) = Blk(h, Up) /\ Found[Up - 2][r] # Absent
      <4>1. Found[Up - 1][h] \in Frame \cup {Root} /\ Found[Up - 1][h] # Absent BY <1>0, <1>4, TableIs
      <4>2. mem[Found[Up - 1][h]] \in [Index -> Nat] BY <1>0, <4>1 DEF Memory
      <4>3. mem[Found[Up - 1][h]] # Clear BY <1>1, <1>4, <2>2, <4>1 DEF Spent, Empty
      <4>4. mem[Found[Up - 1][h]] = Clear <=>
               \A q \in Pages : Blk(q, (Up - 1) + 1) = Blk(h, (Up - 1) + 1) => Found[(Up - 1) - 1][q] = Absent
        BY <1>0, <1>4, <4>1, <4>2, FoundIs, EmptyIs
      <4> QED BY <3>1, <4>3, <4>4
    <3>4. \A q \in Pages : Blk(q, Up) = Blk(h, Up) =>
             Found[Up - 1][q] = Absent \/ \E r \in Pages : Blk(r, Up) = Blk(q, Up) /\ Found[Up - 2][r] # Absent
      BY <3>3
    <3> QED BY <1>0, <1>1, <1>2, <2>2, <3>4, TidyRisen
  <2> QED BY <1>1, <2>1, <2>2
<1>10. Sound(walk', call, unfit) BY <1>2 DEF Sound
<1>11. ReadOnly(Found, readonly) /\ Held(Found, readonly, call, grants) BY DEF IInv
<1> QED BY <1>0, <1>1, <1>2, <1>3, <1>5, <1>6, <1>7, <1>8, <1>9, <1>10, <1>11, Goes_On

LEMMA RiseAndDropKeeps ==
  ASSUME IInv, RiseAndDrop
  PROVE  IInv'
<1> DEFINE h == Ahead(walk)  l == Up  f == Found[l - 1][h]  u == walk.used + 1
           a == Lowest(f)
           w == [walk EXCEPT !.used = u, !.first = a]
           so == readonly \ {<<Found[l][h], IndexOf(h, l)>>}
<1>0. walk \in Walks /\ call \in Calls /\ Tree(Found) /\ unfit \in BOOLEAN /\ mem \in Memory /\ grants \in SUBSET Shares
  BY DEF IInv, Shape
<1>1. /\ walk.pc = "up" /\ Spent /\ Adjoins(Entry(Up)) /\ Cleared(Up) /\ walk' = Raised(With(Entry(Up)))
      /\ walk.pc \in Going /\ UNCHANGED <<busy, call, grants, unfit>>
  BY DEF RiseAndDrop, Going
<1>2. /\ l \in Levels /\ l \in Nat /\ l > 1 /\ l <= MaxLevel /\ l - 1 \in Levels /\ h \in Pages /\ Front(walk) = Beyond(walk)
      /\ walk.off < walk.len /\ l - 1 = walk.level /\ Entry(Up) = f /\ Found[l][h] # Absent /\ Table(Up) = Found[l][h]
      /\ Here = h /\ h \in Nat
  BY <1>1, Upward
<1>3. walk.kind = "untable" /\ f # Absent /\ mem[f] = Clear /\ ReqLevel(walk.kind) = 2 BY <1>1, <1>2 DEF Spent, Empty, ReqLevel
<1>4. /\ Apart(call, grants) /\ Held(Found, readonly, call, grants) /\ ReadOnly(Found, readonly) /\ Changing(Found, readonly, walk, call)
      /\ Phased(walk, call, unfit) /\ Bounds(walk, call)
  BY DEF IInv
<1>5. call.kind # "none"
  <2>1. <<call.kind, call.stage, walk.kind>> \in Phases BY <1>1, <1>4 DEF Phased, NoWalk
  <2> QED BY <2>1 DEF Phases
<1>6. f \in Nat
  <2>1. l - 1 \in 0 .. MaxLevel BY <1>2, Consts
  <2> QED BY <1>0, <1>2, <2>1 DEF Tree
<1>7. Cleared(l) /\ Adjoins(f) /\ walk' = Raised(With(f)) /\ Table(l) = Found[l][h] BY <1>1, <1>2
<1> HIDE DEF f, l
<1>8. /\ With(f) = w /\ u \in Nat /\ a \in Nat /\ a .. a + u - 1 = Run(walk) \cup {f}
  BY <1>0, <1>6, <1>7, WithIs
<1> HIDE DEF a, u
<1>9. /\ w \in Walks /\ w.used = u /\ w.first = a /\ w.pc = walk.pc /\ w.kind = walk.kind
      /\ w.base = walk.base /\ w.len = walk.len /\ w.off = walk.off
      /\ w.window = walk.window /\ w.avail = walk.avail
  BY <1>0, <1>8 DEF Walks
<1> HIDE DEF w
<1>10. /\ walk' \in Walks /\ walk'.pc \in {"loop", "up"} /\ walk'.pc \in Going
       /\ walk'.kind = walk.kind /\ walk'.base = walk.base /\ walk'.len = walk.len
       /\ walk'.level = Up
       /\ walk'.used = u /\ walk'.first = a
       /\ Front(walk') = Beyond(walk) /\ End(walk') = End(walk)
       /\ Ahead(walk') % Step[ReqLevel(walk.kind)] = 0
       /\ (walk'.pc = "up" => walk'.off = walk.off /\ Ahead(walk') = h /\ Beyond(walk') = Beyond(walk))
       /\ (walk'.pc = "loop" =>
             /\ Ahead(walk') = Beyond(walk)
             /\ \/ Up = MaxLevel
                \/ /\ IndexOf(Beyond(walk), Up) > IndexOf(h, Up)
                   /\ mem[Found[Up][h]][IndexOf(Beyond(walk), Up)] # Absent)
       /\ \A G : Tree(G) /\ (\A k \in Up .. MaxLevel, q \in Pages : G[k][q] = Found[k][q]) => Placed(walk', G)
  <2>1. walk' = Raised(w) BY <1>7, <1>8
  <2> QED BY <1>1, <1>9, <2>1, RaisedWalk
<1>11. mem' \in Memory /\ Fits(Found, l, h, Absent) /\ Found' = Changed(Found, l, h, Absent) /\ readonly' = so
  <2>1. mem' = [mem EXCEPT ![Found[l][h]][IndexOf(h, l)] = Absent] /\ readonly' = so BY <1>2, <1>7 DEF Cleared
  <2>2. Found[l - 1][h] # Absent /\ mem[Found[l - 1][h]] = Clear BY <1>3 DEF f
  <2>3. Clears(mem, Found, l, h, mem', Found') BY <1>0, <1>2, <2>1, <2>2, FoundIs, FoundNext DEF Clears
  <2> QED BY <2>1, <2>3, EntryCleared
<1>12. Tree(Found') BY <1>0, <1>11, TreeChanged
<1>13. \A k \in 0 .. MaxLevel, q \in Pages : Found'[k][q] = IF k = l - 1 /\ Blk(q, l) = Blk(h, l) THEN Absent ELSE Found[k][q]
  BY <1>11, ChangedIs
<1>14. Placed(walk', Found')
  <2>1. \A k \in l .. MaxLevel : k \in 0 .. MaxLevel /\ k # l - 1 BY <1>2, Consts
  <2>2. \A k \in Up .. MaxLevel, q \in Pages : Found'[k][q] = Found[k][q] BY <1>13, <2>1 DEF l
  <2> QED BY <1>10, <1>12, <2>2
<1>15. Supplied(walk', busy) BY <1>3, <1>10 DEF Supplied
<1>16. Owned(walk', Found', busy)
  <2>1. Run(walk') = Run(walk) \cup {f} BY <1>8, <1>10 DEF Run
  <2>2. walk.kind \in {"untable", "unpage"} /\ walk.pc \in {"loop", "up"} BY <1>1, <1>3
  <2>3. Run(walk') = Run(walk) \cup {Found[l - 1][h]} BY <2>1 DEF f
  <2> QED BY <1>10, <1>11, <2>2, <2>3, OwnedDropped
<1>17. ReadOnly(Found', readonly') /\ Held(Found', readonly', call, grants) /\ Changing(Found', readonly', walk', call)
  <2>1. so \in {readonly, readonly \ {<<Found[l][h], IndexOf(h, l)>>}} OBVIOUS
  <2>2. PagesOf(call) \subseteq Pages BY <1>0, <1>4, <1>5, CallPages
  <2>3. LET G == Changed(Found, l, h, Absent) IN
        ReadOnly(G, so) /\ Held(G, so, call, grants) /\ Changing(G, so, walk', call)
    BY <1>0, <1>2, <1>3, <1>4, <1>10, <1>11, <2>1, <2>2, PagesStill
  <2> QED BY <1>11, <2>3
<1>18. Tidy(Found', walk', call, unfit) /\ Covered(Found', walk', call, unfit)
  <2>1. \A k \in 0 .. MaxLevel, q \in Pages : k # Up - 1 \/ Blk(q, Up) # Blk(h, Up) => Found'[k][q] = Found[k][q]
    BY <1>13 DEF l
  <2>2. \A q \in Pages : Blk(q, Up) = Blk(h, Up) => Found'[Up - 1][q] = Absent
    <3>1. l - 1 \in 0 .. MaxLevel BY <1>2, Consts
    <3> QED BY <1>13, <3>1 DEF l
  <2> QED BY <1>0, <1>1, <1>3, <1>10, <1>12, <2>1, <2>2, TidyRisen
<1>20. Sound(walk', call, unfit) BY <1>10 DEF Sound
<1> QED BY <1>0, <1>1, <1>10, <1>11, <1>12, <1>14, <1>15, <1>16, <1>17, <1>18, <1>20, Goes_On

LEMMA RiseAndBreakKeeps ==
  ASSUME IInv, RiseAndBreak
  PROVE  IInv'
<1> DEFINE h == Ahead(walk)  n == Beyond(walk)
<1>0. walk \in Walks /\ call \in Calls /\ Tree(Found) /\ unfit \in BOOLEAN /\ mem \in Memory
  BY DEF IInv, Shape
<1>1. /\ walk.pc = "up" /\ Spent /\ walk' = [walk EXCEPT !.level = Up, !.pc = "return", !.st = 1] /\ walk.pc \in Going
      /\ UNCHANGED <<mem, readonly, busy, call, grants>> /\ unfit' = (unfit \/ Up > ReqLevel(walk.kind) + 1)
  BY <1>0 DEF RiseAndBreak, Going, tables, Return, Walks
<1>2. /\ Up \in Levels /\ Up \in Nat /\ Up <= MaxLevel /\ Up - 1 = walk.level /\ Up > ReqLevel(walk.kind)
      /\ h \in Pages /\ h \in Nat /\ Front(walk) = n /\ n \in Nat /\ n = h + Step[ReqLevel(walk.kind)]
      /\ Step[ReqLevel(walk.kind)] \in Nat /\ h < End(walk) /\ End(walk) \in Nat /\ h % Step[ReqLevel(walk.kind)] = 0
      /\ walk.off < walk.len /\ Found[walk.level][h] # Absent
  BY <1>1, Upward
<1>3. walk.kind = "untable" /\ ReqLevel(walk.kind) = 2 /\ 2 \in Nat BY <1>1 DEF Spent, ReqLevel
<1>4. /\ walk' \in Walks /\ walk'.pc = "return" /\ walk'.st = 1 /\ walk'.kind = walk.kind /\ walk'.base = walk.base
      /\ walk'.len = walk.len /\ walk'.off = walk.off /\ walk'.level = Up /\ walk'.window = walk.window
      /\ walk'.used = walk.used /\ walk'.first = walk.first
  BY <1>0, <1>1, <1>2 DEF Walks, Places
<1>5. Ahead(walk') = h /\ Beyond(walk') = n /\ Front(walk') = h /\ End(walk') = End(walk)
  BY <1>4 DEF Ahead, Beyond, Front, End
<1> HIDE DEF h, n
<1>6. Found' = Found BY <1>1, FoundSame
<1>7. Placed(walk', Found)
  <2>1. \A k \in Up .. MaxLevel : walk.window[k] = Found[k][h] /\ walk.window[k] # Absent
    <3>1. Placed(walk, Found) BY DEF IInv
    <3>2. \A k \in Up .. MaxLevel : k \in walk.level .. MaxLevel
      <4>1. walk.level \in Nat /\ MaxLevel \in Nat BY <1>0, Consts DEF Walks
      <4> QED BY <1>2, <4>1
    <3> QED BY <1>1, <1>2, <3>1, <3>2 DEF Placed, h
  <2>2. walk.off \in Nat /\ walk.len \in Nat BY <1>0 DEF Walks
  <2> QED BY <1>2, <1>3, <1>4, <1>5, <2>1, <2>2 DEF Placed
<1>8. Supplied(walk', busy) BY <1>3, <1>4 DEF Supplied
<1>9. Owned(walk', Found, busy)
  <2>1. Run(walk') = Run(walk) BY <1>4 DEF Run
  <2>2. \A k : Handed(walk', k) = Handed(walk, k) BY <1>1, <1>4, <2>1 DEF Handed
  <2>3. Owned(walk, Found, busy) BY DEF IInv
  <2> QED BY <1>1, <1>4, <2>2, <2>3 DEF Owned
<1>10. Changing(Found, readonly, walk', call)
  <2>1. Changing(Found, readonly, walk, call) BY DEF IInv
  <2> QED BY <1>3, <1>4, <2>1 DEF Changing
<1>11. ASSUME ~unfit' PROVE ~unfit /\ walk.level = 2
  <2>1. walk.level \in Nat /\ walk.level >= 2
    <3>1. Placed(walk, Found) BY DEF IInv
    <3> QED BY <1>0, <1>1, <1>3, <3>1, Consts DEF Placed, Walks
  <2>2. ~unfit /\ ~(Up > 2 + 1) BY <1>1, <1>3, <1>11
  <2>3. Up \in Nat /\ Up - 1 = walk.level BY <1>2
  <2> QED BY <2>1, <2>2, <2>3
<1>12. Covered(Found, walk', call, unfit')
  <2>1. Covered(Found, walk, call, unfit) BY DEF IInv
  <2>2. ASSUME ~unfit' PROVE /\ \A p \in Pages : n <= p /\ p < End(walk) => Found[1][p] # Absent
                             /\ Found[2][h] # Absent
    BY <1>1, <1>2, <1>3, <1>11, <2>1, <2>2 DEF Covered, n
  <2> QED BY <1>3, <1>4, <1>5, <2>2 DEF Covered
<1>13. Tidy(Found, walk', call, unfit')
  <2>1. ASSUME ~unfit', NEW k \in 1 .. MaxLevel - 1, NEW p \in Pages, Excused(walk, call, k, p)
        PROVE  Excused(walk', call, k, p)
    <3>1. \/ \E q \in Pages : n <= q /\ q < End(walk) /\ Blk(q, k + 1) = Blk(p, k + 1)
          \/ Blk(h, k + 1) = Blk(p, k + 1)
      BY <1>2, <1>3, <2>1 DEF Excused, h
    <3>2. \E q \in Pages : h <= q /\ q < End(walk) /\ Blk(q, k + 1) = Blk(p, k + 1)
      <4>1. \A q \in Pages : n <= q => h <= q BY <1>2, PageNat
      <4>2. h <= h /\ h < End(walk) /\ h \in Pages BY <1>2
      <4> HIDE DEF Blk, End
      <4>3. CASE Blk(h, k + 1) = Blk(p, k + 1) BY <4>2, <4>3
      <4>4. CASE \E q \in Pages : n <= q /\ q < End(walk) /\ Blk(q, k + 1) = Blk(p, k + 1) BY <4>1, <4>4
      <4> QED BY <3>1, <4>3, <4>4
    <3> QED BY <1>3, <1>4, <1>5, <3>2 DEF Excused
  <2>2. Tidy(Found, walk, call, unfit) BY DEF IInv
  <2> QED BY <1>11, <2>1, <2>2 DEF Tidy
<1>14. Sound(walk', call, unfit') BY <1>4 DEF Sound
<1>15. ReadOnly(Found, readonly) /\ Held(Found, readonly, call, grants) BY DEF IInv
<1>16. walk'.pc \in Going /\ Ahead(walk') % Step[ReqLevel(walk.kind)] = 0 BY <1>2, <1>4, <1>5 DEF Going
<1>17. unfit' \in BOOLEAN /\ (unfit => unfit') /\ (unfit' => unfit \/ walk.kind = "untable") BY <1>0, <1>1, <1>3
<1> QED BY <1>0, <1>1, <1>4, <1>6, <1>7, <1>8, <1>9, <1>10, <1>12, <1>13, <1>14, <1>15, <1>16, <1>17, Goes_On

(* Each step of a walk keeps the invariant.                                *)
LEMMA WalkKeeps ==
  ASSUME IInv, Walk
  PROVE  IInv'
<1>1. CASE \E f \in Frame : EnterWith(f) BY <1>1, EnterWithKeeps
<1>2. CASE NoFrames \/ Enter \/ Done \/ OutOfFrames
  BY <1>2, NoFramesKeeps, EnterKeeps, DoneKeeps, OutOfFramesKeeps
<1>3. CASE Descend \/ Missing \/ Build \/ Fill \/ Protect
  BY <1>3, DescendKeeps, MissingKeeps, BuildKeeps, FillKeeps, ProtectKeeps
<1>4. CASE \E l \in {1, 2} : Drop(l) \/ Break(l) \/ Pass(l)
  <2>1. PICK l \in {1, 2} : Drop(l) \/ Break(l) \/ Pass(l) BY <1>4
  <2>2. CASE Drop(l) BY <2>2, DropPageKeeps, DropTableKeeps
  <2>3. CASE Break(l) BY <2>3, BreakKeeps
  <2>4. CASE Pass(l) BY <2>4, PassKeeps
  <2> QED BY <2>1, <2>2, <2>3, <2>4
<1>5. CASE Rise \/ RiseAndDrop \/ RiseAndBreak \/ Back
  BY <1>5, RiseKeeps, RiseAndDropKeeps, RiseAndBreakKeeps, BackKeeps
<1> QED BY <1>1, <1>2, <1>3, <1>4, <1>5 DEF Walk

-------------------------------------------------------------------------------
(* Between walks: the next one begins at a page, with the root.            *)

LEMMA TopStep == Step[MaxLevel + 1] \in Nat
<1>1. MaxLevel + 1 \in 1 .. MaxLevel + 1 BY Consts
<1> QED BY <1>1, Steps

AtRoot == [l \in Levels |-> Root]

(* How a walk begins.                                                      *)
AtStart(w, kind, base, len) ==
  /\ w \in Walks /\ w.pc = "enter" /\ w.kind = kind /\ w.off = 0 /\ w.level = MaxLevel
  /\ w.base \in Nat /\ w.len \in Nat /\ len <= w.len
  /\ w.base <= base /\ base < w.base + Step[ReqLevel(kind)] /\ w.base % Step[ReqLevel(kind)] = 0
  /\ Ahead(w) = w.base /\ Front(w) = w.base /\ End(w) = base + len
  /\ w.window = AtRoot

LEMMA BegunIs ==
  ASSUME NEW kind \in Kinds, NEW base \in Nat, NEW len \in Nat
  PROVE  AtStart(Begun(kind, base, len), kind, base, len)
<1> DEFINE w == Begun(kind, base, len)  s == Step[ReqLevel(kind)]  at == base - (base % s)
<1>1. s \in Nat /\ s > 0
  <2>1. ReqLevel(kind) \in 1 .. MaxLevel + 1 BY Consts DEF ReqLevel
  <2> QED BY <2>1, Steps
<1> HIDE DEF s
<1>2. /\ base \div s \in Nat /\ base % s \in 0 .. s - 1 /\ base = (base \div s) * s + (base % s) /\ (base \div s) * s \in Nat
  BY <1>1, Division
<1>3. at = (base \div s) * s BY <1>2
<1>4. at % s = 0 BY <1>1, <1>2, <1>3, Exact
<1>5. at \in Nat /\ at <= base /\ base < at + s /\ base - at \in Nat
  <2> DEFINE x == (base \div s) * s  y == base % s
  <2>1. x \in Nat /\ y \in 0 .. s - 1 /\ base = x + y /\ at = x BY <1>2, <1>3
  <2> HIDE DEF x, y, at
  <2> QED BY <1>1, <2>1
<1> HIDE DEF at
<1>6. w = [NoWalk EXCEPT !.pc = "enter", !.kind = kind, !.base = at, !.len = len + (base - at)]
  BY DEF Begun, at, s
<1>7. NoWalk \in Walks BY Consts DEF NoWalk, Walks, Places, Kinds, Levels
<1>8. len + (base - at) \in Nat /\ len <= len + (base - at) /\ at + (len + (base - at)) = base + len BY <1>5
<1> DEFINE n == len + (base - at)
<1> HIDE DEF n, w
<1>9. /\ w \in Walks /\ w.pc = "enter" /\ w.kind = kind /\ w.off = 0 /\ w.level = MaxLevel /\ w.base = at /\ w.len = n
      /\ w.window = AtRoot
  BY <1>5, <1>6, <1>7, <1>8 DEF Walks, Places, NoWalk, n, AtRoot
<1>10. Ahead(w) = w.base /\ Front(w) = w.base /\ End(w) = base + len BY <1>5, <1>8, <1>9 DEF Ahead, Front, End, n
<1> QED BY <1>4, <1>5, <1>8, <1>9, <1>10 DEF n, s, w, AtStart

(* The state that a walk which begins or has ended leaves alone.           *)
Idles(w) == w.pc \in {"none", "enter", "end", "halt"}

LEMMA IdleOwns ==
  ASSUME NEW w, NEW x, NEW F, NEW b, Idles(w), Idles(x), Owned(w, F, b)
  PROVE  Owned(x, F, b)
<1>1. \A k : Handed(w, k) = {} /\ Handed(x, k) = {} BY DEF Handed, Idles
<1>2. w.pc # "astray" BY DEF Idles
<1> QED BY <1>1, <1>2 DEF Owned

(* A call begins, or goes on with its next walk.                           *)
LEMMA Begins ==
  ASSUME IInv, walk.pc \in {"none", "end"}, UNCHANGED <<mem, readonly, busy>>,
         call' \in Calls, grants' \in SUBSET Shares, unfit' \in BOOLEAN,
         NEW kind \in Kinds, NEW len \in Nat, walk' = Begun(kind, call'.base, len),
         <<call'.kind, call'.stage, kind>> \in Phases, unfit' => kind = "untable", call'.stage = "partial" => unfit',
         call'.len > 0, call'.base + call'.len <= Step[MaxLevel + 1], call'.base + len <= Step[MaxLevel + 1],
         call'.stage # "partial" => len <= call'.len,
         call'.stage = "do" \/ (call'.stage = "undo" /\ kind = "untable") => len = call'.len,
         Apart(call', grants'), Held(Found, readonly, call', grants'), Changing(Found, readonly, walk', call'),
         Covered(Found, walk', call', unfit'), Tidy(Found, walk', call', unfit')
  PROVE  IInv'
<1>0. walk \in Walks /\ Tree(Found) /\ mem \in Memory /\ busy \subseteq Frame BY DEF IInv, Shape
<1>1. call'.base \in Nat /\ call'.len \in Nat BY DEF Calls
<1>2. /\ walk' \in Walks /\ walk'.pc = "enter" /\ walk'.kind = kind /\ walk'.off = 0 /\ walk'.level = MaxLevel
      /\ walk'.base \in Nat /\ walk'.len \in Nat
      /\ walk'.base <= call'.base /\ call'.base < walk'.base + Step[ReqLevel(kind)] /\ walk'.base % Step[ReqLevel(kind)] = 0
      /\ Ahead(walk') = walk'.base /\ Front(walk') = walk'.base /\ End(walk') = call'.base + len
      /\ walk'.window = AtRoot
  <2>1. AtStart(walk', kind, call'.base, len) BY <1>1, BegunIs
  <2> QED BY <2>1 DEF AtStart
<1>3. Found' = Found BY FoundSame
<1>4. Shape' BY <1>0, <1>2 DEF Shape
<1>5. Phased(walk', call', unfit') BY <1>2 DEF Phased
<1>6. Bounds(walk', call')
  <2>1. call'.stage # "partial" => call'.base + len <= call'.base + call'.len BY <1>1
  <2> QED BY <1>1, <1>2, <2>1 DEF Bounds
<1>7. Placed(walk', Found)
  <2>1. ReqLevel(walk'.kind) <= MaxLevel /\ MaxLevel \in Nat BY <1>2, Consts DEF ReqLevel
  <2>2. ASSUME walk'.off < walk'.len, NEW l \in walk'.level .. MaxLevel PROVE walk'.window[l] = Found[l][Ahead(walk')] /\ walk'.window[l] # Absent
    <3>1. l = MaxLevel /\ l \in Levels BY <1>2, <2>1, <2>2, Consts DEF Levels
    <3>2. Ahead(walk') < End(walk') BY <1>2, <2>2 DEF Ahead, End
    <3>3. Ahead(walk') \in Pages BY <1>1, <1>2, <3>2, TopStep, IsPage
    <3> QED BY <1>0, <1>2, <3>1, <3>3, Consts DEF Tree, AtRoot
  <2> QED BY <1>2, <2>1, <2>2 DEF Placed
<1>8. Supplied(walk', busy) BY <1>2 DEF Supplied
<1>9. Owned(walk', Found, busy)
  <2>1. Idles(walk) /\ Idles(walk') BY <1>2 DEF Idles
  <2>2. Owned(walk, Found, busy) BY DEF IInv
  <2> QED BY <2>1, <2>2, IdleOwns
<1>10. ReadOnly(Found, readonly) BY DEF IInv
<1>11. Sound(walk', call', unfit') BY <1>2 DEF Sound
<1> QED BY <1>0, <1>3, <1>4, <1>5, <1>6, <1>7, <1>8, <1>9, <1>10, <1>11 DEF IInv

(* A call has ended.                                                       *)
LEMMA Finishes ==
  ASSUME IInv, walk.pc = "end", UNCHANGED <<mem, readonly, busy, unfit>>, walk' = NoWalk, call' = NoCall,
         grants' \in SUBSET Shares, Apart(NoCall, grants'), Held(Found, readonly, NoCall, grants'),
         ~unfit => \A l \in 1 .. MaxLevel - 1, p \in Pages :
           Found[l][p] = Absent \/ \E q \in Pages : Blk(q, l + 1) = Blk(p, l + 1) /\ Found[l - 1][q] # Absent
  PROVE  IInv'
<1>0. Tree(Found) /\ mem \in Memory /\ busy \subseteq Frame /\ unfit \in BOOLEAN BY DEF IInv, Shape
<1>1. NoWalk \in Walks BY Consts DEF NoWalk, Walks, Places, Kinds, Levels
<1>2. NoCall \in Calls BY DEF NoCall, Calls, CallKinds
<1>3. Found' = Found BY FoundSame
<1>4. Shape' BY <1>0, <1>1, <1>2 DEF Shape
<1>5. Phased(NoWalk, NoCall, unfit) /\ Bounds(NoWalk, NoCall) /\ Placed(NoWalk, Found) /\ Supplied(NoWalk, busy)
  BY DEF Phased, Bounds, Placed, Supplied, NoWalk, NoCall, Going
<1>6. Owned(NoWalk, Found, busy)
  <2>1. Idles(walk) /\ Idles(NoWalk) BY DEF Idles, NoWalk
  <2>2. Owned(walk, Found, busy) BY DEF IInv
  <2> QED BY <2>1, <2>2, IdleOwns
<1>7. ReadOnly(Found, readonly) BY DEF IInv
<1>8. PagesOf(NoCall) = {} BY DEF PagesOf, NoCall
<1>9. Changing(Found, readonly, NoWalk, NoCall) BY <1>8 DEF Changing
<1>10. Covered(Found, NoWalk, NoCall, unfit) /\ Sound(NoWalk, NoCall, unfit) BY DEF Covered, Sound, NoWalk
<1>11. Tidy(Found, NoWalk, NoCall, unfit) BY DEF Tidy
<1> QED BY <1>3, <1>4, <1>5, <1>6, <1>7, <1>9, <1>10, <1>11 DEF IInv

(* A walk that has ended, in its call.                                     *)
LEMMA AtEnd ==
  ASSUME IInv, walk.pc = "end"
  PROVE  /\ walk \in Walks /\ call \in Calls /\ grants \in SUBSET Shares /\ unfit \in BOOLEAN /\ Tree(Found)
         /\ call.kind # "none" /\ <<call.kind, call.stage, walk.kind>> \in Phases
         /\ unfit => walk.kind = "untable"
         /\ call.base \in Nat /\ call.len \in Nat /\ call.len > 0 /\ call.base + call.len <= Step[MaxLevel + 1]
         /\ walk.base \in Nat /\ walk.off \in Nat /\ walk.len \in Nat
         /\ walk.base <= call.base /\ call.base < walk.base + Step[ReqLevel(walk.kind)]
         /\ call.stage = "do" \/ (call.stage = "undo" /\ walk.kind = "untable") => End(walk) = call.base + call.len
         /\ PagesOf(call) \subseteq Pages
         /\ \A p \in PagesOf(call) : p \in Nat /\ call.base <= p /\ p < call.base + call.len
         /\ Front(walk) = walk.base + walk.off /\ End(walk) = walk.base + walk.len
         /\ Apart(call, grants) /\ Held(Found, readonly, call, grants) /\ ReadOnly(Found, readonly)
         /\ Changing(Found, readonly, walk, call) /\ Covered(Found, walk, call, unfit) /\ Tidy(Found, walk, call, unfit)
         /\ Sound(walk, call, unfit)
         /\ walk.st \in {-1, 0} /\ (walk.st = 0 <=> walk.off >= walk.len)
<1>0. walk \in Walks /\ call \in Calls /\ grants \in SUBSET Shares /\ unfit \in BOOLEAN /\ Tree(Found)
  BY DEF IInv, Shape
<1>1. Phased(walk, call, unfit) /\ Bounds(walk, call) /\ Placed(walk, Found) BY DEF IInv
<1>2. <<call.kind, call.stage, walk.kind>> \in Phases /\ (unfit => walk.kind = "untable") BY <1>1 DEF Phased, NoWalk
<1>3. call.kind # "none" BY <1>2 DEF Phases
<1>4. /\ call.base \in Nat /\ call.len \in Nat /\ walk.base \in Nat /\ walk.off \in Nat /\ walk.len \in Nat
      /\ walk.st \in {-1, 0, 1}
  BY <1>0 DEF Walks, Calls
<1>5. /\ call.len > 0 /\ call.base + call.len <= Step[MaxLevel + 1]
      /\ walk.base <= call.base /\ call.base < walk.base + Step[ReqLevel(walk.kind)]
      /\ call.stage = "do" \/ (call.stage = "undo" /\ walk.kind = "untable") => End(walk) = call.base + call.len
  BY <1>1, <1>3 DEF Bounds
<1>6. PagesOf(call) \subseteq Pages BY <1>0, <1>1, <1>3, CallPages
<1>7. \A p \in PagesOf(call) : p \in Nat /\ call.base <= p /\ p < call.base + call.len BY <1>4 DEF PagesOf
<1>8. Front(walk) = walk.base + walk.off /\ End(walk) = walk.base + walk.len BY DEF Front, Ahead, End
<1>9. walk.st # 1 /\ (walk.st = 0 <=> walk.off >= walk.len) BY <1>1 DEF Placed
<1>10. /\ Apart(call, grants) /\ Held(Found, readonly, call, grants) /\ ReadOnly(Found, readonly)
       /\ Changing(Found, readonly, walk, call) /\ Covered(Found, walk, call, unfit) /\ Tidy(Found, walk, call, unfit)
       /\ Sound(walk, call, unfit)
  BY DEF IInv
<1> QED BY <1>0, <1>2, <1>3, <1>4, <1>5, <1>6, <1>7, <1>8, <1>9, <1>10

(* What is left alone when a call goes on.                                 *)
LEMMA NextStage ==
  ASSUME NEW stage \in {"do", "undo", "partial"}, call \in Calls, call' = [call EXCEPT !.stage = stage],
         Apart(call, grants), Held(Found, readonly, call, grants)
  PROVE  /\ call' \in Calls /\ call'.stage = stage /\ call'.kind = call.kind /\ call'.base = call.base /\ call'.len = call.len
         /\ PagesOf(call') = PagesOf(call) /\ Apart(call', grants) /\ Held(Found, readonly, call', grants)
<1>1. call' \in Calls /\ call'.stage = stage /\ call'.kind = call.kind /\ call'.base = call.base /\ call'.len = call.len
  BY DEF Calls
<1>2. PagesOf(call') = PagesOf(call) BY <1>1 DEF PagesOf
<1>3. Apart(call', grants) BY <1>1, <1>2 DEF Apart
<1>4. Held(Found, readonly, call', grants) BY <1>1, <1>2 DEF Held
<1> QED BY <1>1, <1>2, <1>3, <1>4

LEMMA TablesBuiltKeeps ==
  ASSUME IInv, TablesBuilt
  PROVE  IInv'
<1> DEFINE kind == IF call.kind = "map" THEN "map" ELSE "pages"
<1>1. /\ walk.pc = "end" /\ walk.kind = "tables" /\ call.stage = "do" /\ ~Failed
      /\ walk' = Begun(kind, call.base, call.len) /\ call' = [call EXCEPT !.stage = "do"]
      /\ UNCHANGED <<mem, readonly, busy, grants, unfit>>
  BY DEF TablesBuilt, Ended, Then, tables
<1>2. /\ walk \in Walks /\ call \in Calls /\ grants \in SUBSET Shares /\ unfit \in BOOLEAN /\ Tree(Found)
      /\ <<call.kind, call.stage, walk.kind>> \in Phases /\ ~unfit
      /\ call.base \in Nat /\ call.len \in Nat /\ call.len > 0 /\ call.base + call.len <= Step[MaxLevel + 1]
      /\ walk.base \in Nat /\ walk.off \in Nat /\ walk.len \in Nat /\ walk.base <= call.base
      /\ End(walk) = call.base + call.len /\ PagesOf(call) \subseteq Pages
      /\ \A p \in PagesOf(call) : p \in Nat /\ call.base <= p /\ p < call.base + call.len
      /\ Front(walk) = walk.base + walk.off /\ End(walk) = walk.base + walk.len
      /\ Apart(call, grants) /\ Held(Found, readonly, call, grants)
      /\ Changing(Found, readonly, walk, call) /\ Covered(Found, walk, call, unfit) /\ Tidy(Found, walk, call, unfit)
  BY <1>1, AtEnd
<1>3. walk.off >= walk.len BY <1>1, AtEnd DEF Failed
<1>4. /\ call' \in Calls /\ call'.stage = "do" /\ call'.kind = call.kind /\ call'.base = call.base /\ call'.len = call.len
      /\ PagesOf(call') = PagesOf(call) /\ Apart(call', grants) /\ Held(Found, readonly, call', grants)
  BY <1>1, <1>2, NextStage
<1>5. call.kind \in {"alloc", "map"} /\ kind \in {"pages", "map"} /\ kind \in Kinds
      /\ <<call'.kind, call'.stage, kind>> \in Phases
  BY <1>1, <1>2, <1>4 DEF Phases, Kinds
<1> HIDE DEF kind
<1>6. AtStart(walk', kind, call.base, call.len) BY <1>1, <1>2, <1>5, BegunIs
<1>7. walk'.kind = kind /\ walk'.pc = "enter" /\ Front(walk') = walk'.base /\ ReqLevel(kind) = 1 /\ walk'.base = call.base
  <2>1. ReqLevel(kind) = 1 BY <1>5 DEF ReqLevel
  <2>2. /\ walk'.kind = kind /\ walk'.pc = "enter" /\ Front(walk') = walk'.base /\ walk'.base \in Nat
        /\ walk'.base <= call.base /\ call.base < walk'.base + 1
    BY <1>6, <2>1, Steps DEF AtStart
  <2> QED BY <1>2, <2>1, <2>2
<1>8. Changing(Found, readonly, walk', call')
  <2>1. \A p \in PagesOf(call) : Found[0][p] = Absent /\ p >= Front(walk') BY <1>1, <1>2, <1>7 DEF Changing
  <2>2. \A p \in PagesOf(call) : call.kind \in {"alloc", "map"} => ~Marked(Found, readonly, p) BY <1>2 DEF Changing
  <2> QED BY <1>4, <1>5, <1>7, <2>1, <2>2 DEF Changing
<1>9. Covered(Found, walk', call', unfit)
  <2>1. \A p \in PagesOf(call) : Found[1][p] # Absent
    <3>1. \A p \in PagesOf(call) : p \in Pages /\ walk.base <= p /\ p < Front(walk) BY <1>2, <1>3
    <3> QED BY <1>1, <1>2, <3>1 DEF Covered
  <2> QED BY <1>4, <1>5, <1>7, <2>1 DEF Covered
<1>10. Tidy(Found, walk', call', unfit)
  <2>1. walk.kind # "untable" /\ walk'.kind # "untable" BY <1>1, <1>5, <1>7
  <2> QED BY <1>2, <1>4, <2>1 DEF Tidy, Excused
<1>11. unfit' = unfit /\ grants' = grants /\ walk' = Begun(kind, call'.base, call.len) BY <1>1, <1>4
<1> QED BY <1>1, <1>2, <1>4, <1>5, <1>8, <1>9, <1>10, <1>11, Begins

LEMMA PagesNotFilledKeeps ==
  ASSUME IInv, PagesNotFilled
  PROVE  IInv'
<1>1. /\ walk.pc = "end" /\ walk.kind = "pages" /\ call.stage = "do" /\ Failed
      /\ walk' = Begun("unpage", call.base, walk.off) /\ call' = [call EXCEPT !.stage = "undo"]
      /\ UNCHANGED <<mem, readonly, busy, grants, unfit>>
  BY DEF PagesNotFilled, Ended, Then, tables
<1>2. /\ walk \in Walks /\ call \in Calls /\ grants \in SUBSET Shares /\ unfit \in BOOLEAN /\ Tree(Found)
      /\ <<call.kind, call.stage, walk.kind>> \in Phases /\ ~unfit
      /\ call.base \in Nat /\ call.len \in Nat /\ call.len > 0 /\ call.base + call.len <= Step[MaxLevel + 1]
      /\ walk.base \in Nat /\ walk.off \in Nat /\ walk.len \in Nat /\ walk.base <= call.base
      /\ call.base < walk.base + Step[ReqLevel(walk.kind)]
      /\ End(walk) = call.base + call.len /\ PagesOf(call) \subseteq Pages
      /\ \A p \in PagesOf(call) : p \in Nat /\ call.base <= p /\ p < call.base + call.len
      /\ Front(walk) = walk.base + walk.off /\ End(walk) = walk.base + walk.len
      /\ Apart(call, grants) /\ Held(Found, readonly, call, grants)
      /\ Changing(Found, readonly, walk, call) /\ Covered(Found, walk, call, unfit) /\ Tidy(Found, walk, call, unfit)
  BY <1>1, AtEnd
<1>3. walk.base = call.base /\ walk.len = call.len /\ walk.off < walk.len
  <2>1. ReqLevel(walk.kind) = 1 BY <1>1 DEF ReqLevel
  <2>2. walk.base = call.base BY <1>2, <2>1, Steps
  <2>3. walk.len = call.len BY <1>2, <2>2
  <2>4. walk.st < 0 BY <1>1, <1>2, <2>3 DEF Failed
  <2>5. ~(walk.off >= walk.len) BY <1>1, <2>4, AtEnd
  <2> QED BY <1>2, <2>2, <2>3, <2>5
<1>4. /\ call' \in Calls /\ call'.stage = "undo" /\ call'.kind = call.kind /\ call'.base = call.base /\ call'.len = call.len
      /\ PagesOf(call') = PagesOf(call) /\ Apart(call', grants) /\ Held(Found, readonly, call', grants)
  BY <1>1, <1>2, NextStage
<1>5. call.kind = "alloc" /\ "unpage" \in Kinds /\ <<call'.kind, call'.stage, "unpage">> \in Phases
  BY <1>1, <1>2, <1>4 DEF Phases, Kinds
<1>6. AtStart(walk', "unpage", call.base, walk.off) BY <1>1, <1>2, <1>5, BegunIs
<1>7. walk'.kind = "unpage" /\ walk'.pc = "enter" /\ Front(walk') = call.base /\ End(walk') = call.base + walk.off
  <2>1. ReqLevel("unpage") = 1 BY DEF ReqLevel
  <2>2. /\ walk'.kind = "unpage" /\ walk'.pc = "enter" /\ Front(walk') = walk'.base /\ walk'.base \in Nat
        /\ walk'.base <= call.base /\ call.base < walk'.base + 1 /\ End(walk') = call.base + walk.off
    BY <1>6, <2>1, Steps DEF AtStart
  <2>3. walk'.base = call.base BY <1>2, <2>2
  <2> QED BY <2>2, <2>3
<1>8. Changing(Found, readonly, walk', call')
  <2>1. \A p \in PagesOf(call) : Found[0][p] \in Frame \cup {Absent} /\ ~Marked(Found, readonly, p)
    BY <1>2, <1>5 DEF Changing
  <2>2. ASSUME NEW p \in PagesOf(call), p < Front(walk') \/ p >= End(walk') PROVE Found[0][p] = Absent
    <3>1. p >= Front(walk) BY <1>2, <1>3, <1>7, <2>2
    <3> QED BY <1>1, <1>2, <3>1 DEF Changing
  <2> QED BY <1>4, <1>5, <1>7, <2>1, <2>2 DEF Changing
<1>9. Covered(Found, walk', call', unfit) BY <1>1, <1>2, <1>4, <1>7 DEF Covered
<1>10. Tidy(Found, walk', call', unfit) BY <1>1, <1>2, <1>4, <1>7 DEF Tidy, Excused
<1>11. /\ unfit' = unfit /\ grants' = grants /\ walk' = Begun("unpage", call'.base, walk.off)
       /\ call'.base + walk.off <= Step[MaxLevel + 1] /\ walk.off <= call'.len
  <2>1. Step[MaxLevel + 1] \in Nat BY TopStep
  <2> QED BY <1>1, <1>2, <1>3, <1>4, <2>1
<1> QED BY <1>1, <1>2, <1>4, <1>5, <1>8, <1>9, <1>10, <1>11, Begins

(* The tables of what has been emptied are emptied next.                   *)
LEMMA EmptiedKeeps ==
  ASSUME IInv, walk.pc = "end", walk.kind \in {"unpage", "unmap"}, ~Failed, NEW stage \in {"do", "undo"}, call.stage = stage,
         Then("untable", stage, call.len), unfit' = unfit
  PROVE  IInv'
<1>1. /\ walk' = Begun("untable", call.base, call.len) /\ call' = [call EXCEPT !.stage = stage]
      /\ UNCHANGED <<mem, readonly, busy, grants, unfit>>
  BY DEF Then, tables
<1>2. /\ walk \in Walks /\ call \in Calls /\ grants \in SUBSET Shares /\ unfit \in BOOLEAN /\ Tree(Found)
      /\ <<call.kind, call.stage, walk.kind>> \in Phases /\ ~unfit
      /\ call.base \in Nat /\ call.len \in Nat /\ call.len > 0 /\ call.base + call.len <= Step[MaxLevel + 1]
      /\ walk.base \in Nat /\ walk.off \in Nat /\ walk.len \in Nat /\ walk.base <= call.base
      /\ PagesOf(call) \subseteq Pages
      /\ \A p \in PagesOf(call) : p \in Nat /\ call.base <= p /\ p < call.base + call.len
      /\ Front(walk) = walk.base + walk.off /\ End(walk) = walk.base + walk.len
      /\ Apart(call, grants) /\ Held(Found, readonly, call, grants)
      /\ Changing(Found, readonly, walk, call) /\ Covered(Found, walk, call, unfit) /\ Tidy(Found, walk, call, unfit)
  BY AtEnd
<1>3. walk.off >= walk.len BY AtEnd DEF Failed
<1>4. /\ call' \in Calls /\ call'.stage = stage /\ call'.kind = call.kind /\ call'.base = call.base /\ call'.len = call.len
      /\ PagesOf(call') = PagesOf(call) /\ Apart(call', grants) /\ Held(Found, readonly, call', grants)
  BY <1>1, <1>2, NextStage
<1>5. /\ call.kind \in {"alloc", "free", "unmap"} /\ "untable" \in Kinds /\ <<call'.kind, call'.stage, "untable">> \in Phases
  BY <1>2, <1>4 DEF Phases, Kinds
<1>6. AtStart(walk', "untable", call.base, call.len) BY <1>1, <1>2, <1>5, BegunIs
<1>7. /\ walk'.kind = "untable" /\ walk'.pc = "enter" /\ Front(walk') = walk'.base /\ walk'.base \in Nat /\ Ahead(walk') = walk'.base
      /\ walk'.base <= call.base /\ call.base < walk'.base + Step[2] /\ walk'.base % Step[2] = 0
      /\ End(walk') = call.base + call.len /\ Beyond(walk') = walk'.base + Step[2]
  <2>1. ReqLevel("untable") = 2 BY DEF ReqLevel
  <2>2. walk'.kind = "untable" BY <1>6 DEF AtStart
  <2> QED BY <1>6, <2>1, <2>2 DEF AtStart, Beyond
<1>8. \A p \in PagesOf(call) : Found[0][p] = Absent
  <2>1. \A p \in PagesOf(call) : p < Front(walk) \/ p >= End(walk) BY <1>2, <1>3
  <2> QED BY <1>2, <2>1 DEF Changing
<1>9. Changing(Found, readonly, walk', call')
  <2>1. \A p \in PagesOf(call) : call.kind \in {"alloc", "map"} => ~Marked(Found, readonly, p) BY <1>2 DEF Changing
  <2> QED BY <1>4, <1>5, <1>7, <1>8, <2>1 DEF Changing
<1>10. \A p \in PagesOf(call) : Found[1][p] # Absent BY <1>2 DEF Covered
<1>11. \A p \in Nat : p \in PagesOf(call) <=> call.base <= p /\ p < call.base + call.len BY <1>2 DEF PagesOf
<1>12. Covered(Found, walk', call', unfit)
  <2>1. 2 \in Levels /\ 1 \in 0 .. MaxLevel /\ 2 \in 1 .. MaxLevel /\ 1 \in Levels /\ 2 - 1 = 1 /\ Step[2] \in Nat /\ Step[2] > 0
    <3>1. 2 \in 1 .. MaxLevel + 1 BY Consts
    <3> QED BY <3>1, Steps, Consts DEF Levels
  <2>2. \A p \in Pages : Beyond(walk') <= p /\ p < End(walk') => Found[1][p] # Absent
    <3>1. ASSUME NEW p \in Pages, Beyond(walk') <= p, p < End(walk') PROVE p \in PagesOf(call)
      <4>1. p \in Nat BY PageNat
      <4> QED BY <1>2, <1>7, <1>11, <2>1, <3>1, <4>1
    <3> QED BY <1>10, <3>1
  <2>3. Found[2][Ahead(walk')] # Absent
    <3>1. call.base \in PagesOf(call) /\ call.base \in Pages BY <1>2, <1>11
    <3>2. walk'.base \in Pages BY <1>2, <1>7, TopStep, IsPage
    <3>3. Blk(call.base, 2) = Blk(walk'.base, 2) BY <1>2, <1>7, <2>1, InBlock
    <3>4. Found[1][walk'.base] = Found[1][call.base] BY <1>2, <2>1, <3>1, <3>2, <3>3, TreeBlock
    <3>5. Found[1][walk'.base] # Absent BY <1>10, <3>1, <3>4
    <3> QED BY <1>2, <1>7, <2>1, <3>2, <3>5, Path
  <2> QED BY <1>7, <2>2, <2>3 DEF Covered
<1>13. Tidy(Found, walk', call', unfit)
  <2>1. ASSUME NEW l \in 1 .. MaxLevel - 1, NEW p \in Pages, Excused(walk, call, l, p) PROVE Excused(walk', call', l, p)
    <3>1. PICK q \in PagesOf(call) : Blk(q, l + 1) = Blk(p, l + 1) BY <2>1 DEF Excused
    <3>2. q \in Pages /\ Front(walk') <= q /\ q < End(walk') BY <1>2, <1>7
    <3> QED BY <1>7, <3>1, <3>2 DEF Excused
  <2> QED BY <1>2, <2>1 DEF Tidy
<1>14. unfit' = unfit /\ grants' = grants /\ walk' = Begun("untable", call'.base, call.len) BY <1>1, <1>4
<1> QED BY <1>1, <1>2, <1>4, <1>5, <1>9, <1>12, <1>13, <1>14, Begins

LEMMA TablesNotBuiltKeeps ==
  ASSUME IInv, TablesNotBuilt
  PROVE  IInv'
<1>1. /\ walk.pc = "end" /\ walk.kind = "tables" /\ call.stage = "do" /\ Failed /\ unfit' = TRUE
      /\ walk' = Begun("untable", call.base, walk.off) /\ call' = [call EXCEPT !.stage = "partial"]
      /\ UNCHANGED <<mem, readonly, busy, grants>>
  BY DEF TablesNotBuilt, Ended, Then, tables
<1>2. /\ walk \in Walks /\ call \in Calls /\ grants \in SUBSET Shares /\ Tree(Found)
      /\ <<call.kind, call.stage, walk.kind>> \in Phases
      /\ call.base \in Nat /\ call.len \in Nat /\ call.len > 0 /\ call.base + call.len <= Step[MaxLevel + 1]
      /\ walk.base \in Nat /\ walk.off \in Nat /\ walk.len \in Nat /\ walk.base <= call.base
      /\ call.base < walk.base + Step[ReqLevel(walk.kind)]
      /\ End(walk) = call.base + call.len /\ PagesOf(call) \subseteq Pages
      /\ Front(walk) = walk.base + walk.off /\ End(walk) = walk.base + walk.len
      /\ Apart(call, grants) /\ Held(Found, readonly, call, grants) /\ Changing(Found, readonly, walk, call)
  BY <1>1, AtEnd
<1>3. call.base + walk.off <= Step[MaxLevel + 1]
  <2> DEFINE s == Step[2]  a == walk.base + walk.off  q == a + s - 1
  <2>1. ReqLevel(walk.kind) = 2 /\ 2 \in Levels /\ 2 \in 1 .. MaxLevel + 1 BY <1>1, Consts DEF ReqLevel, Levels
  <2>2. s \in Nat /\ s > 0 BY <2>1, Steps
  <2>3. walk.off < walk.len
    <3>1. walk.len # 0 BY <1>2
    <3>2. ~(walk.off >= walk.len) BY <1>1, <3>1, AtEnd DEF Failed
    <3> QED BY <1>2, <3>2
  <2>4. a % s = 0 /\ a \in Nat
    <3>1. Bounds(walk, call) /\ call.kind # "none" BY <1>1, AtEnd DEF IInv
    <3> QED BY <1>2, <2>1, <3>1 DEF Bounds, Ahead
  <2>5. a \in Pages BY <1>2, <2>3, TopStep, IsPage
  <2>6. q \in Nat /\ a <= q /\ q < a + s BY <2>2, <2>4
  <2> HIDE DEF q
  <2>7. Blk(q, 2) = Blk(a, 2) BY <2>1, <2>4, <2>6, InBlock
  <2>8. MaxLevel + 1 \in 2 .. MaxLevel + 1 BY Consts
  <2>9. Blk(q, MaxLevel + 1) = Blk(a, MaxLevel + 1) BY <2>1, <2>4, <2>6, <2>7, <2>8, Coarser
  <2>10. q \in Pages BY <2>5, <2>6, <2>9, PageIs
  <2>11. q < Step[MaxLevel + 1] BY <2>10, PageBelow
  <2>12. a + s <= Step[MaxLevel + 1] BY <2>2, <2>4, <2>11, TopStep DEF q
  <2>13. call.base < walk.base + s BY <1>2, <2>1
  <2> HIDE DEF s
  <2> QED BY <1>2, <2>2, <2>12, <2>13, TopStep
<1>4. /\ call' \in Calls /\ call'.stage = "partial" /\ call'.kind = call.kind /\ call'.base = call.base /\ call'.len = call.len
      /\ PagesOf(call') = PagesOf(call) /\ Apart(call', grants) /\ Held(Found, readonly, call', grants)
  BY <1>1, <1>2, NextStage
<1>5. /\ call.kind \in {"alloc", "map"} /\ "untable" \in Kinds /\ <<call'.kind, call'.stage, "untable">> \in Phases
  BY <1>1, <1>2, <1>4 DEF Phases, Kinds
<1>6. walk'.kind = "untable"
  <2>1. AtStart(walk', "untable", call.base, walk.off) BY <1>1, <1>2, <1>5, BegunIs
  <2> QED BY <2>1 DEF AtStart
<1>7. Changing(Found, readonly, walk', call')
  <2>1. \A p \in PagesOf(call) : Found[0][p] = Absent /\ (call.kind \in {"alloc", "map"} => ~Marked(Found, readonly, p))
    BY <1>1, <1>2 DEF Changing
  <2> QED BY <1>4, <1>5, <1>6, <2>1 DEF Changing
<1>8. Covered(Found, walk', call', unfit') /\ Tidy(Found, walk', call', unfit') BY <1>1, <1>6 DEF Covered, Tidy
<1>9. unfit' \in BOOLEAN /\ grants' = grants /\ walk' = Begun("untable", call'.base, walk.off) BY <1>1, <1>4
<1> QED BY <1>1, <1>2, <1>3, <1>4, <1>5, <1>7, <1>8, <1>9, Begins

LEMMA UndoFailsKeeps ==
  ASSUME IInv, UndoFails
  PROVE  IInv'
<1>1. /\ walk.pc = "end" /\ walk.kind \in {"unpage", "untable"} /\ call.stage = "undo" /\ Failed
      /\ walk' = [walk EXCEPT !.pc = "halt"]
      /\ UNCHANGED <<mem, readonly, busy, grants, call, unfit>>
  BY DEF UndoFails, Halted, Ended, tables
<1>2. /\ walk \in Walks /\ call \in Calls /\ mem \in Memory /\ busy \subseteq Frame /\ grants \subseteq Shares /\ unfit \in BOOLEAN
      /\ Phased(walk, call, unfit) /\ Bounds(walk, call) /\ Placed(walk, Found) /\ Supplied(walk, busy) /\ Owned(walk, Found, busy)
      /\ Changing(Found, readonly, walk, call) /\ Covered(Found, walk, call, unfit) /\ Tidy(Found, walk, call, unfit)
      /\ Sound(walk, call, unfit) /\ Tree(Found)
  BY DEF IInv, Shape
<1>3. /\ walk' \in Walks /\ walk'.pc = "halt" /\ walk'.kind = walk.kind /\ walk'.base = walk.base /\ walk'.len = walk.len
      /\ walk'.off = walk.off /\ walk'.level = walk.level /\ walk'.window = walk.window /\ walk'.st = walk.st
      /\ walk'.first = walk.first /\ walk'.used = walk.used
  BY <1>1, <1>2 DEF Walks, Places
<1>4. Ahead(walk') = Ahead(walk) /\ End(walk') = End(walk) /\ Front(walk') = Front(walk) BY <1>1, <1>3 DEF Ahead, End, Front
<1>5. Found' = Found BY <1>1, FoundSame
<1>6. Shape' BY <1>1, <1>2, <1>3 DEF Shape
<1>7. Phased(walk', call, unfit)
  <2>1. walk # NoWalk BY <1>1 DEF NoWalk
  <2> QED BY <1>2, <1>3, <2>1 DEF Phased
<1>8. Bounds(walk', call) BY <1>2, <1>3, <1>4 DEF Bounds
<1>9. Placed(walk', Found) BY <1>1, <1>2, <1>3 DEF Placed, Going
<1>10. Supplied(walk', busy) BY <1>1, <1>3 DEF Supplied
<1>11. Owned(walk', Found, busy)
  <2>1. Idles(walk) /\ Idles(walk') BY <1>1, <1>3 DEF Idles
  <2> QED BY <1>2, <2>1, IdleOwns
<1>12. Changing(Found, readonly, walk', call) BY <1>2, <1>3, <1>4 DEF Changing
<1>13. Covered(Found, walk', call, unfit) BY <1>1, <1>2, <1>3 DEF Covered, Going
<1>14. Tidy(Found, walk', call, unfit)
  <2>1. \A l, p : Excused(walk, call, l, p) => Excused(walk', call, l, p) BY <1>1, <1>3, <1>4 DEF Excused
  <2> QED BY <1>2, <2>1 DEF Tidy
<1>15. Sound(walk', call, unfit)
  <2>1. ~unfit => walk.len = 0
    <3>1. ~unfit => walk.st # -1 BY <1>1, <1>2 DEF Sound
    <3>2. walk.st \in {-1, 0, 1} BY <1>2 DEF Walks
    <3> QED BY <1>1, <3>1, <3>2 DEF Failed
  <2> QED BY <1>3, <2>1 DEF Sound
<1> QED BY <1>1, <1>2, <1>5, <1>6, <1>7, <1>8, <1>9, <1>10, <1>11, <1>12, <1>13, <1>14, <1>15 DEF IInv

LEMMA PagesFilledKeeps ==
  ASSUME IInv, PagesFilled
  PROVE  IInv'
<1> DEFINE new == [base |-> call.base, len |-> call.len, kind |-> call.kind, readonly |-> {}]
<1>1. /\ walk.pc = "end" /\ walk.kind \in {"pages", "map"} /\ call.stage = "do" /\ ~Failed
      /\ walk' = NoWalk /\ call' = NoCall /\ grants' = grants \cup {new}
      /\ UNCHANGED <<mem, readonly, busy, unfit>>
  BY DEF PagesFilled, Ended, Finished, tables, Granted
<1>2. /\ walk \in Walks /\ call \in Calls /\ grants \in SUBSET Shares /\ ~unfit
      /\ <<call.kind, call.stage, walk.kind>> \in Phases
      /\ call.base \in Nat /\ call.len \in Nat /\ call.len > 0
      /\ walk.base \in Nat /\ walk.off \in Nat /\ walk.len \in Nat
      /\ End(walk) = call.base + call.len /\ PagesOf(call) \subseteq Pages
      /\ \A p \in PagesOf(call) : p \in Nat /\ call.base <= p /\ p < call.base + call.len
      /\ Front(walk) = walk.base + walk.off /\ End(walk) = walk.base + walk.len
      /\ Apart(call, grants) /\ Held(Found, readonly, call, grants)
      /\ Changing(Found, readonly, walk, call) /\ Covered(Found, walk, call, unfit) /\ Tidy(Found, walk, call, unfit)
  BY <1>1, AtEnd
<1>3. walk.off >= walk.len BY <1>1, AtEnd DEF Failed
<1>4. call.kind \in {"alloc", "map"} BY <1>1, <1>2 DEF Phases
<1>5. /\ new \in Shares /\ new.base = call.base /\ new.kind = call.kind /\ new.readonly = {} /\ new.len = call.len
  BY <1>2, <1>4 DEF Shares
<1>6. PagesOf(new) = PagesOf(call) BY <1>5 DEF PagesOf
<1> HIDE DEF new
<1>7. grants' \in SUBSET Shares BY <1>1, <1>2, <1>5
<1>8. PagesOf(NoCall) = {} /\ NoCall.kind = "none" BY DEF PagesOf, NoCall
<1>9. \A g \in grants : PagesOf(g) \cap PagesOf(call) = {} BY <1>2, <1>4 DEF Apart, UsedBy
<1>10. Apart(NoCall, grants') BY <1>1, <1>2, <1>5, <1>6, <1>8, <1>9 DEF Apart
<1>11. Held(Found, readonly, NoCall, grants')
  <2>1. UsedBy(grants') = UsedBy(grants) \cup PagesOf(call) BY <1>1, <1>6 DEF UsedBy
  <2>2. ASSUME NEW p \in PagesOf(call)
        PROVE  /\ IF call.kind = "map" THEN Found[0][p] = Device + p - call.base ELSE Found[0][p] \in Frame
               /\ ~Marked(Found, readonly, p)
    <3>1. p < Front(walk) /\ p \in Nat BY <1>2, <1>3, <2>2
    <3>2. Found[0][p] # Absent
      <4>1. ~(p >= Front(walk)) BY <1>2, <3>1
      <4> QED BY <1>1, <1>2, <2>2, <4>1 DEF Changing
    <3> QED BY <1>2, <1>4, <2>2, <3>2 DEF Changing
  <2>3. \A p \in PagesOf(new) :
          /\ IF new.kind = "map" THEN Found[0][p] = Device + p - new.base ELSE Found[0][p] \in Frame
          /\ (Marked(Found, readonly, p) <=> p \in new.readonly)
    BY <1>5, <1>6, <2>2
  <2>4. \A g \in grants : \A p \in PagesOf(g) :
          /\ IF g.kind = "map" THEN Found[0][p] = Device + p - g.base ELSE Found[0][p] \in Frame
          /\ (Marked(Found, readonly, p) <=> p \in g.readonly)
    BY <1>2, <1>9 DEF Held
  <2>5. \A p \in Pages : p \notin UsedBy(grants') => Found[0][p] = Absent BY <1>2, <2>1 DEF Held
  <2> QED BY <1>1, <1>8, <2>3, <2>4, <2>5 DEF Held
<1>12. ASSUME NEW l \in 1 .. MaxLevel - 1, NEW p \in Pages
       PROVE  Found[l][p] = Absent \/ \E q \in Pages : Blk(q, l + 1) = Blk(p, l + 1) /\ Found[l - 1][q] # Absent
  <2>1. ASSUME Excused(walk, call, l, p), Found[l][p] # Absent
        PROVE  \E q \in Pages : Blk(q, l + 1) = Blk(p, l + 1) /\ Found[l - 1][q] # Absent
    <3>1. PICK q \in PagesOf(call) : Blk(q, l + 1) = Blk(p, l + 1) BY <1>1, <2>1 DEF Excused
    <3>2. q \in Pages /\ q \in PagesOf(new) BY <1>2, <1>6
    <3>3. Found[0][q] # Absent
      <4>1. ~(q >= Front(walk)) BY <1>2, <1>3
      <4> QED BY <1>1, <1>2, <4>1 DEF Changing
    <3>4. 0 \in 0 .. MaxLevel /\ l - 1 \in 0 .. MaxLevel BY Consts
    <3>5. Found[l - 1][q] # Absent
      <4>1. Tree(Found) BY DEF IInv
      <4> QED BY <3>2, <3>3, <3>4, <4>1, Path
    <3> QED BY <3>1, <3>2, <3>5
  <2> QED BY <1>2, <2>1 DEF Tidy
<1> QED BY <1>1, <1>7, <1>10, <1>11, <1>12, Finishes

(* A call that has emptied its range is done with it.                      *)
LEMMA ReleasedKeeps ==
  ASSUME IInv, walk.pc = "end", walk.kind = "untable", Finished({}), unfit' = unfit
  PROVE  IInv'
<1>1. walk' = NoWalk /\ call' = NoCall /\ grants' = grants /\ UNCHANGED <<mem, readonly, busy, unfit>>
  BY DEF Finished, tables
<1>2. /\ walk \in Walks /\ call \in Calls /\ grants \in SUBSET Shares
      /\ <<call.kind, call.stage, walk.kind>> \in Phases
      /\ walk.base \in Nat /\ walk.off \in Nat /\ walk.len \in Nat
      /\ Front(walk) = walk.base + walk.off /\ End(walk) = walk.base + walk.len
      /\ Apart(call, grants) /\ Held(Found, readonly, call, grants)
      /\ Changing(Found, readonly, walk, call) /\ Tidy(Found, walk, call, unfit) /\ Sound(walk, call, unfit)
      /\ walk.st \in {-1, 0} /\ (walk.st = 0 <=> walk.off >= walk.len)
  BY AtEnd
<1>3. call.kind \in {"alloc", "map", "free", "unmap"} BY <1>2 DEF Phases
<1>4. PagesOf(NoCall) = {} /\ NoCall.kind = "none" BY DEF PagesOf, NoCall
<1>5. \A g \in grants : PagesOf(g) \cap PagesOf(call) = {} BY <1>2, <1>3 DEF Apart, UsedBy
<1>6. Apart(NoCall, grants) BY <1>2, <1>4 DEF Apart
<1>7. Held(Found, readonly, NoCall, grants)
  <2>1. \A p \in PagesOf(call) : Found[0][p] = Absent BY <1>2 DEF Changing
  <2>2. \A p \in Pages : p \notin UsedBy(grants) => Found[0][p] = Absent BY <1>2, <2>1 DEF Held
  <2>3. \A g \in grants : \A p \in PagesOf(g) :
          /\ IF g.kind = "map" THEN Found[0][p] = Device + p - g.base ELSE Found[0][p] \in Frame
          /\ (Marked(Found, readonly, p) <=> p \in g.readonly)
    BY <1>2, <1>5 DEF Held
  <2> QED BY <1>4, <2>2, <2>3 DEF Held
<1>8. ASSUME ~unfit, NEW l \in 1 .. MaxLevel - 1, NEW p \in Pages
      PROVE  Found[l][p] = Absent \/ \E q \in Pages : Blk(q, l + 1) = Blk(p, l + 1) /\ Found[l - 1][q] # Absent
  <2>1. walk.off >= walk.len BY <1>2, <1>8 DEF Sound
  <2>2. ~Excused(walk, call, l, p)
    <3>1. \A q \in Pages : ~(Front(walk) <= q /\ q < End(walk)) BY <1>2, <2>1, PageNat
    <3> QED BY <3>1 DEF Excused
  <2> QED BY <1>2, <1>8, <2>2 DEF Tidy
<1> QED BY <1>1, <1>2, <1>6, <1>7, <1>8, Finishes

LEMMA ProtectedKeeps ==
  ASSUME IInv, Protected
  PROVE  IInv'
<1>1. /\ walk.pc = "end" /\ walk.kind = "attr" /\ call.stage = "do" /\ ~Failed
      /\ walk' = NoWalk /\ call' = NoCall /\ grants' = grants /\ UNCHANGED <<mem, readonly, busy, unfit>>
  BY DEF Protected, Ended, Finished, tables
<1>2. /\ walk \in Walks /\ call \in Calls /\ grants \in SUBSET Shares /\ ~unfit
      /\ <<call.kind, call.stage, walk.kind>> \in Phases
      /\ call.base \in Nat /\ call.len \in Nat
      /\ walk.base \in Nat /\ walk.off \in Nat /\ walk.len \in Nat
      /\ End(walk) = call.base + call.len
      /\ \A p \in PagesOf(call) : p \in Nat /\ call.base <= p /\ p < call.base + call.len
      /\ Front(walk) = walk.base + walk.off /\ End(walk) = walk.base + walk.len
      /\ Apart(call, grants) /\ Held(Found, readonly, call, grants)
      /\ Changing(Found, readonly, walk, call) /\ Tidy(Found, walk, call, unfit)
  BY <1>1, AtEnd
<1>3. walk.off >= walk.len BY <1>1, AtEnd DEF Failed
<1>4. call.kind = "attr" BY <1>1, <1>2 DEF Phases
<1>5. PagesOf(NoCall) = {} /\ NoCall.kind = "none" BY DEF PagesOf, NoCall
<1>6. Apart(NoCall, grants) BY <1>2, <1>5 DEF Apart
<1>7. PICK a \in grants : a.kind = "alloc" /\ PagesOf(call) \subseteq a.readonly BY <1>2, <1>4 DEF Apart
<1>8. PagesOf(call) \subseteq PagesOf(a) BY <1>2, <1>7 DEF Apart
<1>9. Held(Found, readonly, NoCall, grants)
  <2>1. \A p \in Pages : p \notin UsedBy(grants) => Found[0][p] = Absent BY <1>2, <1>8 DEF Held, UsedBy
  <2>2. \A p \in PagesOf(call) : Marked(Found, readonly, p)
    <3>1. \A p \in PagesOf(call) : p < Front(walk) BY <1>2, <1>3
    <3> QED BY <1>1, <1>2, <3>1 DEF Changing
  <2>3. ASSUME NEW g \in grants, NEW p \in PagesOf(g)
        PROVE /\ IF g.kind = "map" THEN Found[0][p] = Device + p - g.base ELSE Found[0][p] \in Frame
              /\ (Marked(Found, readonly, p) <=> p \in g.readonly)
    <3>1. p \in PagesOf(call) => g = a BY <1>2, <1>8 DEF Apart
    <3>2. p \in PagesOf(call) => p \in g.readonly BY <1>7, <3>1
    <3> QED BY <1>2, <2>2, <3>2 DEF Held
  <2> QED BY <1>5, <2>1, <2>3 DEF Held
<1>10. ASSUME NEW l \in 1 .. MaxLevel - 1, NEW p \in Pages
       PROVE  Found[l][p] = Absent \/ \E q \in Pages : Blk(q, l + 1) = Blk(p, l + 1) /\ Found[l - 1][q] # Absent
  <2>1. ~Excused(walk, call, l, p) BY <1>1, <1>4 DEF Excused
  <2> QED BY <1>2, <2>1 DEF Tidy
<1> QED BY <1>1, <1>2, <1>6, <1>9, <1>10, Finishes

(* Each step of vm.c between two walks keeps the invariant.                *)
LEMMA VmKeeps ==
  ASSUME IInv, Vm
  PROVE  IInv'
<1>1. CASE TablesBuilt BY <1>1, TablesBuiltKeeps
<1>2. CASE TablesNotBuilt BY <1>2, TablesNotBuiltKeeps
<1>3. CASE PagesFilled BY <1>3, PagesFilledKeeps
<1>4. CASE PagesNotFilled BY <1>4, PagesNotFilledKeeps
<1>5. CASE PagesUndone
  <2>1. walk.pc = "end" /\ walk.kind = "unpage" /\ call.stage = "undo" /\ ~Failed /\ unfit' = unfit /\ Then("untable", "undo", call.len)
    BY <1>5 DEF PagesUndone, Ended
  <2> QED BY <2>1, EmptiedKeeps
<1>6. CASE PagesDropped
  <2>1. /\ walk.pc = "end" /\ walk.kind \in {"unpage", "unmap"} /\ call.stage = "do" /\ ~Failed /\ unfit' = unfit
        /\ Then("untable", "do", call.len)
    BY <1>6 DEF PagesDropped, Ended
  <2> QED BY <2>1, EmptiedKeeps
<1>7. CASE AllUndone BY <1>7, ReleasedKeeps DEF AllUndone, Ended
<1>8. CASE TablesDropped BY <1>8, ReleasedKeeps DEF TablesDropped, Ended
<1>9. CASE UndoFails BY <1>9, UndoFailsKeeps
<1>10. CASE Protected BY <1>10, ProtectedKeeps
<1> QED BY <1>1, <1>2, <1>3, <1>4, <1>5, <1>6, <1>7, <1>8, <1>9, <1>10 DEF Vm

-------------------------------------------------------------------------------
(* Between calls, and their beginnings.                                    *)

(* Between calls nothing is under way.                                     *)
LEMMA AtRest ==
  ASSUME IInv, call.kind = "none"
  PROVE  /\ walk = NoWalk /\ call = NoCall /\ walk.pc = "none" /\ PagesOf(call) = {}
         /\ grants \in SUBSET Shares /\ unfit \in BOOLEAN /\ Tree(Found)
         /\ Apart(call, grants) /\ ReadOnly(Found, readonly)
         /\ \A p \in Pages : p \notin UsedBy(grants) => Found[0][p] = Absent
         /\ \A g \in grants : \A p \in PagesOf(g) :
              /\ IF g.kind = "map" THEN Found[0][p] = Device + p - g.base ELSE Found[0][p] \in Frame
              /\ (Marked(Found, readonly, p) <=> p \in g.readonly)
         /\ ~unfit => \A l \in 1 .. MaxLevel - 1, p \in Pages :
              Found[l][p] = Absent \/ \E q \in Pages : Blk(q, l + 1) = Blk(p, l + 1) /\ Found[l - 1][q] # Absent
<1>1. Phased(walk, call, unfit) /\ Held(Found, readonly, call, grants) /\ Tidy(Found, walk, call, unfit)
      /\ grants \in SUBSET Shares /\ unfit \in BOOLEAN /\ Tree(Found)
      /\ Apart(call, grants) /\ ReadOnly(Found, readonly)
  BY DEF IInv, Shape
<1>2. walk = NoWalk /\ call = NoCall BY <1>1 DEF Phased, Phases
<1>3. walk.pc = "none" /\ walk.kind = "none" /\ PagesOf(call) = {} BY <1>2 DEF NoWalk, NoCall, PagesOf
<1>4. \A p \in Pages : p \notin UsedBy(grants) => Found[0][p] = Absent BY <1>1, <1>3 DEF Held
<1>5. \A g \in grants : \A p \in PagesOf(g) :
        /\ IF g.kind = "map" THEN Found[0][p] = Device + p - g.base ELSE Found[0][p] \in Frame
        /\ (Marked(Found, readonly, p) <=> p \in g.readonly)
  BY <1>1, <1>3 DEF Held
<1>6. \A l, p : ~Excused(walk, call, l, p) BY <1>3 DEF Excused
<1>7. ~unfit => \A l \in 1 .. MaxLevel - 1, p \in Pages :
        Found[l][p] = Absent \/ \E q \in Pages : Blk(q, l + 1) = Blk(p, l + 1) /\ Found[l - 1][q] # Absent
  BY <1>1, <1>6 DEF Tidy
<1> QED BY <1>1, <1>2, <1>3, <1>4, <1>5, <1>7

LEMMA InPages ==
  ASSUME NEW base \in Nat, NEW len \in Nat, len > 0, base .. base + len - 1 \subseteq Pages
  PROVE  base + len <= Step[MaxLevel + 1]
<1>1. base + len - 1 \in Pages OBVIOUS
<1>2. base + len - 1 < Step[MaxLevel + 1] BY <1>1, PageBelow
<1> QED BY <1>2, TopStep

(* The first walk of a call.                                               *)
Opening == {<<"alloc", "tables">>, <<"map", "tables">>, <<"free", "unpage">>, <<"unmap", "unmap">>, <<"attr", "attr">>}

Opened(kind, first, r) ==
  /\ call.kind = "none" /\ ~unfit /\ UNCHANGED <<mem, readonly, busy, unfit>>
  /\ walk.pc \in {"none", "end"} /\ unfit' = FALSE /\ unfit' \in BOOLEAN
  /\ call' \in Calls /\ call'.kind = kind /\ call'.stage = "do" /\ call'.base = r.base /\ call'.len = r.len
  /\ PagesOf(call') = PagesOf(r) /\ first \in Kinds
  /\ walk' = Begun(first, call'.base, call'.len) /\ <<call'.kind, call'.stage, first>> \in Phases
  /\ call'.len \in Nat /\ call'.len > 0 /\ call'.base + call'.len <= Step[MaxLevel + 1]
  /\ walk'.kind = first /\ walk'.pc = "enter" /\ Front(walk') = walk'.base /\ walk'.base \in Nat
  /\ ReqLevel(first) = 1 => Front(walk') = r.base /\ End(walk') = r.base + r.len

LEMMA CalledIs ==
  ASSUME IInv, NEW kind, NEW first, <<kind, first>> \in Opening, NEW r, r.base \in Nat, r.len \in Nat, r.len > 0,
         PagesOf(r) \subseteq Pages, Called(kind, first, r)
  PROVE  Opened(kind, first, r)
<1>1. /\ call.kind = "none" /\ ~unfit /\ UNCHANGED <<mem, readonly, busy, unfit>>
      /\ call' = [kind |-> kind, stage |-> "do", base |-> r.base, len |-> r.len]
      /\ walk' = Begun(first, r.base, r.len)
  BY DEF Called, tables
<1>2. kind \in {"alloc", "map", "free", "unmap", "attr"} /\ first \in Kinds /\ <<kind, "do", first>> \in Phases
  BY DEF Opening, Kinds, Phases
<1>3. call' \in Calls /\ call'.kind = kind /\ call'.stage = "do" /\ call'.base = r.base /\ call'.len = r.len
  BY <1>1, <1>2 DEF Calls, CallKinds
<1>4. PagesOf(call') = PagesOf(r) BY <1>3 DEF PagesOf
<1>5. r.base + r.len <= Step[MaxLevel + 1] BY InPages DEF PagesOf
<1>6. AtStart(walk', first, r.base, r.len) BY <1>1, <1>2, BegunIs
<1>7. walk'.kind = first /\ walk'.pc = "enter" /\ Front(walk') = walk'.base /\ walk'.base \in Nat
      /\ walk'.base <= r.base /\ r.base < walk'.base + Step[ReqLevel(first)] /\ End(walk') = r.base + r.len
  BY <1>6 DEF AtStart
<1>8. ReqLevel(first) = 1 => walk'.base = r.base
  <2>1. ASSUME ReqLevel(first) = 1 PROVE walk'.base = r.base
    <3>1. r.base < walk'.base + 1 BY <1>7, <2>1, Steps
    <3> QED BY <1>7, <3>1
  <2> QED BY <2>1
<1>9. walk.pc \in {"none", "end"} BY <1>1, AtRest
<1>10. walk' = Begun(first, call'.base, call'.len) /\ <<call'.kind, call'.stage, first>> \in Phases BY <1>1, <1>2, <1>3
<1>11. call'.len \in Nat /\ call'.len > 0 /\ call'.base + call'.len <= Step[MaxLevel + 1] BY <1>3, <1>5
<1>12. ReqLevel(first) = 1 => Front(walk') = r.base /\ End(walk') = r.base + r.len BY <1>7, <1>8
<1>13. unfit' = FALSE /\ unfit' \in BOOLEAN
  <2>1. unfit \in BOOLEAN /\ unfit' = unfit BY <1>1 DEF IInv, Shape
  <2> QED BY <1>1, <2>1
<1> QED BY <1>1, <1>2, <1>3, <1>4, <1>7, <1>9, <1>10, <1>11, <1>12, <1>13 DEF Opened

LEMMA ClaimKeeps ==
  ASSUME IInv, NEW r \in Ranges, NEW kind \in {"alloc", "map"}, NEW first, first = "tables",
         Available(r), Called(kind, first, r), UNCHANGED grants
  PROVE  IInv'
<1>1. r.base \in Nat /\ r.len \in Nat /\ r.len > 0 /\ PagesOf(r) \subseteq Pages BY PgmgrAssumption DEF PagesOf
<1>2. <<kind, first>> \in Opening BY DEF Opening
<1>3. /\ call.kind = "none" /\ ~unfit /\ UNCHANGED <<mem, readonly, busy, unfit>>
      /\ walk.pc \in {"none", "end"} /\ unfit' = FALSE /\ unfit' \in BOOLEAN
      /\ call' \in Calls /\ call'.kind = kind /\ call'.stage = "do" /\ call'.base = r.base /\ call'.len = r.len
      /\ PagesOf(call') = PagesOf(r) /\ first \in Kinds
      /\ walk' = Begun(first, call'.base, call'.len) /\ <<call'.kind, call'.stage, first>> \in Phases
      /\ call'.len \in Nat /\ call'.len > 0 /\ call'.base + call'.len <= Step[MaxLevel + 1]
      /\ walk'.kind = first /\ walk'.pc = "enter" /\ Front(walk') = walk'.base /\ walk'.base \in Nat
  <2>1. Opened(kind, first, r) BY <1>1, <1>2, CalledIs
  <2> QED BY <2>1 DEF Opened
<1>4. /\ PagesOf(call) = {} /\ grants \in SUBSET Shares /\ Tree(Found) /\ Apart(call, grants) /\ ReadOnly(Found, readonly)
      /\ \A p \in Pages : p \notin UsedBy(grants) => Found[0][p] = Absent
      /\ \A g \in grants : \A p \in PagesOf(g) :
           /\ IF g.kind = "map" THEN Found[0][p] = Device + p - g.base ELSE Found[0][p] \in Frame
           /\ (Marked(Found, readonly, p) <=> p \in g.readonly)
      /\ \A l \in 1 .. MaxLevel - 1, p \in Pages :
           Found[l][p] = Absent \/ \E q \in Pages : Blk(q, l + 1) = Blk(p, l + 1) /\ Found[l - 1][q] # Absent
  BY <1>3, AtRest
<1>5. grants' = grants /\ PagesOf(r) \cap UsedBy(grants) = {} BY DEF Available, Used, UsedBy
<1>6. Apart(call', grants') BY <1>3, <1>4, <1>5 DEF Apart
<1>7. Held(Found, readonly, call', grants') BY <1>4, <1>5 DEF Held
<1>8. Changing(Found, readonly, walk', call')
  <2>1. \A p \in PagesOf(call') : p \in Pages /\ Found[0][p] = Absent BY <1>1, <1>3, <1>4, <1>5
  <2>2. \A p \in PagesOf(call') : ~Marked(Found, readonly, p) BY <1>4, <2>1, Unmarked
  <2> QED BY <1>3, <2>1, <2>2 DEF Changing
<1>9. Covered(Found, walk', call', unfit')
  <2>1. \A p \in Pages : ~(walk'.base <= p /\ p < Front(walk')) BY <1>3, PageNat
  <2> QED BY <1>3, <2>1 DEF Covered
<1>10. Tidy(Found, walk', call', unfit') BY <1>4 DEF Tidy
<1> QED BY <1>3, <1>4, <1>5, <1>6, <1>7, <1>8, <1>9, <1>10, Begins

LEMMA ReleaseKeeps ==
  ASSUME IInv, NEW g \in grants, NEW kind, NEW first, <<g.kind, kind, first>> \in {<<"alloc", "free", "unpage">>, <<"map", "unmap", "unmap">>},
         Called(kind, first, g), grants' = grants \ {g}
  PROVE  IInv'
<1>0. g \in Shares /\ Apart(call, grants) BY DEF IInv, Shape
<1>1. g.base \in Nat /\ g.len \in Nat /\ g.len > 0 /\ PagesOf(g) \subseteq Pages BY <1>0 DEF Shares, Apart
<1>2. <<kind, first>> \in Opening /\ ReqLevel(first) = 1 BY DEF Opening, ReqLevel
<1>3. /\ call.kind = "none" /\ ~unfit /\ UNCHANGED <<mem, readonly, busy, unfit>>
      /\ walk.pc \in {"none", "end"} /\ unfit' = FALSE /\ unfit' \in BOOLEAN
      /\ call' \in Calls /\ call'.kind = kind /\ call'.stage = "do" /\ call'.base = g.base /\ call'.len = g.len
      /\ PagesOf(call') = PagesOf(g) /\ first \in Kinds
      /\ walk' = Begun(first, call'.base, call'.len) /\ <<call'.kind, call'.stage, first>> \in Phases
      /\ call'.len \in Nat /\ call'.len > 0 /\ call'.base + call'.len <= Step[MaxLevel + 1]
      /\ walk'.kind = first /\ walk'.pc = "enter" /\ Front(walk') = g.base /\ End(walk') = g.base + g.len
  <2>1. Opened(kind, first, g) BY <1>1, <1>2, CalledIs
  <2> QED BY <1>2, <2>1 DEF Opened
<1>4. /\ PagesOf(call) = {} /\ grants \in SUBSET Shares /\ Tree(Found) /\ ReadOnly(Found, readonly)
      /\ \A p \in Pages : p \notin UsedBy(grants) => Found[0][p] = Absent
      /\ \A h \in grants : \A p \in PagesOf(h) :
           /\ IF h.kind = "map" THEN Found[0][p] = Device + p - h.base ELSE Found[0][p] \in Frame
           /\ (Marked(Found, readonly, p) <=> p \in h.readonly)
      /\ \A l \in 1 .. MaxLevel - 1, p \in Pages :
           Found[l][p] = Absent \/ \E q \in Pages : Blk(q, l + 1) = Blk(p, l + 1) /\ Found[l - 1][q] # Absent
  BY <1>3, AtRest
<1>5. grants' \in SUBSET Shares /\ UsedBy(grants) = UsedBy(grants') \cup PagesOf(g) BY <1>4 DEF UsedBy
<1>6. kind \in {"free", "unmap"} /\ first \in {"unpage", "unmap"} OBVIOUS
<1>7. Apart(call', grants')
  <2>1. PagesOf(g) \cap UsedBy(grants') = {} BY <1>0 DEF Apart, UsedBy
  <2> QED BY <1>0, <1>3, <1>6, <2>1 DEF Apart
<1>8. Held(Found, readonly, call', grants') BY <1>3, <1>4, <1>5 DEF Held
<1>9. \A p \in PagesOf(g) : p \in Nat /\ g.base <= p /\ p < g.base + g.len BY <1>1 DEF PagesOf
<1>10. \A p \in PagesOf(g) : /\ kind = "free" => Found[0][p] \in Frame
                             /\ kind = "unmap" => Found[0][p] >= Device
  <2>1. ASSUME NEW p \in PagesOf(g), kind = "unmap" PROVE Found[0][p] >= Device
    <3>1. Found[0][p] = Device + p - g.base BY <1>4, <2>1
    <3> QED BY <1>1, <1>9, <3>1, Consts
  <2> QED BY <1>4, <2>1
<1>11. Changing(Found, readonly, walk', call')
  <2>1. \A p \in PagesOf(call') : ~(p < Front(walk') \/ p >= End(walk')) BY <1>1, <1>3, <1>9
  <2> QED BY <1>3, <1>6, <1>10, <2>1 DEF Changing
<1>12. Covered(Found, walk', call', unfit')
  <2>1. ASSUME NEW p \in PagesOf(g) PROVE Found[1][p] # Absent
    <3>1. Found[0][p] # Absent BY <1>6, <1>10, Consts
    <3>2. 0 \in 0 .. MaxLevel /\ 1 \in 0 .. MaxLevel BY Consts
    <3> QED BY <1>1, <1>4, <3>1, <3>2, Path
  <2> QED BY <1>3, <1>6, <2>1 DEF Covered
<1>13. Tidy(Found, walk', call', unfit') BY <1>4 DEF Tidy
<1> QED BY SMTT(30), <1>3, <1>5, <1>7, <1>8, <1>11, <1>12, <1>13, Begins

LEMMA ChangeAttrKeeps ==
  ASSUME IInv, NEW g \in grants, NEW r \in Parts(g), VmChangeAttr(g, r)
  PROVE  IInv'
<1> DEFINE n == [g EXCEPT !.readonly = g.readonly \cup PagesOf(r)]  kind == "attr"
<1>1. g.kind = "alloc" /\ Called(kind, kind, r) /\ grants' = (grants \ {g}) \cup {n} BY DEF VmChangeAttr
<1>2. /\ g \in Shares /\ PagesOf(g) \subseteq Pages /\ g.readonly \subseteq PagesOf(g)
      /\ g.base \in Nat /\ g.len \in Nat /\ g.len > 0 /\ g.readonly \subseteq Pages
  BY DEF IInv, Shape, Shares, Apart
<1>3. r.base \in Nat /\ r.len \in Nat /\ r.len > 0 /\ PagesOf(r) \subseteq PagesOf(g)
  <2>1. PICK a \in {g.base, g.base + g.len - 1} : r = [base |-> a, len |-> g.base + g.len - a] BY DEF Parts
  <2> QED BY <1>2, <2>1 DEF PagesOf
<1>4. /\ n \in Shares /\ n.base = g.base /\ n.len = g.len /\ n.kind = "alloc" /\ n.readonly = g.readonly \cup PagesOf(r)
      /\ PagesOf(n) = PagesOf(g)
  BY <1>1, <1>2, <1>3 DEF Shares, PagesOf
<1>5. <<kind, kind>> \in Opening /\ ReqLevel(kind) = 1 BY DEF Opening, ReqLevel
<1> HIDE DEF n, kind
<1>6. /\ call.kind = "none" /\ ~unfit /\ UNCHANGED <<mem, readonly, busy, unfit>>
      /\ walk.pc \in {"none", "end"} /\ unfit' = FALSE /\ unfit' \in BOOLEAN
      /\ call' \in Calls /\ call'.kind = kind /\ call'.stage = "do" /\ call'.base = r.base /\ call'.len = r.len
      /\ PagesOf(call') = PagesOf(r) /\ kind \in Kinds
      /\ walk' = Begun(kind, call'.base, call'.len) /\ <<call'.kind, call'.stage, kind>> \in Phases
      /\ call'.len \in Nat /\ call'.len > 0 /\ call'.base + call'.len <= Step[MaxLevel + 1]
      /\ walk'.kind = kind /\ walk'.pc = "enter" /\ Front(walk') = r.base
  <2>0. PagesOf(r) \subseteq Pages BY <1>2, <1>3
  <2>1. Opened(kind, kind, r) BY <1>1, <1>3, <1>5, <2>0, CalledIs
  <2> QED BY <1>5, <2>1 DEF Opened
<1>7. /\ PagesOf(call) = {} /\ grants \in SUBSET Shares /\ Tree(Found) /\ Apart(call, grants) /\ ReadOnly(Found, readonly)
      /\ \A p \in Pages : p \notin UsedBy(grants) => Found[0][p] = Absent
      /\ \A h \in grants : \A p \in PagesOf(h) :
           /\ IF h.kind = "map" THEN Found[0][p] = Device + p - h.base ELSE Found[0][p] \in Frame
           /\ (Marked(Found, readonly, p) <=> p \in h.readonly)
      /\ \A l \in 1 .. MaxLevel - 1, p \in Pages :
           Found[l][p] = Absent \/ \E q \in Pages : Blk(q, l + 1) = Blk(p, l + 1) /\ Found[l - 1][q] # Absent
  BY <1>6, AtRest
<1>8. grants' \in SUBSET Shares BY <1>1, <1>4, <1>7
<1>9. UsedBy(grants') = UsedBy(grants) BY <1>1, <1>4 DEF UsedBy
<1>10. Apart(call', grants')
  <2>1. \A h \in grants' : PagesOf(h) \subseteq Pages /\ h.readonly \subseteq PagesOf(h) BY <1>1, <1>2, <1>3, <1>4, <1>7 DEF Apart
  <2>2. \A h, k \in grants' : h # k => PagesOf(h) \cap PagesOf(k) = {} BY <1>1, <1>4, <1>7 DEF Apart
  <2>3. n \in grants' /\ PagesOf(call') \subseteq n.readonly BY <1>1, <1>4, <1>6
  <2>4. call'.kind = "attr" BY <1>6 DEF kind
  <2> QED BY <1>4, <2>1, <2>2, <2>3, <2>4 DEF Apart
<1>11. Held(Found, readonly, call', grants')
  <2>1. \A p \in PagesOf(n) :
          /\ Found[0][p] \in Frame
          /\ p \notin PagesOf(call') => (Marked(Found, readonly, p) <=> p \in n.readonly)
    BY <1>1, <1>4, <1>6, <1>7
  <2> QED BY <1>1, <1>4, <1>7, <1>9, <2>1 DEF Held
<1>12. Changing(Found, readonly, walk', call')
  <2>1. \A p \in PagesOf(call') : ~(p < Front(walk')) BY <1>3, <1>6 DEF PagesOf
  <2> QED BY <1>6, <2>1 DEF Changing, kind
<1>13. Covered(Found, walk', call', unfit') BY <1>6 DEF Covered, kind
<1>14. Tidy(Found, walk', call', unfit') BY <1>7 DEF Tidy
<1> QED BY <1>6, <1>8, <1>10, <1>11, <1>12, <1>13, <1>14, Begins

LEMMA StutterKeeps ==
  ASSUME IInv, UNCHANGED vars
  PROVE  IInv'
<1>1. UNCHANGED <<mem, readonly, busy, walk, call, grants, unfit>> BY DEF vars
<1>2. Found' = Found BY <1>1, FoundSame
<1> QED BY <1>1, <1>2 DEF IInv, Shape

LEMMA NextKeeps ==
  ASSUME IInv, [Next]_vars
  PROVE  IInv'
<1>1. CASE UNCHANGED vars BY <1>1, StutterKeeps
<1>2. CASE Walk BY <1>2, WalkKeeps
<1>3. CASE Vm BY <1>3, VmKeeps
<1>4. CASE \E r \in Ranges : VmAlloc(r) \/ VmMap(r) BY <1>4, ClaimKeeps DEF VmAlloc, VmMap
<1>5. CASE \E g \in grants : VmFree(g) \/ VmUnmap(g)
  <2>1. PICK g \in grants : VmFree(g) \/ VmUnmap(g) BY <1>5
  <2>2. CASE VmFree(g) BY <2>2, ReleaseKeeps DEF VmFree
  <2>3. CASE VmUnmap(g) BY <2>3, ReleaseKeeps DEF VmUnmap
  <2> QED BY <2>1, <2>2, <2>3
<1>6. CASE \E g \in grants : \E r \in Parts(g) : VmChangeAttr(g, r) BY <1>6, ChangeAttrKeeps
<1> QED BY <1>1, <1>2, <1>3, <1>4, <1>5, <1>6 DEF Next

LEMMA InitHolds ==
  ASSUME Init
  PROVE  IInv
<1> DEFINE F == [k \in 0 .. MaxLevel |-> [p \in Pages |-> IF k = MaxLevel THEN Root ELSE Absent]]
<1>0. /\ mem = [f \in Frame \cup {Root} |-> IF f = Root THEN Clear ELSE Dirty]
      /\ readonly = {} /\ busy = {} /\ walk = NoWalk /\ call = NoCall /\ grants = {} /\ unfit = FALSE
  BY DEF Init
<1>1. mem[Root] = Clear /\ mem \in Memory BY <1>0, Words DEF Memory
<1>2. \A k \in 0 .. MaxLevel, p \in Pages : F[k][p] = IF k = MaxLevel THEN Root ELSE Absent OBVIOUS
<1>3. Found = F
  <2>1. F = LookUp(mem, F)
    <3>1. ASSUME NEW k \in 0 .. MaxLevel, NEW p \in Pages
          PROVE  F[k][p] = IF k = MaxLevel THEN Root
                           ELSE LET t == F[k + 1][p] IN IF t = Absent THEN Absent ELSE mem[t][IndexOf(p, k + 1)]
      <4>1. CASE k = MaxLevel BY <1>2, <4>1
      <4>2. CASE k # MaxLevel
        <5>1. k + 1 \in 0 .. MaxLevel /\ k + 1 \in Levels BY <4>2, Consts DEF Levels
        <5>2. IndexOf(p, k + 1) \in Index BY <5>1, IndexIs, PageNat
        <5>3. mem[Root][IndexOf(p, k + 1)] = Absent BY <1>1, <5>2 DEF Clear
        <5> QED BY <1>2, <4>2, <5>1, <5>3
      <4> QED BY <4>1, <4>2
    <3> QED BY <3>1 DEF LookUp
  <2> QED BY <2>1, FoundIs, FoundOnce
<1>4. Tree(Found)
  <2>1. \A k \in 0 .. MaxLevel - 1, p \in Pages : Found[k][p] = Absent
    <3>1. \A k \in 0 .. MaxLevel - 1 : k \in 0 .. MaxLevel /\ k # MaxLevel BY Consts
    <3> QED BY <1>2, <1>3, <3>1
  <2>2. \A p \in Pages : Found[MaxLevel][p] = Root
    <3>1. MaxLevel \in 0 .. MaxLevel BY Consts
    <3> QED BY <1>2, <1>3, <3>1
  <2>3. Found \in [0 .. MaxLevel -> [Pages -> Nat]] BY <1>3, Consts
  <2>4. \A k \in 1 .. MaxLevel - 1, p \in Pages : Found[k][p] \in Frame \cup {Absent} BY <2>1
  <2>5. \A p \in Pages : Found[0][p] \in Frame \cup {Absent} BY <2>1, Consts
  <2>6. \A k \in 1 .. MaxLevel, p \in Pages : Found[k - 1][p] = Absent
    <3>1. \A k \in 1 .. MaxLevel : k - 1 \in 0 .. MaxLevel - 1 BY Consts
    <3> QED BY <2>1, <3>1
  <2>7. \A k \in 0 .. MaxLevel, p, q \in Pages : Found[k][p] = Found[k][q] BY <1>2, <1>3
  <2>8. \A k \in 0 .. MaxLevel - 1, p \in Pages : Found[k][p] \notin Frame BY <2>1, Consts
  <2> QED BY <2>2, <2>3, <2>4, <2>5, <2>6, <2>7, <2>8 DEF Tree
<1>5. \A k \in 0 .. MaxLevel, p \in Pages : k # MaxLevel => Found[k][p] = Absent BY <1>2, <1>3
<1> HIDE DEF F
<1>6. Shape
  <2>1. NoWalk \in Walks BY Consts DEF NoWalk, Walks, Places, Kinds, Levels
  <2>2. NoCall \in Calls BY DEF NoCall, Calls, CallKinds
  <2> QED BY <1>0, <1>1, <2>1, <2>2 DEF Shape
<1>7. Phased(walk, call, unfit) /\ Bounds(walk, call) /\ Placed(walk, Found) /\ Supplied(walk, busy)
  BY <1>0 DEF Phased, Bounds, Placed, Supplied, NoWalk, NoCall, Going
<1>8. Owned(walk, Found, busy)
  <2>1. \A f \in Frame : ~Ref(Found, f)
    <3>1. \A k \in 0 .. MaxLevel - 1 : k \in 0 .. MaxLevel /\ k # MaxLevel BY Consts
    <3> QED BY <1>5, <3>1, Consts DEF Ref
  <2>2. \A k : Handed(walk, k) = {} BY <1>0 DEF Handed, NoWalk
  <2> QED BY <1>0, <2>1, <2>2 DEF Owned
<1>9. PagesOf(NoCall) = {} /\ NoCall.kind = "none" BY DEF PagesOf, NoCall
<1>10. ReadOnly(Found, readonly) /\ Apart(call, grants) BY <1>0, <1>9 DEF ReadOnly, Apart
<1>11. Held(Found, readonly, call, grants) /\ Changing(Found, readonly, walk, call)
  <2>1. \A p \in Pages : Found[0][p] = Absent BY <1>5, Consts
  <2> QED BY <1>0, <1>9, <2>1 DEF Held, Changing
<1>12. Covered(Found, walk, call, unfit) /\ Sound(walk, call, unfit) BY <1>0 DEF Covered, Sound, NoWalk
<1>13. Tidy(Found, walk, call, unfit)
  <2>1. \A l \in 1 .. MaxLevel - 1, p \in Pages : Found[l][p] = Absent
    <3>1. \A l \in 1 .. MaxLevel - 1 : l \in 0 .. MaxLevel /\ l # MaxLevel BY Consts
    <3> QED BY <1>5, <3>1
  <2> QED BY <2>1 DEF Tidy
<1> QED BY <1>4, <1>6, <1>7, <1>8, <1>10, <1>11, <1>12, <1>13 DEF IInv

(* The inductive invariant holds in every state: the frames, the tables    *)
(* and the ranges agree at every pass of every walk.                       *)
THEOREM Invariance == Spec => []IInv
<1>1. Init => IInv BY InitHolds
<1>2. IInv /\ [Next]_vars => IInv' BY NextKeeps
<1> QED BY <1>1, <1>2, PTL DEF Spec

-------------------------------------------------------------------------------
(* What is checked follows from the invariant. The tables at a level are   *)
(* those that are found there for some page.                               *)

(* The tables that the entries above refer to are those that are found.    *)
TablesFound(F, l) == {F[l][p] : p \in Pages} \ {Absent}
TablesBelow(m, T) ==
  [l \in Levels |-> IF l = MaxLevel THEN {Root} ELSE {m[t][i] : t \in T[l + 1], i \in Index} \ {Absent}]

(* As with what is found, the tables of the levels are determined from the *)
(* root down.                                                              *)
LEMMA TablesOnce ==
  ASSUME NEW m, NEW S, NEW T, S = TablesBelow(m, S), T = TablesBelow(m, T)
  PROVE  S = T
<1>0. MaxLevel \in Nat /\ MaxLevel > 2 BY Consts
<1> DEFINE at(H, l) == IF l = MaxLevel THEN {Root} ELSE {m[t][i] : t \in H[l + 1], i \in Index} \ {Absent}
           Odd == {k \in Nat : k < MaxLevel /\ S[MaxLevel - k] # T[MaxLevel - k]}
<1>1. \A l \in Levels : S[l] = at(S, l) /\ T[l] = at(T, l)
  <2>1. ASSUME NEW l \in Levels, NEW H, H = TablesBelow(m, H) PROVE H[l] = at(H, l)
    <3>1. H[l] = (TablesBelow(m, H))[l] BY <2>1
    <3>2. (TablesBelow(m, H))[l] = at(H, l) BY DEF TablesBelow
    <3> QED BY <3>1, <3>2
  <2> HIDE DEF at
  <2> QED BY <2>1
<1>2. S = [l \in Levels |-> S[l]] /\ T = [l \in Levels |-> T[l]] BY DEF TablesBelow
<1>3. S[MaxLevel] = T[MaxLevel]
  <2>1. MaxLevel \in Levels BY <1>0 DEF Levels
  <2>2. at(S, MaxLevel) = {Root} /\ at(T, MaxLevel) = {Root} OBVIOUS
  <2> HIDE DEF at
  <2> QED BY <1>1, <2>1, <2>2
<1>4. ASSUME NEW l \in Levels, l # MaxLevel, S[l + 1] = T[l + 1] PROVE S[l] = T[l]
  <2>1. at(S, l) = at(T, l) BY <1>4
  <2> HIDE DEF at
  <2> QED BY <1>1, <2>1
<1> HIDE DEF at
<1>5. Odd = {}
  <2> SUFFICES ASSUME Odd # {} PROVE FALSE OBVIOUS
  <2>1. PICK n \in Odd : \A k \in Odd : n <= k
    <3>1. Odd \in SUBSET Nat OBVIOUS
    <3> HIDE DEF Odd
    <3> QED BY <3>1, LeastNat
  <2>2. n # 0 BY <1>0, <1>3
  <2>3. n - 1 \in Nat /\ n - 1 < MaxLevel /\ ~(n <= n - 1) BY <1>0, <2>2
  <2>4. n - 1 \notin Odd BY <2>1, <2>3
  <2>5. S[MaxLevel - (n - 1)] = T[MaxLevel - (n - 1)] BY <2>3, <2>4
  <2>6. MaxLevel - (n - 1) = (MaxLevel - n) + 1 /\ MaxLevel - n \in Levels /\ MaxLevel - n # MaxLevel
    BY <1>0, <2>2 DEF Levels
  <2>7. S[MaxLevel - n] = T[MaxLevel - n] BY <1>4, <2>5, <2>6
  <2> QED BY <2>7
<1>6. ASSUME NEW l \in Levels PROVE S[l] = T[l]
  <2>1. MaxLevel - l \in Nat /\ MaxLevel - l < MaxLevel /\ MaxLevel - (MaxLevel - l) = l BY <1>0 DEF Levels
  <2> QED BY <1>5, <2>1
<1> HIDE DEF Odd
<1> QED BY <1>2, <1>6

LEMMA SomePage == 0 \in Pages
<1>1. MaxLevel + 1 \in 1 .. MaxLevel + 1 BY Consts
<1>2. Step[MaxLevel + 1] \in Nat /\ Step[MaxLevel + 1] > 0 BY <1>1, Steps
<1> QED BY <1>2, IsPage

LEMMA TablesFit ==
  ASSUME NEW m, NEW F, F = LookUp(m, F), Tree(F), NEW T, T = [l \in Levels |-> TablesFound(F, l)]
  PROVE  T = TablesBelow(m, T)
<1>0. MaxLevel \in Nat /\ MaxLevel > 2 /\ Root # Absent BY Consts
<1> DEFINE at(l) == IF l = MaxLevel THEN {Root} ELSE {m[t][i] : t \in T[l + 1], i \in Index} \ {Absent}
<1>1. ASSUME NEW l \in Levels PROVE TablesFound(F, l) = at(l)
  <2>1. CASE l = MaxLevel
    <3>1. \A p \in Pages : F[l][p] = Root BY <2>1 DEF Tree
    <3> QED BY <1>0, <2>1, <3>1, SomePage DEF TablesFound
  <2>2. CASE l # MaxLevel
    <3>1. l + 1 \in Levels /\ (l + 1) - 1 = l /\ l + 1 \in 1 .. MaxLevel BY <1>0, <2>2 DEF Levels
    <3>2. T[l + 1] = TablesFound(F, l + 1) BY <3>1
    <3>3. ASSUME NEW p \in Pages, F[l][p] # Absent PROVE F[l][p] \in at(l)
      <4>1. F[l + 1][p] # Absent BY <3>1, <3>3 DEF Tree
      <4>2. m[F[l + 1][p]][IndexOf(p, l + 1)] = F[l][p] BY <3>1, <4>1, EntryIs
      <4>3. IndexOf(p, l + 1) \in Index BY <3>1, PageNat, IndexIs
      <4>4. F[l + 1][p] \in T[l + 1] BY <3>2, <4>1 DEF TablesFound
      <4> QED BY <2>2, <3>3, <4>2, <4>3, <4>4
    <3>4. ASSUME NEW t \in T[l + 1], NEW i \in Index, m[t][i] # Absent PROVE m[t][i] \in TablesFound(F, l)
      <4>1. PICK p \in Pages : t = F[l + 1][p] /\ t # Absent BY <3>2 DEF TablesFound
      <4>2. PICK q \in Pages : Blk(q, (l + 1) + 1) = Blk(p, (l + 1) + 1) /\ IndexOf(q, l + 1) = i
        BY <3>1, EntryPage
      <4>3. l + 1 \in 0 .. MaxLevel BY <3>1, <1>0
      <4>4. F[l + 1][q] = t BY <4>1, <4>2, <4>3, TreeBlock
      <4>5. m[t][i] = F[l][q] BY <3>1, <4>1, <4>2, <4>4, EntryIs
      <4> QED BY <3>4, <4>5 DEF TablesFound
    <3>5. TablesFound(F, l) \subseteq at(l) 
      <4> HIDE DEF at
      <4> QED BY <3>3 DEF TablesFound
    <3>6. at(l) \subseteq TablesFound(F, l) BY <2>2, <3>4
    <3> QED BY <3>5, <3>6
  <2> QED BY <2>1, <2>2
<1>2. [l \in Levels |-> TablesFound(F, l)] = [l \in Levels |-> at(l)]
  <2> HIDE DEF at
  <2> QED BY <1>1
<1> QED BY <1>2 DEF TablesBelow

LEMMA TablesAreFound ==
  ASSUME IInv
  PROVE  \A l \in Levels : TablesAt[l] = TablesFound(Found, l)
<1> DEFINE T == [l \in Levels |-> TablesFound(Found, l)]
<1>1. T = TablesBelow(mem, T) BY FoundIs, TablesFit DEF IInv
<1> HIDE DEF T
<1>2. TablesAt = TablesBelow(mem, TablesAt)
  <2>1. TablesAt = CHOOSE S : S = TablesBelow(mem, S) BY DEF TablesAt, TablesBelow
  <2> QED BY <1>1, <2>1
<1>3. TablesAt = T BY <1>1, <1>2, TablesOnce
<1> QED BY <1>3 DEF T
-------------------------------------------------------------------------------
(* The properties.                                                         *)
LEMMA NotEmpty ==
  ASSUME IInv
  PROVE  NoEmptyTable
<1> SUFFICES ASSUME call.kind = "none", ~unfit, NEW l \in 1 .. MaxLevel - 1, NEW t \in TablesAt[l]
             PROVE  ~Empty(t)
  BY DEF NoEmptyTable
<1>1. l \in Levels /\ l \in 1 .. MaxLevel BY Consts DEF Levels
<1>2. PICK p \in Pages : t = Found[l][p] /\ t # Absent BY <1>1, TablesAreFound DEF TablesFound
<1>3. Tree(Found) /\ mem \in Memory BY DEF IInv, Shape
<1>4. PICK q \in Pages : Blk(q, l + 1) = Blk(p, l + 1) /\ Found[l - 1][q] # Absent
  <2>1. Found[l][p] = Absent \/ \E q \in Pages : Blk(q, l + 1) = Blk(p, l + 1) /\ Found[l - 1][q] # Absent
    BY AtRest
  <2> QED BY <1>2, <2>1
<1>5. t \in Frame \cup {Root} BY <1>1, <1>2, <1>3, TableIs
<1>6. mem[t] \in [Index -> Nat] BY <1>3, <1>5 DEF Memory
<1>7. mem[t] # Clear BY <1>1, <1>2, <1>3, <1>4, <1>6, FoundIs, EmptyIs
<1> QED BY <1>7 DEF Empty

(* The entries that refer to a frame: one, if it is found anywhere.        *)
LEMMA OneEntry ==
  ASSUME IInv, NEW f \in Frame, NEW E, E = {e \in Entries : mem[e[1]][e[2]] = f}
  PROVE  IF Ref(Found, f) THEN \E e : E = {e} ELSE E = {}
<1>0. MaxLevel \in Nat /\ MaxLevel > 2 /\ f # Absent BY Consts
<1>1. Tree(Found) /\ Found = LookUp(mem, Found) BY FoundIs DEF IInv
<1>2. ASSUME NEW e \in E
      PROVE  \E l \in Levels, q \in Pages :
               e = <<Found[l][q], IndexOf(q, l)>> /\ Found[l - 1][q] = f /\ Found[l][q] # Absent
  <2>1. PICK l \in Levels : e \in TablesAt[l] \X Index BY DEF Entries
  <2>2. e = <<e[1], e[2]>> /\ e[1] \in TablesFound(Found, l) /\ e[2] \in Index BY <2>1, TablesAreFound
  <2>3. PICK p \in Pages : e[1] = Found[l][p] /\ e[1] # Absent BY <2>2 DEF TablesFound
  <2>4. PICK q \in Pages : Blk(q, l + 1) = Blk(p, l + 1) /\ IndexOf(q, l) = e[2] BY <2>2, EntryPage
  <2>5. l \in 0 .. MaxLevel BY Consts DEF Levels
  <2>6. Found[l][q] = e[1] BY <1>1, <2>3, <2>4, <2>5, TreeBlock
  <2>7. mem[e[1]][e[2]] = Found[l - 1][q] BY <1>1, <2>3, <2>4, <2>6, EntryIs
  <2>8. mem[e[1]][e[2]] = f OBVIOUS
  <2>9. Found[l - 1][q] = f BY <2>7, <2>8
  <2> QED BY <2>2, <2>3, <2>4, <2>6, <2>9
<1>3. ASSUME NEW l \in Levels, NEW q \in Pages, Found[l - 1][q] = f
      PROVE  <<Found[l][q], IndexOf(q, l)>> \in E
  <2>1. l \in 1 .. MaxLevel BY Consts DEF Levels
  <2>2. Found[l][q] # Absent BY <1>0, <1>1, <1>3, <2>1 DEF Tree
  <2>3. Found[l][q] \in TablesAt[l] BY <2>2, TablesAreFound DEF TablesFound
  <2>4. IndexOf(q, l) \in Index BY PageNat, IndexIs
  <2>5. mem[Found[l][q]][IndexOf(q, l)] = f BY <1>1, <1>3, <2>2, EntryIs
  <2>6. <<Found[l][q], IndexOf(q, l)>> \in Entries BY <2>3, <2>4 DEF Entries
  <2> QED BY <2>5, <2>6
<1>4. ASSUME NEW l \in Levels, NEW q \in Pages, Found[l - 1][q] = f,
             NEW k \in Levels, NEW r \in Pages, Found[k - 1][r] = f
      PROVE  Found[l][q] = Found[k][r] /\ IndexOf(q, l) = IndexOf(r, k)
  <2>1. /\ l - 1 \in 0 .. MaxLevel - 1 /\ k - 1 \in 0 .. MaxLevel - 1 /\ l \in Nat /\ k \in Nat
        /\ (l - 1) + 1 = l /\ (k - 1) + 1 = k /\ l \in 0 .. MaxLevel
    BY <1>0 DEF Levels
  <2>2. l - 1 = k - 1 /\ Blk(q, (l - 1) + 1) = Blk(r, (l - 1) + 1) BY <1>1, <1>4, <2>1 DEF Tree
  <2>3. l = k /\ Blk(q, l) = Blk(r, l) BY <2>1, <2>2
  <2>4. Blk(q, l + 1) = Blk(r, l + 1) /\ IndexOf(q, l) = IndexOf(r, l) BY <2>3, PageNat, SameBlock
  <2>5. Found[l][q] = Found[l][r] BY <1>1, <2>1, <2>4, TreeBlock
  <2> QED BY <2>3, <2>4, <2>5
<1>5. CASE Ref(Found, f)
  <2>1. PICK k \in 0 .. MaxLevel - 1, q \in Pages : Found[k][q] = f BY <1>5 DEF Ref
  <2>2. k + 1 \in Levels /\ (k + 1) - 1 = k BY <1>0 DEF Levels
  <2> DEFINE d == <<Found[k + 1][q], IndexOf(q, k + 1)>>
  <2>3. d \in E BY <1>3, <2>1, <2>2
  <2>4. ASSUME NEW e \in E PROVE e = d
    <3>1. PICK l \in Levels, r \in Pages : e = <<Found[l][r], IndexOf(r, l)>> /\ Found[l - 1][r] = f BY <1>2
    <3>2. Found[l][r] = Found[k + 1][q] /\ IndexOf(r, l) = IndexOf(q, k + 1) BY <1>4, <2>1, <2>2, <3>1
    <3> QED BY <3>1, <3>2
  <2> HIDE DEF d
  <2>5. E = {d} BY <2>3, <2>4
  <2> QED BY <1>5, <2>5
<1>6. CASE ~Ref(Found, f)
  <2>1. ASSUME NEW e \in E PROVE FALSE
    <3>1. PICK l \in Levels, r \in Pages : Found[l - 1][r] = f BY <1>2
    <3>2. l - 1 \in 0 .. MaxLevel - 1 BY <1>0 DEF Levels
    <3> QED BY <1>6, <3>1, <3>2 DEF Ref
  <2> QED BY <1>6, <2>1
<1> QED BY <1>5, <1>6

LEMMA Exactly ==
  ASSUME IInv
  PROVE  FramesExact
<1> SUFFICES ASSUME walk.pc # "astray", NEW f \in Frame
             PROVE  Refs(f) = IF f \in (busy \ UnderWay({"untable", "unpage"})) \cup UnderWay({"tables", "pages"})
                              THEN 1 ELSE 0
  BY DEF FramesExact
<1>1. \A k : UnderWay(k) = Handed(walk, k) BY DEF UnderWay, Handed, Handled, Run
<1>2. Ref(Found, f) <=> f \in (busy \ UnderWay({"untable", "unpage"})) \cup UnderWay({"tables", "pages"})
  BY <1>1 DEF IInv, Owned
<1> DEFINE E == {e \in Entries : mem[e[1]][e[2]] = f}
<1>3. IF Ref(Found, f) THEN \E e : E = {e} ELSE E = {} BY OneEntry
<1>4. Refs(f) = Cardinality(E) BY DEF Refs
<1> HIDE DEF E
<1>5. CASE Ref(Found, f)
  <2>1. PICK e : E = {e} BY <1>3, <1>5
  <2>2. Cardinality({e}) = 1 BY FS_Singleton
  <2> QED BY <1>2, <1>4, <1>5, <2>1, <2>2
<1>6. CASE ~Ref(Found, f)
  <2>1. E = {} BY <1>3, <1>6
  <2>2. Cardinality({}) = 0 BY FS_EmptySet
  <2> QED BY <1>2, <1>4, <1>6, <2>1, <2>2
<1> QED BY <1>5, <1>6

LEMMA Backing ==
  ASSUME IInv
  PROVE  Backed
<1> SUFFICES ASSUME NEW p \in Pages
             PROVE  /\ \A g \in grants : p \in PagesOf(g) =>
                         /\ IF g.kind = "map" THEN At(p) = Device + p - g.base ELSE At(p) \in Frame
                         /\ p \notin PagesOf(call) => (Writable(p) <=> p \notin g.readonly)
                    /\ p \notin Used \cup PagesOf(call) => At(p) = Absent
  BY DEF Backed
<1>1. Held(Found, readonly, call, grants) BY DEF IInv
<1>2. At(p) = Found[0][p] /\ (Writable(p) <=> ~Marked(Found, readonly, p)) BY DEF At, Writable, Marked
<1>3. Used = UsedBy(grants) BY DEF Used, UsedBy
<1>4. p \notin Used \cup PagesOf(call) => At(p) = Absent BY <1>1, <1>2, <1>3 DEF Held
<1>5. ASSUME NEW g \in grants, p \in PagesOf(g)
      PROVE  /\ IF g.kind = "map" THEN At(p) = Device + p - g.base ELSE At(p) \in Frame
             /\ p \notin PagesOf(call) => (Writable(p) <=> p \notin g.readonly)
  <2>1. IF g.kind = "map" THEN Found[0][p] = Device + p - g.base ELSE Found[0][p] \in Frame
    BY <1>1, <1>5 DEF Held
  <2>2. p \notin PagesOf(call) => (Marked(Found, readonly, p) <=> p \in g.readonly) BY <1>1, <1>5 DEF Held
  <2> QED BY <1>2, <2>1, <2>2
<1> QED BY <1>4, <1>5

LEMMA Releasing ==
  ASSUME IInv
  PROVE  ReleaseWorks
<1> SUFFICES ASSUME ~unfit
             PROVE  /\ walk.pc # "astray"
                    /\ walk.pc = "halt" => walk.len = 0
                    /\ walk.pc = "end" /\ walk.kind \in {"untable", "unpage", "unmap"} /\ walk.len > 0
                         => walk.st = 0
  BY DEF ReleaseWorks
<1>1. Sound(walk, call, unfit) /\ Placed(walk, Found) /\ walk \in Walks BY DEF IInv, Shape
<1>2. walk.st \in {-1, 0, 1} BY <1>1 DEF Walks
<1>3. walk.pc # "astray" /\ (walk.pc = "halt" => walk.len = 0) BY <1>1 DEF Sound
<1>4. walk.pc = "end" /\ walk.kind \in {"untable", "unpage", "unmap"} => walk.st # -1 BY <1>1 DEF Sound
<1>5. walk.pc = "end" => walk.st # 1 BY <1>1 DEF Placed
<1> QED BY <1>2, <1>3, <1>4, <1>5

(* No frame is lost and none is referred to twice, at any point of any     *)
(* walk, however the frames lie (FramesExact).                             *)
THEOREM FramesAreExact == Spec => []FramesExact
<1>1. IInv => FramesExact BY Exactly
<1> QED BY <1>1, Invariance, PTL

(* Every page of a range in use is there with its attributes, and no other *)
(* page is, outside of the range of the call under way (Backed).           *)
THEOREM PagesAreBacked == Spec => []Backed
<1>1. IInv => Backed BY Backing
<1> QED BY <1>1, Invariance, PTL

(* Between calls no table is empty, at any level, as long as no build has  *)
(* failed and no release was left two levels up (NoEmptyTable).            *)
THEOREM NoTableIsEmpty == Spec => []NoEmptyTable
<1>1. IInv => NoEmptyTable BY NotEmpty
<1> QED BY <1>1, Invariance, PTL

(* Under the same condition what has been built can be released: no walk   *)
(* goes astray, and none that releases fails (ReleaseWorks).               *)
THEOREM ReleasesWork == Spec => []ReleaseWorks
<1>1. IInv => ReleaseWorks BY Releasing
<1> QED BY <1>1, Invariance, PTL
===============================================================================
