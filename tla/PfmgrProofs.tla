------------------------------ MODULE PfmgrProofs ------------------------------
(* What is proved of Pfmgr for all layouts of memory, sizes of items and   *)
(* needs: until avail_pf wraps or a lookup steps over a full item where it *)
(* may not, the bitmap and avail_pf are exact, what a lookup finds is      *)
(* free, a search fails only when nothing is left, and frames are handed   *)
(* out and taken back as Frames says.                                      *)
EXTENDS Pfmgr, FiniteSetTheorems, WellFoundedInduction, TLAPS

USE RangeAssumption

WordOf(p) == (p \div Item) * Item
Span(r) == 0 .. Total[r] - 1

(* Every frame below n that may be handed out is marked.                   *)
BusyBelow(r, n) == \A q \in Span(r) : q < n /\ Base[r] + q >= IsaEnd => q \in bmp[r]

(* A position that is not the first one of its item follows a marked one;  *)
(* so a mask that is not shifted (pfmgr.c:632) is not taken for clear.     *)
HeadBusy(r, p) == p % Item # 0 => WordOf(p) \in bmp[r]

CallType ==
  [pc : {"idle", "range", "look", "mark", "clear", "failed"},
   kind : {"none", "one", "stop", "free"},
   need : Nat, req : Int, r : Nat, pos : Nat, start : Nat, ret : Nat, left : Nat,
   again : BOOLEAN, stop : BOOLEAN]

Typed ==
  /\ early \in BOOLEAN
  /\ bmp \in [Ranges -> SUBSET Nat] /\ avail \in [Ranges -> Int] /\ next \in [Ranges -> Nat]
  /\ owned \in [Addresses -> {0, 1}]
  /\ call \in CallType
  /\ early => call.pc = "idle"
  /\ call.pc \in {"look", "mark", "clear"} => call.r \in Ranges
  /\ call.pc = "range" => call.r > 0

(* The tracking data is marked, and so is what callers hold.               *)
Moving(r) == IF call.pc = "mark" /\ call.r = r THEN call.pos .. call.pos + call.left - 1 ELSE {}
MarkedInv ==
  /\ \A r \in Ranges : Total[r] \in bmp[r]
  /\ \A a \in Held : a >= IsaEnd /\ \E r \in Ranges : \E p \in Span(r) : a = Base[r] + p
  /\ \A r \in Ranges : \A p \in Span(r) : Base[r] + p \in Held => p \in bmp[r] \cup Moving(r)

(* No frame below the hint is free.                                        *)
HintInv ==
  \A r \in Ranges : BusyBelow(r, next[r]) \/ (call.pc \in {"mark", "clear"} /\ call.r = r)

(* What a lookup has found lies in one run, behind frames that are busy.   *)
LookInv == call.pc = "look" =>
  /\ Base[call.r] + call.pos >= IsaEnd
  /\ Looking => HeadBusy(call.r, call.pos)
  /\ IF call.ret = 0 THEN BusyBelow(call.r, call.pos)
     ELSE /\ BusyBelow(call.r, call.start) /\ Base[call.r] + call.start >= IsaEnd
          /\ call.pos = call.start + call.ret /\ call.pos <= Total[call.r]
          /\ call.ret <= avail[call.r] /\ call.ret <= call.req
          /\ call.start .. call.pos - 1 \subseteq Free(call.r)

(* What is to be marked is still free ...                                  *)
MarkInv == call.pc = "mark" =>
  /\ BusyBelow(call.r, call.pos) /\ Base[call.r] + call.pos >= IsaEnd
  /\ call.start + call.ret = call.pos + call.left
  /\ call.left <= avail[call.r] /\ call.pos + call.left <= Total[call.r]
  /\ call.pos .. call.pos + call.left - 1 \subseteq Free(call.r)
  /\ call.left > 0 => HeadBusy(call.r, call.pos)

(* ... and what is to be cleared is marked, and nobody's.                  *)
ClearInv == call.pc = "clear" =>
  /\ call.start <= call.pos
  /\ BusyBelow(call.r, Least(next[call.r], call.start))
  /\ call.left > 0 => call.pos + call.left <= Total[call.r]
  /\ \A q \in call.pos .. call.pos + call.left - 1 :
       q \in bmp[call.r] /\ Base[call.r] + q \notin Held

PInv == Typed /\ MarkedInv /\ HintInv /\ LookInv /\ MarkInv /\ ClearInv

(* The bitmap is exact: what is marked is held or the kernel's or on its   *)
(* way back, and what is on its way to a caller is his already.            *)
Returning(r) == IF call.pc = "clear" /\ call.r = r THEN call.pos .. call.pos + call.left - 1 ELSE {}
SetInv ==
  /\ \A r \in Ranges :
       /\ Marked(r) \cup Tracking(r) \subseteq bmp[r]
       /\ bmp[r] \subseteq 0 .. Total[r] + Track[r] - 1
       /\ \A p \in Span(r) \cap bmp[r] : Base[r] + p \in Held \cup Kernel \/ p \in Returning(r)
       /\ \A p \in Returning(r) : Base[r] + p \notin Kernel
       /\ \A p \in Moving(r) : Base[r] + p \in Held
  /\ Held \cap Kernel = {}

(* avail_pf has not wrapped and moves with the bitmap.                     *)
CountInv == \A r \in Ranges : avail[r] \in Nat /\ avail[r] + Track[r] = Cardinality(Free(r))

(* A search leaves nothing to be had behind; clearing meets no clear bit.  *)
Spent(r) == Usable(r) => avail[r] = 0 \/ Allocatable(r) = {}
SearchInv ==
  /\ call.pc \in {"range", "look", "mark"} =>
       call.req >= 0 /\ \A s \in Ranges : s < call.r => Spent(s)
  /\ call.pc = "look" => (call.req > 0 \/ avail[call.r] = 0) /\ (call.stop => call.ret > 0)
  /\ call.pc = "failed" => \A s \in Ranges : Spent(s)
  /\ call.pc = "clear" => ~call.stop

EInv == SetInv /\ CountInv /\ SearchInv /\ HintInRange

-------------------------------------------------------------------------------
LEMMA DivMod ==
  ASSUME NEW p \in Nat
  PROVE  /\ p \div Item \in Nat /\ p % Item \in 0 .. Item - 1
         /\ WordOf(p) \in Nat /\ p = WordOf(p) + (p % Item)
BY DEF WordOf

LEMMA Multiples ==
  ASSUME NEW a \in Nat, NEW b \in Nat, a < b
  PROVE  a * Item + Item <= b * Item
<1>1. PICK k \in Nat : b = a + 1 + k
  <2>1. b - a - 1 \in Nat /\ b = a + 1 + (b - a - 1) OBVIOUS
  <2> QED BY <2>1
<1>2. b * Item = a * Item + Item + k * Item BY <1>1
<1>3. k * Item \in Nat /\ a * Item \in Nat BY <1>1
<1> QED BY <1>2, <1>3
-------------------------------------------------------------------------------
(* An address belongs to one range.                                        *)
LEMMA OneRange ==
  ASSUME NEW r \in Ranges, NEW s \in Ranges,
         NEW p \in 0 .. Total[r] + Track[r] - 1, NEW q \in 0 .. Total[s] + Track[s] - 1,
         Base[r] + p = Base[s] + q
  PROVE  r = s /\ p = q
<1>1. /\ r \in Int /\ s \in Int /\ Base[r] \in Nat /\ Base[s] \in Nat
      /\ Total[r] \in Nat /\ Total[s] \in Nat /\ Track[r] \in Nat /\ Track[s] \in Nat
  BY DEF Ranges
<1>2. ~(r < s) BY <1>1
<1>3. ~(s < r) BY <1>1
<1> QED BY <1>1, <1>2, <1>3

LEMMA IsAddress ==
  ASSUME NEW r \in Ranges, NEW p \in 0 .. Total[r] + Track[r] - 1
  PROVE  Base[r] + p \in Addresses
<1>1. Base[r] \in Nat /\ Total[r] \in Nat /\ Track[r] \in Nat OBVIOUS
<1>2. Base[r] + p \in Base[r] .. Base[r] + Total[r] + Track[r] - 1 BY <1>1
<1> QED BY <1>2 DEF Addresses

(* The memory for ISA DMA ends where an item begins.                       *)
LEMMA WordAllowed ==
  ASSUME NEW r \in Ranges, NEW p \in Nat, Base[r] + p >= IsaEnd
  PROVE  Base[r] + WordOf(p) >= IsaEnd
<1>0. Base[r] \in Nat /\ IsaEnd \in Nat /\ WordOf(p) \in Nat BY DivMod
<1>1. CASE ~(IsaEnd > Base[r]) BY <1>0, <1>1
<1>2. CASE IsaEnd > Base[r]
  <2> DEFINE m == IsaEnd - Base[r]
  <2>1. m \in Nat /\ m <= p /\ m % Item = 0 BY <1>0, <1>2, IsaAligned
  <2>2. m = (m \div Item) * Item /\ m \div Item \in Nat /\ p \div Item \in Nat
    <3>1. m = WordOf(m) + (m % Item) /\ WordOf(m) \in Nat /\ m \div Item \in Nat BY <2>1, DivMod
    <3> HIDE DEF m
    <3> QED BY <2>1, <3>1, DivMod DEF WordOf
  <2>3. p < WordOf(p) + Item
    <3>1. p = WordOf(p) + (p % Item) /\ p % Item \in 0 .. Item - 1 BY DivMod
    <3> QED BY <1>0, <3>1
  <2> HIDE DEF m
  <2>4. ~(p \div Item < m \div Item)
    <3> SUFFICES ASSUME p \div Item < m \div Item PROVE FALSE OBVIOUS
    <3>1. WordOf(p) + Item <= m BY <2>2, Multiples DEF WordOf
    <3> QED BY <1>0, <2>1, <2>3, <3>1
  <2>5. m <= WordOf(p)
    <3>1. CASE p \div Item = m \div Item BY <2>1, <2>2, <3>1 DEF WordOf
    <3>2. CASE m \div Item < p \div Item
      <4>1. (m \div Item) * Item + Item <= WordOf(p) BY <2>2, <3>2, Multiples DEF WordOf
      <4> QED BY <1>0, <2>1, <2>2, <4>1
    <3> QED BY <2>2, <2>4, <3>1, <3>2
  <2> QED BY <1>0, <1>2, <2>1, <2>5 DEF m
<1> QED BY <1>1, <1>2

(* So who looks behind busy frames is behind a busy one.                   *)
LEMMA BehindMarked ==
  ASSUME NEW r \in Ranges, NEW p \in Nat, NEW B, Base[r] + p >= IsaEnd, p <= Total[r],
         \A q \in Span(r) : q < p /\ Base[r] + q >= IsaEnd => q \in B, p % Item # 0
  PROVE  WordOf(p) \in B
<1>1. p = WordOf(p) + (p % Item) /\ WordOf(p) \in Nat /\ p % Item \in Nat BY DivMod
<1>2. WordOf(p) < p BY <1>1
<1>3. WordOf(p) \in Span(r) /\ Total[r] \in Nat BY <1>1, <1>2 DEF Span
<1> QED BY <1>2, <1>3, WordAllowed

LEMMA BehindBusy ==
  ASSUME NEW r \in Ranges, NEW p \in Nat, Base[r] + p >= IsaEnd, BusyBelow(r, p), p <= Total[r]
  PROVE  HeadBusy(r, p)
BY BehindMarked DEF HeadBusy, BusyBelow

(* At the first position of an item, and there only, a mask selects the    *)
(* positions that follow.                                                  *)
LEMMA MaskAligned ==
  ASSUME NEW p \in Nat, NEW n, p % Item = 0
  PROVE  Mask(p, n) = p .. p + n - 1
<1>1. p = WordOf(p) + (p % Item) /\ WordOf(p) \in Nat BY DivMod
<1>2. WordOf(p) = p BY <1>1
<1> QED BY <1>2 DEF Mask, WordOf

LEMMA MaskHead ==
  ASSUME NEW p \in Nat, NEW n \in Nat, n > 0
  PROVE  WordOf(p) \in Mask(p, n)
BY DivMod DEF Mask, WordOf

(* A set of naturals has a least member: its intervals are well-founded    *)
(* under inclusion.                                                        *)
LEMMA LeastNat ==
  ASSUME NEW S \in SUBSET Nat, S # {}
  PROVE  \E i \in S : \A j \in S : i <= j
<1> DEFINE F == {1 .. n : n \in S}
<1>1. F \subseteq FiniteSubsetsOf(Nat)
  <2>1. ASSUME NEW n \in S PROVE 1 .. n \in FiniteSubsetsOf(Nat)
    <3>1. n \in Nat OBVIOUS
    <3>2. IsFiniteSet(1 .. n) BY <3>1, FS_Interval
    <3> QED BY <3>1, <3>2 DEF FiniteSubsetsOf
  <2> QED BY <2>1
<1>2. F # {} OBVIOUS
<1>3. PICK A \in F : \A B \in F : <<B, A>> \notin StrictSubsetOrdering(Nat)
  <2> HIDE DEF F
  <2>1. IsWellFoundedOn(StrictSubsetOrdering(Nat), FiniteSubsetsOf(Nat))
    BY FS_StrictSubsetOrderingWellFounded
  <2> QED BY <2>1, <1>1, <1>2, WFMin
<1>4. PICK i \in S : A = 1 .. i OBVIOUS
<1>5. ASSUME NEW j \in S, j < i PROVE FALSE
  <2>1. i \in Nat /\ j \in Nat OBVIOUS
  <2>2. 1 .. j \in F OBVIOUS
  <2>3. 1 .. j \subseteq 1 .. i /\ i \in 1 .. i /\ i \notin 1 .. j BY <2>1, <1>5
  <2>4. <<1 .. j, A>> \in StrictSubsetOrdering(Nat) BY <2>1, <2>3, <1>4 DEF StrictSubsetOrdering
  <2> QED BY <2>4, <1>3, <2>2
<1> QED BY <1>5

LEMMA LeastOfIs ==
  ASSUME NEW S \in SUBSET Nat, S # {}
  PROVE  LeastOf(S) \in S /\ \A y \in S : LeastOf(S) <= y
BY LeastNat DEF LeastOf

(* Counting the free frames.                                               *)
LEMMA Without ==
  ASSUME NEW r \in Ranges, NEW T, T \subseteq Free(r)
  PROVE  /\ Cardinality(T) \in Nat
         /\ Cardinality(Free(r) \ T) = Cardinality(Free(r)) - Cardinality(T)
<1>1. Total[r] \in Nat /\ Free(r) \subseteq 0 .. Total[r] - 1 BY DEF Free
<1>2. IsFiniteSet(0 .. Total[r] - 1) BY <1>1, FS_Interval
<1>3. IsFiniteSet(Free(r)) BY <1>1, <1>2, FS_Subset
<1>4. IsFiniteSet(T) BY <1>3, FS_Subset
<1>5. Free(r) \cap T = T OBVIOUS
<1>6. Cardinality(Free(r) \ T) = Cardinality(Free(r)) - Cardinality(Free(r) \cap T)
  BY <1>3, FS_Difference
<1> QED BY <1>4, <1>5, <1>6, FS_CardinalityType

LEMMA FreeSize ==
  ASSUME NEW r \in Ranges
  PROVE  IsFiniteSet(Free(r)) /\ Cardinality(Free(r)) \in Nat /\ Cardinality(Free(r)) <= Total[r]
<1>1. Total[r] \in Nat /\ Free(r) \subseteq 0 .. Total[r] - 1 BY DEF Free
<1>2. IsFiniteSet(0 .. Total[r] - 1) /\ Cardinality(0 .. Total[r] - 1) = Total[r]
  <2>1. 0 \in Int /\ Total[r] - 1 \in Int BY <1>1
  <2>2. Cardinality(0 .. Total[r] - 1) = IF 0 > Total[r] - 1 THEN 0 ELSE (Total[r] - 1) - 0 + 1
    BY <2>1, FS_Interval
  <2> QED BY <1>1, <2>1, <2>2, FS_Interval
<1>3. IsFiniteSet(Free(r)) /\ Cardinality(Free(r)) <= Cardinality(0 .. Total[r] - 1)
  BY <1>1, <1>2, FS_Subset
<1> QED BY <1>2, <1>3, FS_CardinalityType
-------------------------------------------------------------------------------
(* The parts of the invariant that a step leaves alone which marks and     *)
(* clears nothing.                                                         *)
LEMMA Quiet ==
  ASSUME PInv, UNCHANGED <<bmp, owned>>,
         call.pc \notin {"mark", "clear"}, call'.pc \notin {"mark", "clear"},
         \A r \in Ranges : BusyBelow(r, next'[r])
  PROVE  MarkedInv' /\ HintInv' /\ MarkInv' /\ ClearInv'
<1>1. MarkedInv'
  <2>1. \A r \in Ranges : Moving(r) = {} /\ Moving(r)' = {} BY DEF Moving
  <2> QED BY <2>1 DEF PInv, MarkedInv, Held
<1>2. HintInv' BY DEF HintInv, BusyBelow
<1>3. MarkInv' /\ ClearInv' BY DEF MarkInv, ClearInv
<1> QED BY <1>1, <1>2, <1>3

(* Between calls and lookups the hints are good.                           *)
LEMMA Hinted ==
  ASSUME PInv, call.pc \notin {"mark", "clear"}
  PROVE  \A r \in Ranges : BusyBelow(r, next[r])
BY DEF PInv, HintInv

LEMMA NoLook == ASSUME call.pc # "look" PROVE LookInv
BY DEF LookInv

LEMMA SwitchKeeps ==
  ASSUME PInv, Switch
  PROVE  PInv'
<1>1. call.pc = "idle" /\ call' = call /\ next' = next BY DEF Switch, PInv, Typed
<1>2. Typed' BY DEF Switch, PInv, Typed
<1>3. LookInv' BY <1>1 DEF LookInv
<1> QED BY <1>1, <1>2, <1>3, Quiet, Hinted DEF Switch, PInv

LEMMA AllocCallKeeps ==
  ASSUME PInv, NEW kind \in Kinds, NEW need \in 0 .. MaxNeed, AllocCall(kind, need)
  PROVE  PInv'
<1>1. call.pc = "idle" /\ ~early /\ UNCHANGED <<early, bmp, avail, next, owned>> BY DEF AllocCall
<1>2. call' \in CallType /\ call'.pc = "range" /\ call'.r = 1
  <2> DEFINE q == IF kind = "one" THEN 1 ELSE 0
  <2>1. call' = [pc |-> "range", kind |-> kind, need |-> need, req |-> q, r |-> 1, pos |-> 0,
                 start |-> 0, ret |-> 0, left |-> 0, again |-> FALSE, stop |-> FALSE]
    BY DEF AllocCall, Idle
  <2>2. need \in Nat /\ q \in Int /\ kind \in {"one", "stop"} BY DEF Kinds
  <2> HIDE DEF q
  <2> QED BY <2>1, <2>2 DEF CallType
<1>3. Typed' BY <1>1, <1>2 DEF PInv, Typed
<1>4. LookInv' BY <1>2 DEF LookInv
<1> QED BY <1>1, <1>2, <1>3, <1>4, Quiet, Hinted DEF PInv

LEMMA ToRange ==
  ASSUME NEW c \in CallType, NEW q \in Int, NEW n \in Nat
  PROVE  [c EXCEPT !.req = q, !.r = n] \in CallType
BY DEF CallType

LEMMA FromLook ==
  ASSUME NEW c \in CallType, NEW n \in Nat
  PROVE  [c EXCEPT !.pc = "range", !.r = n] \in CallType
BY DEF CallType

LEMMA LoopKeeps ==
  ASSUME PInv, PassOver \/ Exhausted \/ LookFailed \/ Fail
  PROVE  PInv'
<1>1. /\ call.pc \in {"range", "look", "failed"} /\ call.r \in Nat
      /\ UNCHANGED <<early, bmp, avail, next, owned>>
  BY DEF PInv, Typed, CallType, PassOver, Exhausted, LookFailed, Fail
<1>2. /\ call' \in CallType /\ call'.pc \in {"range", "failed", "idle"}
      /\ call'.pc = "range" => call'.r > 0
  <2>0. call \in CallType /\ call.r + 1 \in Nat /\ call.r + 1 > 0 BY DEF PInv, Typed, CallType
  <2>1. CASE PassOver
    <3>1. Wanted(call.r) \in Int
      BY <2>1 DEF PInv, Typed, CallType, PassOver, Wanted, Ranges
    <3>2. call' = [call EXCEPT !.req = Wanted(call.r), !.r = call.r + 1] /\ call.pc = "range"
      BY <2>1 DEF PassOver
    <3>3. call' \in CallType BY <2>0, <3>1, <3>2, ToRange
    <3> QED BY <2>0, <3>2, <3>3 DEF CallType
  <2>2. CASE Exhausted BY <2>0, <2>2 DEF CallType, Exhausted
  <2>3. CASE Fail BY <2>3 DEF Fail, Idle, CallType
  <2>4. CASE LookFailed
    <3>1. call' = [call EXCEPT !.pc = "range", !.r = call.r + 1] BY <2>4 DEF LookFailed
    <3>2. call' \in CallType BY <2>0, <3>1, FromLook
    <3> QED BY <2>0, <3>1, <3>2 DEF CallType
  <2> QED BY <2>1, <2>2, <2>3, <2>4
<1>3. Typed' BY <1>1, <1>2 DEF PInv, Typed
<1>4. LookInv' BY <1>2 DEF LookInv
<1> QED BY <1>1, <1>2, <1>3, <1>4, Quiet, Hinted DEF PInv
-------------------------------------------------------------------------------
(* Lookups.                                                                *)
LEMMA RangeFacts ==
  ASSUME NEW r \in Ranges
  PROVE  Base[r] \in Nat /\ Total[r] \in Nat /\ Track[r] \in Nat /\ Track[r] > 0 /\ Total[r] > 0
<1>1. Track[r] \in Nat \ {0} /\ Base[r] \in Nat /\ Total[r] \in Nat /\ Total[r] > Track[r] OBVIOUS
<1> QED BY <1>1

(* Division is unique.                                                     *)
LEMMA DivUnique ==
  ASSUME NEW k \in Nat, NEW m \in 0 .. Item - 1
  PROVE  (k * Item + m) \div Item = k /\ (k * Item + m) % Item = m
<1> DEFINE q == k * Item + m
<1>0. k * Item \in Nat /\ q \in Nat OBVIOUS
<1> HIDE DEF q
<1>1. q \div Item \in Nat /\ q % Item \in 0 .. Item - 1 /\ q = (q \div Item) * Item + (q % Item)
  BY <1>0, DivMod DEF WordOf
<1>2. (q \div Item) * Item \in Nat /\ q = k * Item + m BY <1>1 DEF q
<1>3. ~(k < q \div Item)
  <2> SUFFICES ASSUME k < q \div Item PROVE FALSE OBVIOUS
  <2>1. k * Item + Item <= (q \div Item) * Item BY <1>1, Multiples
  <2> QED BY <2>1, <1>0, <1>1, <1>2
<1>4. ~(q \div Item < k)
  <2> SUFFICES ASSUME q \div Item < k PROVE FALSE OBVIOUS
  <2>1. (q \div Item) * Item + Item <= k * Item BY <1>1, Multiples
  <2> QED BY <2>1, <1>0, <1>1, <1>2
<1>5. q \div Item = k BY <1>1, <1>3, <1>4
<1>6. q % Item = m BY <1>0, <1>1, <1>2, <1>5
<1> QED BY <1>5, <1>6 DEF q

(* The end of an item is the beginning of one; what comes before is in it. *)
LEMMA WordEnds ==
  ASSUME NEW p \in Nat, NEW n \in Nat, n <= Item - (p % Item)
  PROVE  IF n = Item - (p % Item) THEN (p + n) % Item = 0 ELSE WordOf(p + n) = WordOf(p)
<1>1. /\ p = (p \div Item) * Item + (p % Item) /\ p % Item \in 0 .. Item - 1 /\ p \div Item \in Nat
      /\ (p \div Item) * Item \in Nat
  BY DivMod DEF WordOf
<1>2. CASE n = Item - (p % Item)
  <2> DEFINE k == (p \div Item) + 1
  <2>1. k \in Nat /\ k * Item = (p \div Item) * Item + Item BY <1>1
  <2>2. p + n = k * Item + 0 BY <1>1, <1>2, <2>1
  <2> HIDE DEF k
  <2>4. 0 \in 0 .. Item - 1 OBVIOUS
  <2>3. (p + n) % Item = 0 BY <2>1, <2>2, <2>4, DivUnique
  <2> QED BY <2>3, <1>2
<1>3. CASE n # Item - (p % Item)
  <2> DEFINE m == (p % Item) + n
  <2>1. m \in 0 .. Item - 1 /\ p + n = (p \div Item) * Item + m BY <1>1, <1>3
  <2> HIDE DEF m
  <2>2. (p + n) \div Item = p \div Item BY <1>1, <2>1, DivUnique
  <2> QED BY <2>2, <1>3 DEF WordOf
<1> QED BY <1>2, <1>3

LEMMA SkipIsaIs ==
  ASSUME NEW r \in Ranges, NEW p \in Nat, BusyBelow(r, p)
  PROVE  /\ SkipIsa(r, p) \in Nat /\ Base[r] + SkipIsa(r, p) >= IsaEnd
         /\ BusyBelow(r, SkipIsa(r, p))
<1>1. Base[r] \in Nat /\ IsaEnd \in Nat BY RangeFacts
<1>2. CASE Base[r] + p < IsaEnd
  <2>1. SkipIsa(r, p) = IsaEnd - Base[r] BY <1>2 DEF SkipIsa
  <2>2. \A q \in Span(r) : q < IsaEnd - Base[r] => ~(Base[r] + q >= IsaEnd)
    BY <1>1, RangeFacts DEF Span
  <2> QED BY <1>1, <1>2, <2>1, <2>2 DEF BusyBelow
<1>3. CASE ~(Base[r] + p < IsaEnd) BY <1>1, <1>3 DEF SkipIsa
<1> QED BY <1>2, <1>3

(* A lookup that has found nothing so far.                                 *)
LEMMA LookBegins ==
  ASSUME call'.pc = "look", call'.r \in Ranges, call'.pos \in Nat, call'.ret = 0, UNCHANGED bmp,
         Base[call'.r] + call'.pos >= IsaEnd, BusyBelow(call'.r, call'.pos)
  PROVE  LookInv'
<1>1. ASSUME call'.pos < Total[call'.r] PROVE HeadBusy(call'.r, call'.pos)
  <2>1. call'.pos <= Total[call'.r] BY <1>1, RangeFacts
  <2> QED BY <2>1, BehindBusy
<1>2. Looking' => HeadBusy(call.r, call.pos)' BY <1>1 DEF Looking, HeadBusy
<1> QED BY <1>2 DEF LookInv, BusyBelow

LEMMA LookupType ==
  ASSUME NEW c \in CallType, NEW p \in Nat, NEW q \in Int, NEW b \in BOOLEAN
  PROVE  [[c EXCEPT !.pc = "look", !.pos = p, !.start = p, !.ret = 0, !.stop = FALSE]
           EXCEPT !.req = q, !.again = b] \in CallType
BY DEF CallType

LEMMA SearchKeeps ==
  ASSUME PInv, Search
  PROVE  PInv'
<1> DEFINE r == call.r
           from == IF next[r] = Total[r] THEN 0 ELSE next[r]
<1>1. /\ call.pc = "range" /\ call \in CallType /\ r \in Ranges /\ next[r] \in Nat
      /\ avail[r] \in Int /\ call.req \in Int /\ UNCHANGED <<early, bmp, avail, owned>>
  BY DEF PInv, Typed, CallType, Search, Ranges
<1>2. from \in Nat /\ BusyBelow(r, from)
  <2>1. BusyBelow(r, next[r]) BY <1>1, Hinted
  <2>2. BusyBelow(r, 0) BY RangeFacts, <1>1 DEF BusyBelow, Span
  <2> QED BY <1>1, <2>1, <2>2
<1>3. /\ next' = [next EXCEPT ![r] = from]
      /\ call' = [[call EXCEPT !.pc = "look", !.pos = SkipIsa(r, from), !.start = SkipIsa(r, from),
                               !.ret = 0, !.stop = FALSE] EXCEPT !.req = Wanted(r), !.again = FALSE]
  BY DEF Search, Lookup
<1> HIDE DEF from, r
<1>4. SkipIsa(r, from) \in Nat /\ Base[r] + SkipIsa(r, from) >= IsaEnd /\ BusyBelow(r, SkipIsa(r, from))
  BY <1>1, <1>2, SkipIsaIs
<1>5. call' \in CallType
  <2>1. Wanted(r) \in Int BY <1>1 DEF Wanted
  <2> QED BY <1>1, <1>3, <1>4, <2>1, LookupType
<1>6. call'.pc = "look" /\ call'.r = r /\ call'.pos = SkipIsa(r, from) /\ call'.ret = 0
  BY <1>1, <1>3 DEF CallType, r
<1>7. LookInv' BY <1>1, <1>4, <1>6, LookBegins
<1>8. \A s \in Ranges : BusyBelow(s, next'[s])
  <2>1. next \in [Ranges -> Nat] BY DEF PInv, Typed
  <2>2. \A s \in Ranges : next'[s] = IF s = r THEN from ELSE next[s] BY <1>3, <2>1
  <2> QED BY <1>1, <1>2, <2>2, Hinted
<1>9. Typed'
  <2>1. next' \in [Ranges -> Nat] BY <1>1, <1>2, <1>3 DEF PInv, Typed
  <2>2. ~early BY <1>1 DEF PInv, Typed
  <2> QED BY <1>1, <1>5, <1>6, <2>1, <2>2 DEF PInv, Typed
<1> QED BY <1>1, <1>6, <1>7, <1>8, <1>9, Quiet DEF PInv

LEMMA LookAgainKeeps ==
  ASSUME PInv, LookAgain
  PROVE  PInv'
<1> DEFINE r == call.r
<1>1. /\ call.pc = "look" /\ call \in CallType /\ r \in Ranges /\ call.req \in Int
      /\ UNCHANGED <<early, bmp, avail, owned>> /\ next' = [next EXCEPT ![r] = 0]
      /\ next \in [Ranges -> Nat] /\ ~early
  BY DEF PInv, Typed, CallType, LookAgain
<1>2. BusyBelow(r, 0) BY RangeFacts, <1>1 DEF BusyBelow, Span
<1>3. call' = [[call EXCEPT !.pc = "look", !.pos = SkipIsa(r, 0), !.start = SkipIsa(r, 0),
                            !.ret = 0, !.stop = FALSE] EXCEPT !.again = TRUE]
  BY DEF LookAgain, Lookup
<1> HIDE DEF r
<1>4. SkipIsa(r, 0) \in Nat /\ Base[r] + SkipIsa(r, 0) >= IsaEnd /\ BusyBelow(r, SkipIsa(r, 0))
  BY <1>1, <1>2, SkipIsaIs
<1>5. call' \in CallType BY <1>1, <1>3, <1>4 DEF CallType
<1>6. call'.pc = "look" /\ call'.r = r /\ call'.pos = SkipIsa(r, 0) /\ call'.ret = 0
  BY <1>1, <1>3 DEF CallType, r
<1>7. LookInv' BY <1>1, <1>4, <1>6, LookBegins
<1>8. \A s \in Ranges : BusyBelow(s, next'[s])
  <2>1. \A s \in Ranges : next'[s] = IF s = r THEN 0 ELSE next[s] BY <1>1
  <2> QED BY <1>1, <1>2, <2>1, Hinted
<1>9. Typed' BY <1>1, <1>5, <1>6 DEF PInv, Typed
<1> QED BY <1>1, <1>6, <1>7, <1>8, <1>9, Quiet DEF PInv
-------------------------------------------------------------------------------
(* The passes of a lookup.                                                 *)
LEMMA Looks ==
  ASSUME PInv, Looking
  PROVE  /\ call.pc = "look" /\ call \in CallType /\ call.r \in Ranges /\ ~early /\ ~call.stop
         /\ avail[call.r] \in Int /\ call.req \in Int
         /\ call.pos \in Nat /\ call.ret \in Nat /\ call.start \in Nat
         /\ call.pos < Total[call.r] /\ call.ret < call.req /\ call.ret < avail[call.r]
         /\ LookFrames \in Nat /\ LookFrames > 0 /\ LookFrames <= Item - (call.pos % Item)
         /\ LookFrames <= call.req - call.ret /\ LookFrames <= avail[call.r] - call.ret
         /\ \/ LookFrames = Item - (call.pos % Item)
            \/ LookFrames = call.req - call.ret
            \/ LookFrames = avail[call.r] - call.ret
         /\ HeadBusy(call.r, call.pos) /\ Base[call.r] + call.pos >= IsaEnd
<1>1. /\ call.pc = "look" /\ call \in CallType /\ call.r \in Ranges /\ ~early /\ ~call.stop
      /\ avail[call.r] \in Int /\ call.req \in Int
      /\ call.pos \in Nat /\ call.ret \in Nat /\ call.start \in Nat
  BY DEF PInv, Typed, CallType, Looking
<1>2. call.pos < Total[call.r] /\ call.ret < call.req /\ call.ret < avail[call.r]
  BY <1>1, RangeFacts DEF Looking
<1>3. call.pos % Item \in 0 .. Item - 1 BY <1>1, DivMod
<1>4. /\ LookFrames \in Nat /\ LookFrames > 0 /\ LookFrames <= Item - (call.pos % Item)
      /\ LookFrames <= call.req - call.ret /\ LookFrames <= avail[call.r] - call.ret
      /\ \/ LookFrames = Item - (call.pos % Item)
         \/ LookFrames = call.req - call.ret
         \/ LookFrames = avail[call.r] - call.ret
  BY <1>1, <1>2, <1>3 DEF LookFrames, Least
<1>5. HeadBusy(call.r, call.pos) /\ Base[call.r] + call.pos >= IsaEnd BY <1>1 DEF PInv, LookInv
<1> QED BY <1>1, <1>2, <1>4, <1>5

(* What a pass has to show: nothing is found yet, or what is found is one  *)
(* run of free frames.                                                     *)
LEMMA PassKeeps ==
  ASSUME PInv, call.pc = "look", UNCHANGED <<early, bmp, avail, next, owned>>,
         call' \in CallType, call'.pc = "look", call'.r = call.r, call'.req = call.req, LookInv'
  PROVE  PInv'
<1>1. Typed' BY DEF PInv, Typed
<1>2. \A r \in Ranges : BusyBelow(r, next'[r]) BY Hinted
<1> QED BY <1>1, <1>2, Quiet DEF PInv

LEMMA FoundSome ==
  ASSUME PInv, call.pc = "look", UNCHANGED <<bmp, avail>>, call'.pc = "look", call'.r = call.r,
         call'.req = call.req, call' \in CallType, call.pos <= call'.pos,
         call'.ret > 0, call'.pos = call'.start + call'.ret, call'.pos <= Total[call.r],
         call'.ret <= avail[call.r], call'.ret <= call.req,
         BusyBelow(call.r, call'.start), Base[call.r] + call'.start >= IsaEnd,
         call'.start .. call'.pos - 1 \subseteq Free(call.r),
         Looking' => HeadBusy(call.r, call'.pos)
  PROVE  LookInv'
<1>1. call.r \in Ranges /\ call.pos \in Nat /\ call'.pos \in Nat /\ call'.start \in Nat
  BY DEF PInv, Typed, CallType
<1>2. Base[call.r] + call'.pos >= IsaEnd BY <1>1, RangeFacts DEF PInv, LookInv
<1>3. Looking' => HeadBusy(call.r, call.pos)' BY DEF HeadBusy
<1>4. BusyBelow(call.r, call.start)' BY DEF BusyBelow
<1>5. (call.start .. call.pos - 1 \subseteq Free(call.r))' BY DEF Free
<1> QED BY <1>2, <1>3, <1>4, <1>5 DEF LookInv

LEMMA PassType ==
  ASSUME NEW c \in CallType, NEW s \in Nat, NEW n \in Nat, NEW p \in Nat, NEW b \in BOOLEAN
  PROVE  /\ [c EXCEPT !.start = s, !.ret = n, !.pos = p, !.stop = b] \in CallType
         /\ [c EXCEPT !.start = s, !.ret = n, !.pos = p] \in CallType
BY DEF CallType

LEMMA LookFastKeeps ==
  ASSUME PInv, LookFast
  PROVE  PInv'
<1> DEFINE r == call.r  p == call.pos  n == LookFrames
           s == IF call.ret = 0 THEN p ELSE call.start
<1>0. Looking /\ LookHits = {} /\ UNCHANGED <<early, bmp, avail, next, owned>>
      /\ call' = [call EXCEPT !.start = s, !.ret = call.ret + n, !.pos = p + n]
  BY DEF LookFast
<1>1. /\ call.pc = "look" /\ call \in CallType /\ r \in Ranges /\ ~call.stop
      /\ avail[r] \in Int /\ call.req \in Int
      /\ p \in Nat /\ call.ret \in Nat /\ call.start \in Nat
      /\ p < Total[r] /\ n \in Nat /\ n > 0 /\ n <= Item - (p % Item)
      /\ n <= call.req - call.ret /\ n <= avail[r] - call.ret
      /\ n = Item - (p % Item) \/ n = call.req - call.ret \/ n = avail[r] - call.ret
      /\ HeadBusy(r, p) /\ Base[r] + p >= IsaEnd
  BY <1>0, Looks
<1>2. Mask(p, n) \cap bmp[r] = {} BY <1>0 DEF LookHits
<1> HIDE DEF n
<1>3. p % Item = 0
  <2> SUFFICES ASSUME p % Item # 0 PROVE FALSE OBVIOUS
  <2>1. WordOf(p) \in bmp[r] BY <1>1 DEF HeadBusy
  <2>2. WordOf(p) \in Mask(p, n) BY <1>1, MaskHead
  <2> QED BY <2>1, <2>2, <1>2
<1>4. Mask(p, n) = p .. p + n - 1 BY <1>1, <1>3, MaskAligned
<1>5. p + n <= Total[r]
  <2>1. Total[r] \in bmp[r] /\ Total[r] \in Nat BY <1>1, RangeFacts DEF PInv, MarkedInv
  <2>2. Total[r] \notin p .. p + n - 1 BY <2>1, <1>2, <1>4
  <2> QED BY <2>1, <2>2, <1>1
<1>6. p .. p + n - 1 \subseteq Free(r)
  <2> SUFFICES ASSUME NEW q \in p .. p + n - 1 PROVE q \in 0 .. Total[r] - 1 /\ q \notin bmp[r]
    BY DEF Free
  <2>1. q \notin bmp[r] BY <1>2, <1>4
  <2>2. Total[r] \in Nat BY <1>1, RangeFacts
  <2> HIDE DEF p, r
  <2> QED BY <1>1, <1>5, <2>1, <2>2
<1>7. s \in Nat /\ BusyBelow(r, s) /\ Base[r] + s >= IsaEnd /\ s + (call.ret + n) = p + n
      /\ s .. (p + n) - 1 \subseteq Free(r)
  <2>1. CASE call.ret = 0
    <3>1. s = p BY <2>1
    <3>2. BusyBelow(r, p) BY <1>1, <2>1 DEF PInv, LookInv
    <3> QED BY <1>1, <1>6, <2>1, <3>1, <3>2
  <2>2. CASE call.ret # 0
    <3>1. s = call.start BY <2>2
    <3>2. /\ BusyBelow(r, s) /\ Base[r] + s >= IsaEnd /\ p = s + call.ret
          /\ s .. p - 1 \subseteq Free(r)
      BY <1>1, <2>2, <3>1 DEF PInv, LookInv
    <3> HIDE DEF s, p, r
    <3>3. s .. (p + n) - 1 = (s .. p - 1) \cup (p .. p + n - 1) BY <1>1, <2>2, <3>1, <3>2
    <3> QED BY <1>1, <1>6, <3>1, <3>2, <3>3
  <2> QED BY <2>1, <2>2
<1> HIDE DEF s
<1>8. /\ call' \in CallType /\ call'.pc = "look" /\ call'.r = r /\ call'.req = call.req
      /\ call'.start = s /\ call'.ret = call.ret + n /\ call'.pos = p + n
  <2>1. call.ret + n \in Nat /\ p + n \in Nat BY <1>1
  <2>2. call' \in CallType BY <1>0, <1>1, <1>7, <2>1, PassType
  <2> QED BY <1>0, <1>1, <2>2 DEF CallType
<1>9. ASSUME Looking' PROVE HeadBusy(r, p + n)
  <2>1. call.ret + n < call.req /\ call.ret + n < avail[r]
    BY <1>0, <1>1, <1>8, <1>9 DEF Looking
  <2>2. n = Item - (p % Item) BY <1>1, <2>1
  <2>3. (p + n) % Item = 0 BY <1>1, <2>2, WordEnds
  <2> QED BY <2>3 DEF HeadBusy
<1>10. LookInv'
  <2>1. call'.ret > 0 /\ call'.ret <= avail[r] /\ call'.ret <= call.req /\ p <= call'.pos
    BY <1>1, <1>8
  <2> QED BY <2>1, <1>0, <1>1, <1>5, <1>7, <1>8, <1>9, FoundSome
<1> QED BY <1>0, <1>1, <1>8, <1>10, PassKeeps

LEMMA LookFullKeeps ==
  ASSUME PInv, LookFull, ~astray'
  PROVE  PInv'
<1> DEFINE r == call.r  p == call.pos
<1>0. /\ Looking /\ Word(p) \subseteq bmp[r] /\ UNCHANGED <<early, bmp, avail, next, owned>>
      /\ call' = [call EXCEPT !.pos = p + Item] /\ ~(call.ret > 0) /\ p % Item = 0
  BY DEF LookFull
<1>1. /\ call.pc = "look" /\ call \in CallType /\ r \in Ranges /\ p \in Nat /\ call.ret \in Nat
      /\ Base[r] + p >= IsaEnd
  BY <1>0, Looks
<1>2. call.ret = 0 /\ BusyBelow(r, p) BY <1>0, <1>1 DEF PInv, LookInv
<1>3. p .. p + Item - 1 \subseteq bmp[r] BY <1>0, <1>1, MaskAligned DEF Word
<1>4. p + Item \in Nat /\ BusyBelow(r, p + Item) BY <1>1, <1>2, <1>3 DEF BusyBelow, Span
<1>5. /\ call' \in CallType /\ call'.pc = "look" /\ call'.r = r /\ call'.req = call.req
      /\ call'.pos = p + Item /\ call'.ret = 0
  BY <1>0, <1>1, <1>2, <1>4 DEF CallType
<1>6. Base[r] + (p + Item) >= IsaEnd BY <1>1, RangeFacts
<1>7. LookInv' BY <1>0, <1>1, <1>4, <1>5, <1>6, LookBegins
<1> QED BY <1>0, <1>1, <1>5, <1>7, PassKeeps

(* Frame by frame: what is skipped is busy, what is counted is free, and   *)
(* the pass ends behind free frames only before a busy one or at its end.  *)
SlowFrom(r, p, end, found) ==
  LET busy == (p .. end - 1) \cap bmp[r]
  IN  IF found > 0 THEN p
      ELSE IF p .. end - 1 \subseteq busy THEN end ELSE LeastOf((p .. end - 1) \ busy)
SlowCut(r, p, end, found) == {q \in (p .. end - 1) \cap bmp[r] : q >= SlowFrom(r, p, end, found)}
SlowTo(r, p, end, found) ==
  IF SlowCut(r, p, end, found) = {} THEN end ELSE LeastOf(SlowCut(r, p, end, found))

LEMMA SlowPass ==
  ASSUME NEW r \in Ranges, NEW p \in Nat, NEW end \in Nat, p < end, NEW found \in Nat
  PROVE  LET from == SlowFrom(r, p, end, found)
             to == SlowTo(r, p, end, found)
         IN  /\ from \in p .. end /\ to \in from .. end
             /\ \A q \in from .. to - 1 : q \notin bmp[r]
             /\ found > 0 => from = p
             /\ found = 0 => (\A q \in p .. from - 1 : q \in bmp[r]) /\ (to = from => from = end)
             /\ IF SlowCut(r, p, end, found) = {} THEN to = end ELSE to < end
<1> DEFINE from == SlowFrom(r, p, end, found)
           cut == SlowCut(r, p, end, found)
           to == SlowTo(r, p, end, found)
<1> DEFINE W == p .. end - 1
<1>1. W \subseteq Nat OBVIOUS
<1>0. cut = {q \in W \cap bmp[r] : q >= from} /\ to = IF cut = {} THEN end ELSE LeastOf(cut)
  BY DEF SlowCut, SlowTo
<1> HIDE DEF from, cut, to
<1>2. /\ from \in p .. end
      /\ found > 0 => from = p
      /\ found = 0 => \A q \in p .. from - 1 : q \in bmp[r]
      /\ found = 0 /\ from # end => from \notin bmp[r]
  <2>1. CASE found > 0 BY <2>1 DEF from, SlowFrom
  <2>2. CASE ~(found > 0) /\ W \subseteq bmp[r]
    <3>1. from = end BY <2>2 DEF from, SlowFrom
    <3> QED BY <2>2, <3>1
  <2>3. CASE ~(found > 0) /\ ~(W \subseteq bmp[r])
    <3> DEFINE S == W \ (W \cap bmp[r])
    <3>1. S # {} /\ S \in SUBSET Nat BY <1>1, <2>3
    <3>2. from = LeastOf(S) BY <2>3 DEF from, SlowFrom
    <3> HIDE DEF S
    <3>3. from \in S /\ \A y \in S : from <= y BY <3>1, <3>2, LeastOfIs
    <3>4. from \in W /\ from \notin bmp[r] BY <3>3 DEF S
    <3>5. ASSUME NEW q \in p .. from - 1 PROVE q \in bmp[r]
      <4>1. q \in W /\ q < from /\ q \in Nat /\ from \in Nat BY <3>4
      <4>2. q \notin S BY <3>3, <4>1
      <4> QED BY <4>1, <4>2 DEF S
    <3> QED BY <3>4, <3>5, <2>3
  <2> QED BY <2>1, <2>2, <2>3
<1>3. from \in Nat BY <1>2
<1> DEFINE Goal ==
  /\ from \in p .. end /\ to \in from .. end
  /\ \A q \in from .. to - 1 : q \notin bmp[r]
  /\ found > 0 => from = p
  /\ found = 0 => (\A q \in p .. from - 1 : q \in bmp[r]) /\ (to = from => from = end)
  /\ IF cut = {} THEN to = end ELSE to < end
<1>4. ASSUME cut = {} PROVE Goal
  <2>1. to = end BY <1>0, <1>4
  <2>2. \A q \in from .. end - 1 : q \notin bmp[r]
    <3> SUFFICES ASSUME NEW q \in from .. end - 1, q \in bmp[r] PROVE FALSE OBVIOUS
    <3>1. q \in W /\ q >= from BY <1>2, <1>3
    <3>2. q \in cut BY <1>0, <3>1
    <3> QED BY <3>2, <1>4
  <2>3. (to = from => from = end) /\ to \in from .. end BY <1>2, <2>1
  <2>4. \A q \in from .. to - 1 : q \notin bmp[r] BY <2>1, <2>2
  <2> QED BY <1>2, <1>4, <2>1, <2>3, <2>4
<1>5. ASSUME cut # {} PROVE Goal
  <2>1. cut \in SUBSET Nat BY <1>0, <1>1
  <2>2. to = LeastOf(cut) BY <1>0, <1>5
  <2>3. to \in cut /\ \A y \in cut : to <= y BY <1>5, <2>1, <2>2, LeastOfIs
  <2>4. to \in W /\ to \in bmp[r] /\ to >= from BY <1>0, <2>3
  <2>5. \A q \in from .. to - 1 : q \notin bmp[r]
    <3> SUFFICES ASSUME NEW q \in from .. to - 1, q \in bmp[r] PROVE FALSE OBVIOUS
    <3>1. q \in W /\ q >= from /\ q < to /\ q \in Nat /\ to \in Nat BY <1>2, <1>3, <2>4
    <3>2. q \in cut BY <1>0, <3>1
    <3> QED BY <2>3, <3>1, <3>2
  <2>6. found = 0 /\ to = from => from = end BY <1>2, <2>4
  <2>7. to \in from .. end /\ to < end BY <1>3, <2>4
  <2> QED BY <1>2, <1>5, <2>5, <2>6, <2>7
<1>6. Goal BY <1>4, <1>5
<1> QED BY <1>6 DEF from, to, cut

LEMMA LookSlowKeeps ==
  ASSUME PInv, LookSlow
  PROVE  /\ PInv' /\ call'.pc = "look" /\ call'.r = call.r /\ call'.req = call.req
         /\ call'.stop => call'.ret > 0
<1> DEFINE r == call.r  p == call.pos  n == LookFrames  found == call.ret
           end == Least(p + n, Total[r])
           W == {q \in p .. p + n - 1 : q < Total[r]}
           last == p + Cardinality(W)
           busy == W \cap bmp[r]
           from == IF found > 0 THEN p
                   ELSE IF W \subseteq busy THEN last ELSE LeastOf(W \ busy)
           cut == {q \in busy : q >= from}
           to == IF cut = {} THEN last ELSE LeastOf(cut)
           s == IF found = 0 /\ to > from THEN from ELSE call.start
<1>0. Looking /\ UNCHANGED <<early, bmp, avail, next, owned>>
      /\ call' = [call EXCEPT !.start = s, !.ret = found + (to - from), !.pos = to, !.stop = cut # {}]
  BY DEF LookSlow
<1>1. /\ call.pc = "look" /\ call \in CallType /\ r \in Ranges
      /\ avail[r] \in Int /\ call.req \in Int
      /\ p \in Nat /\ found \in Nat /\ call.start \in Nat
      /\ p < Total[r] /\ n \in Nat /\ n > 0 /\ n <= Item - (p % Item)
      /\ n <= call.req - found /\ n <= avail[r] - found
      /\ n = Item - (p % Item) \/ n = call.req - found \/ n = avail[r] - found
      /\ HeadBusy(r, p) /\ Base[r] + p >= IsaEnd /\ Total[r] \in Nat /\ Base[r] \in Nat
  BY <1>0, Looks, RangeFacts
<1> HIDE DEF n, p, r, found
<1>2. end \in Nat /\ p < end /\ end <= p + n /\ end <= Total[r] /\ (end = p + n \/ end = Total[r])
  BY <1>1 DEF Least
<1>3. W = p .. end - 1
  <2>1. ASSUME NEW q \in Int PROVE (q <= p + n - 1 /\ q < Total[r]) <=> q <= end - 1
    BY <1>1, <2>1 DEF Least
  <2> HIDE DEF end
  <2> QED BY <1>1, <1>2, <2>1
<1> HIDE DEF end
<1>4. last = end
  <2>1. Cardinality(W) = end - p
    <3>1. p \in Int /\ end - 1 \in Int BY <1>1, <1>2
    <3>2. Cardinality(p .. end - 1) = IF p > end - 1 THEN 0 ELSE (end - 1) - p + 1
      BY <3>1, FS_Interval
    <3>3. Cardinality(W) = Cardinality(p .. end - 1) BY <1>3
    <3> HIDE DEF W
    <3> QED BY <1>1, <1>2, <3>2, <3>3
  <2> HIDE DEF W
  <2> QED BY <1>1, <1>2, <2>1
<1>5. /\ from = SlowFrom(r, p, end, found) /\ cut = SlowCut(r, p, end, found)
      /\ to = SlowTo(r, p, end, found)
  <2> HIDE DEF last, W
  <2>1. from = SlowFrom(r, p, end, found) BY <1>3, <1>4 DEF SlowFrom
  <2> HIDE DEF from
  <2>2. cut = SlowCut(r, p, end, found) BY <1>3, <2>1 DEF SlowCut
  <2> HIDE DEF cut
  <2>3. to = SlowTo(r, p, end, found) BY <1>4, <2>2 DEF SlowTo
  <2> QED BY <2>1, <2>2, <2>3
<1> HIDE DEF from, cut, to
<1>6. /\ from \in p .. end /\ to \in from .. end
      /\ \A q \in from .. to - 1 : q \notin bmp[r]
      /\ found > 0 => from = p
      /\ found = 0 => (\A q \in p .. from - 1 : q \in bmp[r]) /\ (to = from => from = end)
      /\ IF cut = {} THEN to = end ELSE to < end
  <2> HIDE DEF last, W
  <2>1. r \in Ranges /\ p \in Nat /\ end \in Nat /\ p < end /\ found \in Nat BY <1>1, <1>2
  <2>2. /\ SlowFrom(r, p, end, found) \in p .. end
        /\ SlowTo(r, p, end, found) \in SlowFrom(r, p, end, found) .. end
        /\ \A q \in SlowFrom(r, p, end, found) .. SlowTo(r, p, end, found) - 1 : q \notin bmp[r]
        /\ found > 0 => SlowFrom(r, p, end, found) = p
        /\ found = 0 => /\ \A q \in p .. SlowFrom(r, p, end, found) - 1 : q \in bmp[r]
                        /\ SlowTo(r, p, end, found) = SlowFrom(r, p, end, found)
                             => SlowFrom(r, p, end, found) = end
        /\ IF SlowCut(r, p, end, found) = {} THEN SlowTo(r, p, end, found) = end
           ELSE SlowTo(r, p, end, found) < end
    BY <2>1, SlowPass
  <2> QED BY <2>2, <1>5
<1>7. from \in Nat /\ to \in Nat /\ p <= from /\ from <= to /\ to <= end BY <1>1, <1>2, <1>6
<1>8. s \in Nat BY <1>1, <1>7
<1>9. /\ call' \in CallType /\ call'.pc = "look" /\ call'.r = r /\ call'.req = call.req
      /\ call'.start = s /\ call'.ret = found + (to - from) /\ call'.pos = to
      /\ call'.stop = (cut # {})
  <2>1. found + (to - from) \in Nat /\ (cut # {}) \in BOOLEAN BY <1>1, <1>7
  <2>2. call' \in CallType BY <1>0, <1>1, <1>7, <1>8, <2>1, PassType
  <2> QED BY <1>0, <1>1, <2>2 DEF CallType, r
<1>10. Base[r] + to >= IsaEnd BY <1>1, <1>7
<1>11. CASE found + (to - from) = 0
  <2>1. found = 0 /\ to = end /\ from = end BY <1>1, <1>2, <1>6, <1>7, <1>11
  <2>2. BusyBelow(r, p) BY <1>1, <2>1 DEF PInv, LookInv, r, p, found
  <2>3. \A q \in p .. to - 1 : q \in bmp[r] BY <1>6, <2>1
  <2>4. BusyBelow(r, to) BY <1>1, <1>7, <2>2, <2>3 DEF BusyBelow, Span
  <2>5. LookInv' BY <1>0, <1>1, <1>7, <1>9, <1>10, <1>11, <2>4, LookBegins
  <2>6. cut = {} BY <1>2, <1>6, <2>1
  <2>7. ~call'.stop BY <1>9, <2>6
  <2>8. PInv' BY <1>0, <1>1, <1>9, <2>5, PassKeeps DEF r
  <2> QED BY <1>9, <2>7, <2>8 DEF r
<1>12. CASE found + (to - from) > 0
  <2>1. s + (found + (to - from)) = to /\ BusyBelow(r, s) /\ Base[r] + s >= IsaEnd
        /\ s .. to - 1 \subseteq Free(r)
    <3>0. from .. to - 1 \subseteq Free(r)
      <4> SUFFICES ASSUME NEW q \in from .. to - 1 PROVE q \in 0 .. Total[r] - 1 /\ q \notin bmp[r]
        BY DEF Free
      <4> QED BY <1>1, <1>2, <1>6, <1>7
    <3>1. CASE found = 0
      <4>1. s = from BY <1>7, <1>12, <3>1
      <4>2. BusyBelow(r, p) BY <1>1, <3>1 DEF PInv, LookInv, r, p, found
      <4>3. BusyBelow(r, from) BY <1>1, <1>6, <1>7, <3>1, <4>2 DEF BusyBelow, Span
      <4>4. Base[r] + from >= IsaEnd BY <1>1, <1>7
      <4>5. from + (found + (to - from)) = to BY <1>7, <3>1
      <4> HIDE DEF s
      <4> QED BY <3>0, <4>1, <4>3, <4>4, <4>5
    <3>2. CASE found # 0
      <4>1. s = call.start /\ from = p BY <1>1, <1>6, <3>2
      <4>2. /\ BusyBelow(r, s) /\ Base[r] + s >= IsaEnd /\ p = s + found
            /\ s .. p - 1 \subseteq Free(r)
        BY <1>1, <3>2, <4>1 DEF PInv, LookInv, r, p, found
      <4> HIDE DEF s
      <4>3. s .. to - 1 = (s .. p - 1) \cup (from .. to - 1) BY <1>1, <1>7, <1>8, <4>1, <4>2
      <4>4. s + (found + (to - from)) = to BY <1>1, <1>7, <1>8, <4>1, <4>2
      <4> QED BY <3>0, <4>2, <4>3, <4>4
    <3> QED BY <3>1, <3>2
  <2> HIDE DEF s
  <2>2. ASSUME Looking' PROVE HeadBusy(r, to)
    <3>1. cut = {} /\ to < Total[r] /\ found + (to - from) < call.req /\ found + (to - from) < avail[r]
      BY <1>0, <1>1, <1>9, <2>2 DEF Looking
    <3>2. to = p + n BY <1>1, <1>2, <1>6, <3>1
    <3>3. CASE n = Item - (p % Item)
      <4>1. to % Item = 0 BY <1>1, <3>2, <3>3, WordEnds
      <4> QED BY <4>1 DEF HeadBusy
    <3>4. CASE n # Item - (p % Item)
      <4>1. p % Item \in Nat BY <1>1, DivMod
      <4>2. from > p BY <1>1, <1>7, <3>1, <3>2, <3>4, <4>1
      <4>3. found = 0 /\ p \in p .. from - 1 BY <1>1, <1>6, <1>7, <4>2
      <4>4. p \in bmp[r] BY <1>6, <4>3
      <4>5. WordOf(to) = WordOf(p) BY <1>1, <3>2, <3>4, WordEnds
      <4>6. WordOf(p) \in bmp[r]
        <5>1. CASE p % Item = 0
          <6>1. WordOf(p) = p BY <1>1, <5>1, DivMod
          <6> QED BY <4>4, <6>1
        <5>2. CASE p % Item # 0 BY <1>1, <5>2 DEF HeadBusy
        <5> QED BY <5>1, <5>2
      <4> QED BY <4>5, <4>6 DEF HeadBusy
    <3> QED BY <3>3, <3>4
  <2>3. LookInv'
    <3>1. call'.ret > 0 /\ call'.ret <= avail[r] /\ call'.ret <= call.req /\ p <= call'.pos
          /\ call'.pos <= Total[r] /\ call'.pos = call'.start + call'.ret
      BY <1>1, <1>2, <1>7, <1>9, <1>12, <2>1
    <3>2. BusyBelow(r, call'.start) /\ Base[r] + call'.start >= IsaEnd
          /\ call'.start .. call'.pos - 1 \subseteq Free(r)
          /\ (Looking' => HeadBusy(r, call'.pos))
      BY <1>9, <2>1, <2>2
    <3> QED BY <1>0, <1>1, <1>9, <3>1, <3>2, FoundSome DEF r, p
  <2>4. PInv' BY <1>0, <1>1, <1>9, <2>3, PassKeeps DEF r
  <2> QED BY <1>9, <1>12, <2>4 DEF r
<1>13. found + (to - from) \in Nat BY <1>1, <1>7
<1> QED BY <1>11, <1>12, <1>13
-------------------------------------------------------------------------------
(* What is handed out.                                                     *)
LEMMA RunIs ==
  ASSUME NEW r \in Ranges, NEW p \in Nat, NEW n \in Nat, p + n <= Total[r], NEW a \in Run(r, p, n)
  PROVE  \E q \in p .. p + n - 1 : a = Base[r] + q /\ q \in Span(r) /\ a \in Addresses
<1>1. PICK q \in p .. p + n - 1 : a = Base[r] + q BY DEF Run
<1>2. q \in Span(r) /\ q \in 0 .. Total[r] + Track[r] - 1 BY RangeFacts DEF Span
<1> QED BY <1>1, <1>2, IsAddress

LEMMA NotHeld ==
  ASSUME PInv, call.pc # "mark", NEW r \in Ranges, NEW p \in Free(r)
  PROVE  Base[r] + p \in Addresses /\ owned[Base[r] + p] = 0
<1>1. p \in Span(r) /\ p \notin bmp[r] BY DEF Free, Span
<1>2. Moving(r) = {} BY DEF Moving
<1>3. Base[r] + p \notin Held BY <1>1, <1>2 DEF PInv, MarkedInv
<1>4. Base[r] + p \in Addresses
  <2>1. p \in 0 .. Total[r] + Track[r] - 1 BY <1>1, RangeFacts DEF Span
  <2> QED BY <2>1, IsAddress
<1>5. owned[Base[r] + p] \in {0, 1} BY <1>4 DEF PInv, Typed
<1> QED BY <1>3, <1>4, <1>5 DEF Held

LEMMA FreeRun ==
  ASSUME PInv, call.pc # "mark", NEW r \in Ranges, NEW p \in Nat, NEW n \in Nat,
         p + n <= Total[r], Base[r] + p >= IsaEnd, p .. p + n - 1 \subseteq Free(r)
  PROVE  \A a \in Run(r, p, n) :
           a \in Addresses /\ owned[a] = 0 /\ a >= IsaEnd
           /\ \E q \in p .. p + n - 1 : a = Base[r] + q /\ q \in Span(r)
<1> SUFFICES ASSUME NEW a \in Run(r, p, n)
             PROVE  a \in Addresses /\ owned[a] = 0 /\ a >= IsaEnd
                    /\ \E q \in p .. p + n - 1 : a = Base[r] + q /\ q \in Span(r)
  OBVIOUS
<1>1. PICK q \in p .. p + n - 1 : a = Base[r] + q /\ q \in Span(r) /\ a \in Addresses BY RunIs
<1>2. owned[a] = 0 BY <1>1, NotHeld
<1>3. a >= IsaEnd BY <1>1, RangeFacts
<1> QED BY <1>1, <1>2, <1>3

(* Handing out and taking back are the steps of Frames.                    *)
LEMMA Handed ==
  ASSUME PInv, NEW S, \A a \in S : a \in Addresses /\ owned[a] = 0 /\ a >= IsaEnd,
         owned' = Owned(S, 1)
  PROVE  owned' \in [Addresses -> {0, 1}] /\ Held' = Held \cup S /\ FS!Next
<1>1. owned \in [Addresses -> {0, 1}] BY DEF PInv, Typed
<1>2. \A a \in Addresses : owned'[a] = IF a \in S THEN 1 ELSE owned[a] BY <1>1 DEF Owned
<1>3. owned' = [a \in Addresses |-> owned'[a]] BY DEF Owned
<1>4. owned' \in [Addresses -> {0, 1}] BY <1>1, <1>2, <1>3
<1>5. Held' = {a \in Addresses : owned'[a] > 0} BY DEF Held
<1>6. Held' = Held \cup S BY <1>1, <1>2, <1>4, <1>5 DEF Held
<1>7. owned' = [a \in Addresses |-> IF a \in S THEN 1 ELSE owned[a]] BY <1>2, <1>3
<1>8. FS!Next BY <1>7 DEF FS!Next, FS!Take
<1> QED BY <1>4, <1>6, <1>8

LEMMA Returned ==
  ASSUME PInv, NEW S, S \subseteq Held, owned' = Owned(S, -1)
  PROVE  owned' \in [Addresses -> {0, 1}] /\ Held' = Held \ S /\ FS!Next
<1>1. owned \in [Addresses -> {0, 1}] BY DEF PInv, Typed
<1>2. \A a \in S : a \in Addresses /\ owned[a] = 1 BY <1>1 DEF Held
<1>3. \A a \in Addresses : owned'[a] = IF a \in S THEN 0 ELSE owned[a] BY <1>1, <1>2 DEF Owned
<1>4. owned' = [a \in Addresses |-> owned'[a]] BY DEF Owned
<1>5. owned' \in [Addresses -> {0, 1}] BY <1>1, <1>3, <1>4
<1>6. Held' = {a \in Addresses : owned'[a] > 0} BY DEF Held
<1>7. Held' = Held \ S BY <1>1, <1>3, <1>5, <1>6 DEF Held
<1>8. owned' = [a \in Addresses |-> IF a \in S THEN 0 ELSE owned[a]] BY <1>3, <1>4
<1>9. S \in SUBSET {a \in Addresses : a >= IsaEnd} BY <1>2 DEF PInv, MarkedInv
<1>10. FS!Next BY <1>2, <1>8, <1>9 DEF FS!Next, FS!Give
<1> QED BY <1>5, <1>7, <1>10

LEMMA CallbackType ==
  ASSUME NEW c \in CallType, NEW n \in Nat, NEW q \in Int, NEW p \in Nat, NEW u \in Nat
  PROVE  [c EXCEPT !.pc = "mark", !.need = n, !.req = q, !.pos = p, !.left = u, !.ret = u] \in CallType
BY DEF CallType

LEMMA CallbackFacts ==
  ASSUME PInv, Callback
  PROVE  /\ call.pc = "look" /\ call \in CallType /\ call.r \in Ranges /\ ~early
         /\ call.start \in Nat /\ call.ret \in Nat /\ call.need \in Nat /\ call.req \in Int
         /\ Used \in Nat /\ Used <= call.ret /\ Used <= call.need /\ avail[call.r] \in Int
         /\ BusyBelow(call.r, call.start) /\ Base[call.r] + call.start >= IsaEnd
         /\ call.ret > 0 /\ call.ret <= avail[call.r] /\ call.start + call.ret <= Total[call.r]
         /\ call.start .. call.start + call.ret - 1 \subseteq Free(call.r)
         /\ call.start .. call.start + Used - 1 \subseteq Free(call.r)
<1>1. /\ call.pc = "look" /\ call \in CallType /\ call.r \in Ranges /\ ~early
      /\ call.start \in Nat /\ call.ret \in Nat /\ call.need \in Nat /\ call.req \in Int
      /\ call.ret > 0 /\ avail[call.r] \in Int
  BY DEF PInv, Typed, CallType, Callback
<1>2. Used \in Nat /\ Used <= call.ret /\ Used <= call.need BY <1>1 DEF Used, Least
<1>3. /\ BusyBelow(call.r, call.start) /\ Base[call.r] + call.start >= IsaEnd
      /\ call.ret <= avail[call.r] /\ call.pos = call.start + call.ret /\ call.pos <= Total[call.r]
      /\ call.start .. call.pos - 1 \subseteq Free(call.r)
  BY <1>1 DEF PInv, LookInv
<1>4. call.start .. call.start + Used - 1 \subseteq call.start .. call.start + call.ret - 1
  BY <1>1, <1>2
<1> QED BY <1>1, <1>2, <1>3, <1>4

LEMMA CallbackKeeps ==
  ASSUME PInv, Callback
  PROVE  PInv'
<1> DEFINE r == call.r  p == call.start  u == Used  S == Run(r, p, u)
<1>0. /\ owned' = Owned(S, 1) /\ UNCHANGED <<early, bmp, avail>>
      /\ call' = [call EXCEPT !.pc = "mark", !.need = call.need - u, !.req = call.req - u,
                              !.pos = p, !.left = u, !.ret = u]
      /\ next' = [next EXCEPT ![r] = p + call.ret]
  BY DEF Callback
<1>1. /\ call.pc = "look" /\ call \in CallType /\ r \in Ranges /\ ~early
      /\ p \in Nat /\ call.ret \in Nat /\ call.need \in Nat /\ call.req \in Int
      /\ u \in Nat /\ u <= call.ret /\ u <= call.need /\ avail[r] \in Int
      /\ BusyBelow(r, p) /\ Base[r] + p >= IsaEnd
      /\ call.ret > 0 /\ call.ret <= avail[r] /\ p + call.ret <= Total[r]
      /\ p .. p + u - 1 \subseteq Free(r) /\ Total[r] \in Nat /\ Base[r] \in Nat
  BY CallbackFacts, RangeFacts
<1> HIDE DEF u, S
<1>2. /\ call' \in CallType /\ call'.pc = "mark" /\ call'.r = r /\ call'.pos = p /\ call'.left = u
      /\ call'.ret = u /\ call'.start = p
  <2>1. call.need - u \in Nat /\ call.req - u \in Int BY <1>1
  <2>2. call' \in CallType BY <1>0, <1>1, <2>1, CallbackType
  <2> QED BY <1>0, <1>1, <2>2 DEF CallType
<1> HIDE DEF p, r
<1>3. p + u <= Total[r] BY <1>1
<1>4. \A a \in S : a \in Addresses /\ owned[a] = 0 /\ a >= IsaEnd
                   /\ \E q \in p .. p + u - 1 : a = Base[r] + q /\ q \in Span(r)
  BY <1>1, <1>3, FreeRun DEF S
<1>5. owned' \in [Addresses -> {0, 1}] /\ Held' = Held \cup S BY <1>0, <1>4, Handed
<1>6. Typed'
  <2>1. next' \in [Ranges -> Nat] BY <1>0, <1>1 DEF PInv, Typed
  <2> QED BY <1>0, <1>1, <1>2, <1>5, <2>1 DEF PInv, Typed
<1>7. MarkedInv'
  <2>1. \A s \in Ranges : Total[s] \in bmp'[s] BY <1>0 DEF PInv, MarkedInv
  <2>2. \A a \in Held' : a >= IsaEnd /\ \E s \in Ranges : \E q \in Span(s) : a = Base[s] + q
    BY <1>1, <1>4, <1>5 DEF PInv, MarkedInv
  <2>3. ASSUME NEW s \in Ranges, NEW q \in Span(s), Base[s] + q \in Held'
        PROVE  q \in bmp'[s] \cup Moving(s)'
    <3>1. CASE Base[s] + q \in Held
      <4>1. Moving(s) = {} BY <1>1 DEF Moving
      <4> QED BY <1>0, <3>1, <4>1 DEF PInv, MarkedInv
    <3>2. CASE Base[s] + q \in S
      <4>1. PICK k \in p .. p + u - 1 : Base[s] + q = Base[r] + k /\ k \in Span(r) BY <1>4, <3>2
      <4>2. q \in 0 .. Total[s] + Track[s] - 1 /\ k \in 0 .. Total[r] + Track[r] - 1
        BY <1>1, <4>1, RangeFacts DEF Span
      <4>3. s = r /\ q = k BY <1>1, <4>1, <4>2, OneRange
      <4>4. Moving(s)' = p .. p + u - 1 BY <1>2, <4>3 DEF Moving
      <4> QED BY <4>3, <4>4
    <3> QED BY <1>5, <2>3, <3>1, <3>2
  <2> QED BY <2>1, <2>2, <2>3 DEF MarkedInv
<1>8. HintInv'
  <2>1. next \in [Ranges -> Nat] BY DEF PInv, Typed
  <2>2. \A s \in Ranges : s # r => next'[s] = next[s] BY <1>0, <2>1
  <2>3. \A s \in Ranges : s # r => BusyBelow(s, next[s]) BY <1>1, Hinted
  <2> QED BY <1>0, <1>2, <2>2, <2>3 DEF HintInv, BusyBelow
<1>9. MarkInv'
  <2>2. ASSUME u > 0 PROVE HeadBusy(r, p)
    <3>1. p <= Total[r] BY <1>1
    <3> QED BY <1>1, <3>1, BehindBusy
  <2>3. \A s \in Ranges : Free(s)' = Free(s) BY <1>0 DEF Free
  <2>4. u <= avail'[r] /\ p + u <= Total[r] BY <1>0, <1>1
  <2> QED BY <1>0, <1>1, <1>2, <2>2, <2>3, <2>4 DEF MarkInv, BusyBelow, HeadBusy
<1>10. LookInv' /\ ClearInv' BY <1>2 DEF LookInv, ClearInv
<1> QED BY <1>6, <1>7, <1>8, <1>9, <1>10 DEF PInv
-------------------------------------------------------------------------------
(* Marking.                                                                *)
LEMMA Marks ==
  ASSUME PInv, Marking
  PROVE  /\ call.pc = "mark" /\ call \in CallType /\ call.r \in Ranges /\ ~early
         /\ call.pos \in Nat /\ call.left \in Nat /\ call.start \in Nat /\ call.ret \in Nat
         /\ avail[call.r] \in Int
         /\ MarkFrames \in Nat /\ MarkFrames > 0 /\ MarkFrames <= call.left
         /\ BusyBelow(call.r, call.pos) /\ Base[call.r] + call.pos >= IsaEnd
         /\ call.start + call.ret = call.pos + call.left
         /\ call.left <= avail[call.r] /\ call.pos + call.left <= Total[call.r]
         /\ call.pos .. call.pos + call.left - 1 \subseteq Free(call.r)
         /\ HeadBusy(call.r, call.pos)
<1>1. /\ call.pc = "mark" /\ call \in CallType /\ call.r \in Ranges /\ ~early /\ call.left > 0
      /\ call.pos \in Nat /\ call.left \in Nat /\ call.start \in Nat /\ call.ret \in Nat
      /\ avail[call.r] \in Int /\ avail[call.r] > 0
  BY DEF PInv, Typed, CallType, Marking
<1>2. call.pos % Item \in 0 .. Item - 1 BY <1>1, DivMod
<1>3. MarkFrames \in Nat /\ MarkFrames > 0 /\ MarkFrames <= call.left
  BY <1>1, <1>2 DEF MarkFrames, Least
<1> QED BY <1>1, <1>3 DEF PInv, MarkInv

LEMMA MovesOn ==
  ASSUME NEW c \in CallType, NEW p \in Nat, NEW n \in Nat
  PROVE  [c EXCEPT !.pos = p, !.left = n] \in CallType
BY DEF CallType

(* A pass marks m frames from its position on.                             *)
LEMMA MarkPass ==
  ASSUME PInv, Marking, NEW m \in Nat, m = MarkFrames,
         bmp' = [bmp EXCEPT ![call.r] = @ \cup (call.pos .. call.pos + m - 1)],
         avail' = [avail EXCEPT ![call.r] = @ - m],
         call' = [call EXCEPT !.pos = call.pos + m, !.left = call.left - m],
         UNCHANGED <<early, next, owned>>
  PROVE  PInv'
<1> DEFINE r == call.r  p == call.pos  k == call.left
<1>1. /\ call.pc = "mark" /\ call \in CallType /\ r \in Ranges /\ ~early
      /\ p \in Nat /\ k \in Nat /\ call.start \in Nat /\ call.ret \in Nat
      /\ avail[r] \in Int /\ m > 0 /\ m <= k
      /\ BusyBelow(r, p) /\ Base[r] + p >= IsaEnd
      /\ call.start + call.ret = p + k /\ k <= avail[r] /\ p + k <= Total[r]
      /\ p .. p + k - 1 \subseteq Free(r) /\ Total[r] \in Nat /\ Base[r] \in Nat
  BY Marks, RangeFacts
<1>2. /\ call' \in CallType /\ call'.pc = "mark" /\ call'.r = r /\ call'.pos = p + m
      /\ call'.left = k - m /\ call'.ret = call.ret /\ call'.start = call.start
  <2>1. p + m \in Nat /\ k - m \in Nat BY <1>1
  <2>2. call' \in CallType BY <1>1, <2>1, MovesOn
  <2> QED BY <1>1, <2>2 DEF CallType
<1>3. /\ bmp \in [Ranges -> SUBSET Nat] /\ avail \in [Ranges -> Int] /\ p .. p + m - 1 \subseteq Nat
  BY <1>1 DEF PInv, Typed
<1> DEFINE B == p .. p + m - 1
<1>4. /\ \A s \in Ranges : bmp'[s] = IF s = r THEN bmp[r] \cup B ELSE bmp[s]
      /\ avail'[r] = avail[r] - m
  BY <1>1, <1>3
<1>5. Typed'
  <2>1. bmp' \in [Ranges -> SUBSET Nat] BY <1>1, <1>3
  <2>2. avail' \in [Ranges -> Int] BY <1>1, <1>3
  <2> QED BY <1>1, <1>2, <2>1, <2>2 DEF PInv, Typed
<1> HIDE DEF r, p, k, B
<1>6. MarkedInv'
  <2>1. \A s \in Ranges : Total[s] \in bmp'[s] BY <1>4 DEF PInv, MarkedInv
  <2>2. Held' = Held BY DEF Held
  <2>3. ASSUME NEW s \in Ranges, NEW q \in Span(s), Base[s] + q \in Held
        PROVE  q \in bmp'[s] \cup Moving(s)'
    <3>1. q \in bmp[s] \cup Moving(s) BY <2>3 DEF PInv, MarkedInv
    <3>2. CASE s # r
      <4>1. Moving(s) = {} BY <3>2 DEF Moving, r
      <4> QED BY <1>4, <3>1, <3>2, <4>1
    <3>3. CASE s = r
      <4>1. Moving(s) = p .. p + k - 1 BY <1>1, <3>3 DEF Moving, r, p, k
      <4>2. Moving(s)' = p + m .. (p + m) + (k - m) - 1 BY <1>2, <3>3 DEF Moving
      <4>3. CASE q \in bmp[r] BY <1>4, <3>3, <4>3
      <4>4. CASE q \in p .. p + k - 1
        <5>1. q \in B \/ q \in p + m .. (p + m) + (k - m) - 1 BY <1>1, <4>4 DEF B
        <5>2. bmp'[s] = bmp[r] \cup B BY <1>4, <3>3
        <5> HIDE DEF Moving
        <5> QED BY <4>2, <5>1, <5>2
      <4> QED BY <3>1, <3>3, <4>1, <4>3, <4>4
    <3> QED BY <3>2, <3>3
  <2> QED BY <2>1, <2>2, <2>3 DEF PInv, MarkedInv
<1>7. HintInv'
  <2>1. \A s \in Ranges : s # r => BusyBelow(s, next[s]) BY <1>1 DEF PInv, HintInv, r
  <2> QED BY <1>2, <1>4, <2>1 DEF HintInv, BusyBelow
<1>8. \A q \in Span(r) : q < p + m /\ Base[r] + q >= IsaEnd => q \in bmp'[r]
  <2> SUFFICES ASSUME NEW q \in Span(r), q < p + m, Base[r] + q >= IsaEnd PROVE q \in bmp'[r]
    OBVIOUS
  <2>1. CASE q < p BY <1>1, <1>4, <2>1 DEF BusyBelow
  <2>2. CASE ~(q < p)
    <3>1. q \in B BY <1>1, <2>2 DEF B, Span
    <3> QED BY <1>1, <1>4, <3>1
  <2> QED BY <2>1, <2>2
<1>9. MarkInv'
  <2>1. p + m <= Total[r] /\ Base[r] + (p + m) >= IsaEnd /\ p + m \in Nat BY <1>1
  <2>2. (p + m) % Item # 0 => WordOf(p + m) \in bmp'[r] BY <1>1, <1>8, <2>1, BehindMarked
  <2>3. \A q \in p + m .. (p + m) + (k - m) - 1 : q \in 0 .. Total[r] - 1 /\ q \notin bmp'[r]
    <3> SUFFICES ASSUME NEW q \in p + m .. (p + m) + (k - m) - 1
                 PROVE  q \in 0 .. Total[r] - 1 /\ q \notin bmp'[r]
      OBVIOUS
    <3>1. q \in p .. p + k - 1 /\ q \notin B BY <1>1 DEF B
    <3>2. q \in 0 .. Total[r] - 1 /\ q \notin bmp[r] BY <1>1, <3>1 DEF Free
    <3> QED BY <1>1, <1>4, <3>1, <3>2
  <2>4. call.start + call.ret = (p + m) + (k - m) /\ k - m <= avail'[r]
        /\ (p + m) + (k - m) <= Total[r]
    BY <1>1, <1>4
  <2> QED BY <1>2, <1>8, <2>1, <2>2, <2>3, <2>4 DEF MarkInv, BusyBelow, HeadBusy, Free
<1>10. LookInv' /\ ClearInv' BY <1>2 DEF LookInv, ClearInv
<1> QED BY <1>5, <1>6, <1>7, <1>9, <1>10 DEF PInv

LEMMA RunSize ==
  ASSUME NEW p \in Nat, NEW m \in Nat
  PROVE  IsFiniteSet(p .. p + m - 1) /\ Cardinality(p .. p + m - 1) = m
<1>1. p \in Int /\ p + m - 1 \in Int OBVIOUS
<1>2. Cardinality(p .. p + m - 1) = IF p > p + m - 1 THEN 0 ELSE (p + m - 1) - p + 1
  BY <1>1, FS_Interval
<1> QED BY <1>1, <1>2, FS_Interval

LEMMA MarkPassExact ==
  ASSUME PInv, EInv, Marking, NEW m \in Nat, m = MarkFrames,
         bmp' = [bmp EXCEPT ![call.r] = @ \cup (call.pos .. call.pos + m - 1)],
         avail' = [avail EXCEPT ![call.r] = @ - m],
         call' = [call EXCEPT !.pos = call.pos + m, !.left = call.left - m],
         UNCHANGED <<early, next, owned>>
  PROVE  EInv'
<1>0. PICK r \in Ranges : r = call.r BY Marks
<1> DEFINE p == call.pos  k == call.left  B == p .. p + m - 1
<1>1. /\ call.pc = "mark" /\ call \in CallType /\ r \in Ranges
      /\ p \in Nat /\ k \in Nat /\ m > 0 /\ m <= k /\ k <= avail[r] /\ p + k <= Total[r]
      /\ p .. p + k - 1 \subseteq Free(r) /\ Total[r] \in Nat /\ Track[r] \in Nat /\ call.req \in Int
  BY <1>0, Marks, RangeFacts DEF CallType
<1>2. /\ call'.pc = "mark" /\ call'.r = r /\ call'.pos = p + m /\ call'.left = k - m
      /\ call'.req = call.req
  BY <1>0, <1>1 DEF CallType
<1>3. bmp \in [Ranges -> SUBSET Nat] /\ avail \in [Ranges -> Int] BY DEF PInv, Typed
<1>4. /\ \A s \in Ranges : bmp'[s] = IF s = r THEN bmp[r] \cup B ELSE bmp[s]
      /\ \A s \in Ranges : avail'[s] = IF s = r THEN avail[r] - m ELSE avail[s]
  BY <1>0, <1>1, <1>3
<1>5. /\ Moving(r) = p .. p + k - 1 /\ Moving(r)' = p + m .. (p + m) + (k - m) - 1
      /\ \A s \in Ranges : s # r => Moving(s)' = {}
      /\ \A s \in Ranges : Returning(s) = {} /\ Returning(s)' = {}
  BY <1>0, <1>1, <1>2 DEF Moving, Returning
<1>6. Held' = Held BY DEF Held
<1>7. B \subseteq Moving(r) /\ Moving(r)' \subseteq Moving(r) /\ B \subseteq Free(r)
  <2>1. /\ B \subseteq p .. p + k - 1
        /\ p + m .. (p + m) + (k - m) - 1 \subseteq p .. p + k - 1
    BY <1>1
  <2> HIDE DEF p, k, B
  <2> QED BY <1>1, <1>5, <2>1
<1> HIDE DEF p, k, B
<1>8. SetInv'
  <2>1. ASSUME NEW s \in Ranges
        PROVE  /\ Marked(s) \cup Tracking(s) \subseteq bmp'[s]
               /\ bmp'[s] \subseteq 0 .. Total[s] + Track[s] - 1
    <3>1. B \subseteq 0 .. Total[r] + Track[r] - 1 BY <1>1, <1>7 DEF Free
    <3> QED BY <1>4, <3>1 DEF EInv, SetInv
  <2>2. ASSUME NEW s \in Ranges, NEW q \in Span(s) \cap bmp'[s] PROVE Base[s] + q \in Held \cup Kernel
    <3>1. CASE q \in bmp[s] BY <1>5, <3>1 DEF EInv, SetInv
    <3>2. CASE s = r /\ q \in B BY <1>1, <1>7, <3>2 DEF EInv, SetInv
    <3> QED BY <1>4, <2>2, <3>1, <3>2
  <2>3. ASSUME NEW s \in Ranges, NEW q \in Moving(s)' PROVE Base[s] + q \in Held
    BY <1>1, <1>5, <1>7, <2>3 DEF EInv, SetInv
  <2>4. Held \cap Kernel = {} BY DEF EInv, SetInv
  <2> QED BY <1>5, <1>6, <2>1, <2>2, <2>3, <2>4 DEF SetInv
<1>9. CountInv'
  <2>1. Free(r)' = Free(r) \ B BY <1>1, <1>4 DEF Free
  <2>2. Cardinality(B) = m BY <1>1, RunSize DEF B
  <2>3. Cardinality(Free(r)') = Cardinality(Free(r)) - m BY <1>1, <1>7, <2>1, <2>2, Without
  <2>4. \A s \in Ranges : s # r => Free(s)' = Free(s) BY <1>4 DEF Free
  <2>5. avail[r] \in Nat /\ avail[r] + Track[r] = Cardinality(Free(r)) BY <1>1 DEF EInv, CountInv
  <2>6. avail'[r] = avail[r] - m BY <1>1, <1>4
  <2>7. avail'[r] \in Nat /\ avail'[r] + Track[r] = Cardinality(Free(r)') BY <1>1, <2>3, <2>5, <2>6
  <2> QED BY <1>4, <2>4, <2>7 DEF EInv, CountInv
<1>10. SearchInv'
  <2>1. \A s \in Ranges : s # r => (Spent(s)' <=> Spent(s))
    BY <1>4 DEF Spent, Allocatable, Free, Usable
  <2>2. r \in Nat BY <1>1 DEF Ranges
  <2>3. \A s \in Ranges : s < r => Spent(s)' BY <1>0, <1>1, <2>1, <2>2 DEF EInv, SearchInv
  <2> QED BY <1>0, <1>1, <1>2, <2>3 DEF EInv, SearchInv
<1>11. HintInRange' BY DEF EInv, HintInRange
<1> QED BY <1>8, <1>9, <1>10, <1>11 DEF EInv

LEMMA MarkFastKeeps ==
  ASSUME PInv, MarkFast
  PROVE  PInv' /\ (EInv => EInv')
<1> DEFINE r == call.r  p == call.pos  m == MarkFrames
<1>0. /\ Marking /\ Mask(p, m) \cap bmp[r] = {} /\ UNCHANGED <<early, next, owned>>
      /\ bmp' = [bmp EXCEPT ![r] = @ \cup Mask(p, m)] /\ avail' = [avail EXCEPT ![r] = @ - m]
      /\ call' = [call EXCEPT !.pos = p + m, !.left = call.left - m]
  BY DEF MarkFast
<1>1. p \in Nat /\ m \in Nat /\ m > 0 /\ HeadBusy(r, p) BY <1>0, Marks
<1> HIDE DEF m
<1>2. p % Item = 0
  <2> SUFFICES ASSUME p % Item # 0 PROVE FALSE OBVIOUS
  <2>1. WordOf(p) \in bmp[r] BY <1>1 DEF HeadBusy
  <2>2. WordOf(p) \in Mask(p, m) BY <1>1, MaskHead
  <2> QED BY <1>0, <2>1, <2>2
<1>3. Mask(p, m) = p .. p + m - 1 BY <1>1, <1>2, MaskAligned
<1>4. m = MarkFrames BY DEF m
<1> QED BY <1>0, <1>1, <1>3, <1>4, MarkPass, MarkPassExact

LEMMA MarkSlowKeeps ==
  ASSUME PInv, MarkSlow
  PROVE  PInv' /\ (EInv => EInv')
<1> DEFINE r == call.r  p == call.pos  m == MarkFrames  W == p .. p + m - 1
           clear == {q \in W : \A x \in p .. q : x \notin bmp[r]}
<1>0. /\ Marking /\ UNCHANGED <<early, next, owned>>
      /\ bmp' = [bmp EXCEPT ![r] = @ \cup clear]
      /\ avail' = [avail EXCEPT ![r] = @ - Cardinality(clear)]
      /\ call' = [call EXCEPT !.pos = p + Cardinality(clear), !.left = call.left - Cardinality(clear),
                              !.pc = IF clear = W THEN "mark" ELSE "halted"]
  BY DEF MarkSlow
<1>1. /\ p \in Nat /\ m \in Nat /\ m > 0 /\ m <= call.left /\ call.left \in Nat
      /\ p .. p + call.left - 1 \subseteq Free(r) /\ call \in CallType /\ call.pc = "mark"
  BY <1>0, Marks
<1>2. m = MarkFrames OBVIOUS
<1> HIDE DEF m
<1>3. W \subseteq Free(r)
  <2>1. W \subseteq p .. p + call.left - 1 BY <1>1
  <2> QED BY <1>1, <2>1
<1>4. clear = W
  <2> SUFFICES ASSUME NEW q \in W, NEW x \in p .. q PROVE x \notin bmp[r] OBVIOUS
  <2>1. x \in W BY <1>1
  <2> QED BY <1>3, <2>1 DEF Free
<1>5. Cardinality(clear) = m
  <2>1. p \in Int /\ p + m - 1 \in Int BY <1>1
  <2>2. Cardinality(p .. p + m - 1) = IF p > p + m - 1 THEN 0 ELSE (p + m - 1) - p + 1
    BY <2>1, FS_Interval
  <2> HIDE DEF clear
  <2> QED BY <1>1, <1>4, <2>2
<1> HIDE DEF clear
<1>6. call' = [call EXCEPT !.pos = p + m, !.left = call.left - m]
  <2>1. call' = [call EXCEPT !.pos = p + m, !.left = call.left - m, !.pc = "mark"]
    BY <1>0, <1>4, <1>5
  <2>2. call = [call EXCEPT !.pc = "mark"] BY <1>1 DEF CallType
  <2> QED BY <1>1, <2>1, <2>2 DEF CallType
<1> QED BY <1>0, <1>1, <1>2, <1>4, <1>5, <1>6, MarkPass, MarkPassExact

LEMMA MarkDoneKeeps ==
  ASSUME PInv, MarkDone
  PROVE  PInv'
<1> DEFINE r == call.r  p == call.pos
<1>1. /\ call.pc = "mark" /\ call \in CallType /\ r \in Ranges /\ ~early /\ r > 0
      /\ p \in Nat /\ call.left \in Nat /\ call.start \in Nat /\ call.ret \in Nat
      /\ avail[r] \in Int /\ next \in [Ranges -> Nat] /\ UNCHANGED <<early, bmp, avail, owned>>
  BY DEF PInv, Typed, CallType, MarkDone, Ranges
<1>2. /\ BusyBelow(r, p) /\ call.start + call.ret = p + call.left
      /\ call.left <= avail[r] /\ p + call.left <= Total[r] /\ Total[r] \in Nat
  BY <1>1, RangeFacts DEF PInv, MarkInv
<1>3. call.left = 0
  <2> SUFFICES ASSUME call.left > 0 PROVE FALSE BY <1>1
  <2>1. Marking BY <1>1, <1>2 DEF Marking
  <2> QED BY <2>1 DEF MarkDone
<1>4. next' = [next EXCEPT ![r] = p] BY <1>1, <1>2, <1>3 DEF MarkDone
<1>5. call' \in CallType /\ call'.pc \in {"idle", "range"} /\ (call'.pc = "range" => call'.r = r)
  <2>1. call' = Idle \/ call' = [call EXCEPT !.pc = "range"] BY <1>3 DEF MarkDone
  <2>2. CASE call' = Idle BY <2>2 DEF Idle, CallType
  <2>3. CASE call' = [call EXCEPT !.pc = "range"] BY <1>1, <2>3 DEF CallType
  <2> QED BY <2>1, <2>2, <2>3
<1> HIDE DEF p
<1>6. Typed' BY <1>1, <1>4, <1>5 DEF PInv, Typed
<1>7. MarkedInv'
  <2>1. \A s \in Ranges : Moving(s) = {} BY <1>1, <1>3 DEF Moving, p
  <2> QED BY <1>1, <2>1 DEF PInv, MarkedInv, Held
<1>8. HintInv'
  <2>1. \A s \in Ranges : next'[s] = IF s = r THEN p ELSE next[s] BY <1>1, <1>4
  <2>2. \A s \in Ranges : s # r => BusyBelow(s, next[s]) BY <1>1 DEF PInv, HintInv
  <2> QED BY <1>1, <1>2, <2>1, <2>2 DEF HintInv, BusyBelow
<1>9. LookInv' /\ MarkInv' /\ ClearInv' BY <1>5 DEF LookInv, MarkInv, ClearInv
<1> QED BY <1>6, <1>7, <1>8, <1>9 DEF PInv
-------------------------------------------------------------------------------
(* Freeing.                                                                *)
LEMMA FreeCallFacts ==
  ASSUME PInv, NEW r \in Ranges, NEW p \in 0 .. Total[r] - 1, NEW n \in 1 .. MaxNeed, FreeCall(r, p, n)
  PROVE  /\ p \in Nat /\ n \in Nat /\ n > 0 /\ p + n <= Total[r] /\ Total[r] \in Nat /\ Base[r] \in Nat
         /\ call.pc = "idle" /\ ~early
         /\ \A q \in p .. p + n - 1 :
              Base[r] + q \in Run(r, p, n) /\ Base[r] + q \in Held /\ q \in Span(r) /\ q \in bmp[r]
<1>1. /\ p \in Nat /\ n \in Nat /\ n > 0 /\ p < Total[r] /\ Total[r] \in Nat /\ Base[r] \in Nat
      /\ call.pc = "idle" /\ ~early /\ Run(r, p, n) \subseteq Held
  BY RangeFacts DEF FreeCall
<1>2. \A q \in p .. p + n - 1 : Base[r] + q \in Run(r, p, n) BY DEF Run
<1>3. p + n <= Total[r]
  <2> SUFFICES ASSUME ~(p + n <= Total[r]) PROVE FALSE OBVIOUS
  <2>1. Total[r] \in p .. p + n - 1 BY <1>1
  <2>2. Base[r] + Total[r] \in Held BY <1>1, <1>2, <2>1
  <2>3. PICK s \in Ranges : \E q \in Span(s) : Base[r] + Total[r] = Base[s] + q
    BY <2>2 DEF PInv, MarkedInv
  <2>7. PICK q \in Span(s) : Base[r] + Total[r] = Base[s] + q BY <2>3
  <2>4. Total[r] \in 0 .. Total[r] + Track[r] - 1 BY <1>1, RangeFacts
  <2>5. q \in 0 .. Total[s] + Track[s] - 1 BY RangeFacts DEF Span
  <2>6. s = r /\ q = Total[r] BY <2>7, <2>4, <2>5, OneRange
  <2> QED BY <1>1, <2>6 DEF Span
<1>4. \A q \in p .. p + n - 1 : Base[r] + q \in Held /\ q \in Span(r) BY <1>1, <1>2, <1>3 DEF Span
<1>5. Moving(r) = {} BY <1>1 DEF Moving
<1>6. \A q \in p .. p + n - 1 : q \in bmp[r] BY <1>4, <1>5 DEF PInv, MarkedInv
<1> QED BY <1>1, <1>2, <1>3, <1>4, <1>6

LEMMA FreeCallKeeps ==
  ASSUME PInv, NEW r \in Ranges, NEW p \in 0 .. Total[r] - 1, NEW n \in 1 .. MaxNeed, FreeCall(r, p, n)
  PROVE  PInv'
<1> DEFINE S == Run(r, p, n)
<1>0. /\ owned' = Owned(S, -1) /\ UNCHANGED <<early, bmp, avail, next>> /\ S \subseteq Held
      /\ call' = [Idle EXCEPT !.pc = "clear", !.kind = "free", !.r = r, !.pos = p, !.start = p, !.left = n]
  BY DEF FreeCall
<1>1. /\ p \in Nat /\ n \in Nat /\ n > 0 /\ p + n <= Total[r] /\ Total[r] \in Nat /\ Base[r] \in Nat
      /\ call.pc = "idle" /\ ~early
      /\ \A q \in p .. p + n - 1 :
           Base[r] + q \in S /\ Base[r] + q \in Held /\ q \in Span(r) /\ q \in bmp[r]
  BY FreeCallFacts
<1> HIDE DEF S
<1>2. /\ call' \in CallType /\ call'.pc = "clear" /\ call'.r = r /\ call'.pos = p /\ call'.start = p
      /\ call'.left = n
  <2>1. call' = [pc |-> "clear", kind |-> "free", need |-> 0, req |-> 0, r |-> r, pos |-> p,
                 start |-> p, ret |-> 0, left |-> n, again |-> FALSE, stop |-> FALSE]
    BY <1>0 DEF Idle
  <2>2. r \in Nat BY DEF Ranges
  <2> QED BY <1>1, <2>1, <2>2 DEF CallType
<1>3. owned' \in [Addresses -> {0, 1}] /\ Held' = Held \ S BY <1>0, Returned
<1>4. Typed' BY <1>0, <1>1, <1>2, <1>3 DEF PInv, Typed
<1>5. MarkedInv'
  <2>1. \A s \in Ranges : Moving(s) = {} BY <1>1 DEF Moving
  <2>2. Held' \subseteq Held BY <1>3
  <2> QED BY <1>0, <2>1, <2>2 DEF PInv, MarkedInv
<1>6. HintInv'
  <2>1. \A s \in Ranges : BusyBelow(s, next[s]) BY <1>1, Hinted
  <2> QED BY <1>0, <2>1 DEF HintInv, BusyBelow
<1>7. ClearInv'
  <2>1. BusyBelow(r, Least(next[r], p))
    <3>1. BusyBelow(r, next[r]) /\ next[r] \in Nat BY <1>1, Hinted DEF PInv, Typed
    <3>2. Least(next[r], p) \in Nat /\ Least(next[r], p) <= next[r] BY <1>1, <3>1 DEF Least
    <3> QED BY <3>1, <3>2 DEF BusyBelow, Span
  <2>2. \A q \in p .. p + n - 1 : q \in bmp[r] /\ Base[r] + q \notin Held' BY <1>1, <1>3
  <2> QED BY <1>0, <1>1, <1>2, <2>1, <2>2 DEF ClearInv, BusyBelow
<1>8. LookInv' /\ MarkInv' BY <1>2 DEF LookInv, MarkInv
<1> QED BY <1>4, <1>5, <1>6, <1>7, <1>8 DEF PInv

LEMMA Clears ==
  ASSUME PInv, Clearing
  PROVE  /\ call.pc = "clear" /\ call \in CallType /\ call.r \in Ranges /\ ~early /\ ~call.stop
         /\ call.pos \in Nat /\ call.left \in Nat /\ call.start \in Nat /\ call.start <= call.pos
         /\ avail[call.r] \in Int
         /\ ClearFrames \in Nat /\ ClearFrames > 0 /\ ClearFrames <= call.left
         /\ ClearFrames <= Item - (call.pos % Item)
         /\ call.pos + call.left <= Total[call.r]
         /\ \A q \in call.pos .. call.pos + call.left - 1 :
              q \in bmp[call.r] /\ Base[call.r] + q \notin Held
<1>1. /\ call.pc = "clear" /\ call \in CallType /\ call.r \in Ranges /\ ~early /\ call.left > 0
      /\ call.pos \in Nat /\ call.left \in Nat /\ call.start \in Nat /\ ~call.stop
      /\ avail[call.r] \in Int /\ avail[call.r] < Total[call.r] /\ Total[call.r] \in Nat
  BY RangeFacts DEF PInv, Typed, CallType, Clearing
<1>2. call.pos % Item \in 0 .. Item - 1 BY <1>1, DivMod
<1>3. ClearFrames \in Nat /\ ClearFrames > 0 /\ ClearFrames <= call.left
      /\ ClearFrames <= Item - (call.pos % Item)
  BY <1>1, <1>2 DEF ClearFrames, Least
<1> QED BY <1>1, <1>3 DEF PInv, ClearInv

LEMMA ClearPass ==
  ASSUME PInv, Clearing, NEW m \in Nat, m = ClearFrames,
         bmp' = [bmp EXCEPT ![call.r] = @ \ (call.pos .. call.pos + m - 1)],
         avail' = [avail EXCEPT ![call.r] = @ + m],
         call' = [call EXCEPT !.pos = call.pos + m, !.left = call.left - m],
         UNCHANGED <<early, next, owned>>
  PROVE  PInv'
<1> DEFINE r == call.r  p == call.pos  k == call.left  B == p .. p + m - 1
<1>1. /\ call.pc = "clear" /\ call \in CallType /\ r \in Ranges /\ ~early
      /\ p \in Nat /\ k \in Nat /\ call.start \in Nat /\ call.start <= p
      /\ avail[r] \in Int /\ m > 0 /\ m <= k /\ p + k <= Total[r]
      /\ \A q \in p .. p + k - 1 : q \in bmp[r] /\ Base[r] + q \notin Held
      /\ BusyBelow(r, Least(next[r], call.start)) /\ next[r] \in Nat
      /\ Total[r] \in Nat /\ Base[r] \in Nat
  <2>1. BusyBelow(r, Least(next[r], call.start)) /\ next[r] \in Nat
    BY Clears DEF PInv, ClearInv, Typed
  <2> QED BY <2>1, Clears, RangeFacts
<1>2. /\ call' \in CallType /\ call'.pc = "clear" /\ call'.r = r /\ call'.pos = p + m
      /\ call'.left = k - m /\ call'.start = call.start
  <2>1. p + m \in Nat /\ k - m \in Nat BY <1>1
  <2>2. call' \in CallType BY <1>1, <2>1, MovesOn
  <2> QED BY <1>1, <2>2 DEF CallType
<1>3. bmp \in [Ranges -> SUBSET Nat] /\ avail \in [Ranges -> Int] BY DEF PInv, Typed
<1>4. \A s \in Ranges : bmp'[s] = IF s = r THEN bmp[r] \ B ELSE bmp[s] BY <1>1, <1>3
<1>5. Typed'
  <2>1. bmp' \in [Ranges -> SUBSET Nat] BY <1>1, <1>3
  <2>2. avail' \in [Ranges -> Int] BY <1>1, <1>3
  <2> QED BY <1>1, <1>2, <2>1, <2>2 DEF PInv, Typed
<1>6. B \subseteq p .. p + k - 1 /\ Total[r] \notin B BY <1>1
<1>11. \A s \in Ranges : \A q : q \in bmp'[s] <=> q \in bmp[s] /\ ~(s = r /\ q \in B)
  <2> HIDE DEF B
  <2> QED BY <1>4
<1> HIDE DEF r, p, k, B
<1>7. MarkedInv'
  <2>1. \A s \in Ranges : Total[s] \in bmp'[s] BY <1>11, <1>6 DEF PInv, MarkedInv
  <2>2. Held' = Held BY DEF Held
  <2>3. ASSUME NEW s \in Ranges, NEW q \in Span(s), Base[s] + q \in Held PROVE q \in bmp'[s]
    <3>1. Moving(s) = {} BY <1>1 DEF Moving
    <3>2. q \in bmp[s] BY <2>3, <3>1 DEF PInv, MarkedInv
    <3>3. s = r => q \notin B BY <1>1, <1>6, <2>3
    <3> QED BY <1>11, <3>2, <3>3
  <2> QED BY <2>1, <2>2, <2>3 DEF PInv, MarkedInv
<1>8. HintInv'
  <2>1. \A s \in Ranges : s # r => BusyBelow(s, next[s]) BY <1>1 DEF PInv, HintInv, r
  <2> QED BY <1>2, <1>4, <2>1 DEF HintInv, BusyBelow
<1>9. ClearInv'
  <2>1. \A q \in Span(r) : q < Least(next[r], call.start) /\ Base[r] + q >= IsaEnd => q \in bmp'[r]
    <3> SUFFICES ASSUME NEW q \in Span(r), q < Least(next[r], call.start), Base[r] + q >= IsaEnd
                 PROVE  q \in bmp'[r]
      OBVIOUS
    <3>1. q \in bmp[r] BY <1>1 DEF BusyBelow
    <3>2. q < p BY <1>1 DEF Least, Span
    <3>3. q \notin B BY <1>1, <3>2 DEF B, Span
    <3> QED BY <1>1, <1>11, <3>1, <3>3
  <2>2. ASSUME NEW q \in p + m .. (p + m) + (k - m) - 1 PROVE q \in bmp'[r] /\ Base[r] + q \notin Held
    <3>1. q \in p .. p + k - 1 /\ q \notin B BY <1>1 DEF B
    <3> QED BY <1>1, <1>11, <3>1
  <2>3. call.start <= p + m /\ (p + m) + (k - m) <= Total[r] BY <1>1
  <2>4. Held' = Held BY DEF Held
  <2> QED BY <1>2, <2>1, <2>2, <2>3, <2>4 DEF ClearInv, BusyBelow
<1>10. LookInv' /\ MarkInv' BY <1>2 DEF LookInv, MarkInv
<1> QED BY <1>5, <1>7, <1>8, <1>9, <1>10 DEF PInv

LEMMA ClearPassExact ==
  ASSUME PInv, EInv, Clearing, NEW m \in Nat, m = ClearFrames,
         bmp' = [bmp EXCEPT ![call.r] = @ \ (call.pos .. call.pos + m - 1)],
         avail' = [avail EXCEPT ![call.r] = @ + m],
         call' = [call EXCEPT !.pos = call.pos + m, !.left = call.left - m],
         UNCHANGED <<early, next, owned>>
  PROVE  EInv'
<1>0. PICK r \in Ranges : r = call.r BY Clears
<1> DEFINE p == call.pos  k == call.left  B == p .. p + m - 1
<1>1. /\ call.pc = "clear" /\ call \in CallType /\ r \in Ranges
      /\ p \in Nat /\ k \in Nat /\ m > 0 /\ m <= k /\ p + k <= Total[r]
      /\ \A q \in p .. p + k - 1 : q \in bmp[r]
      /\ Total[r] \in Nat /\ Track[r] \in Nat
  BY <1>0, Clears, RangeFacts
<1>2. call'.pc = "clear" /\ call'.r = r /\ call'.pos = p + m /\ call'.left = k - m /\ ~call'.stop
  BY <1>0, <1>1 DEF CallType, Clearing
<1>3. bmp \in [Ranges -> SUBSET Nat] /\ avail \in [Ranges -> Int] BY DEF PInv, Typed
<1>4. /\ \A s \in Ranges : bmp'[s] = IF s = r THEN bmp[r] \ B ELSE bmp[s]
      /\ \A s \in Ranges : avail'[s] = IF s = r THEN avail[r] + m ELSE avail[s]
  BY <1>0, <1>1, <1>3
<1>5. /\ Returning(r) = p .. p + k - 1 /\ Returning(r)' = p + m .. (p + m) + (k - m) - 1
      /\ \A s \in Ranges : s # r => Returning(s) = {} /\ Returning(s)' = {}
      /\ \A s \in Ranges : Moving(s)' = {}
  BY <1>0, <1>1, <1>2 DEF Moving, Returning
<1>6. Held' = Held BY DEF Held
<1>7. /\ B \subseteq Returning(r) /\ Returning(r)' \subseteq Returning(r)
      /\ Returning(r) \subseteq B \cup Returning(r)' /\ B \subseteq bmp[r]
      /\ B \subseteq 0 .. Total[r] - 1
  <2>1. /\ B \subseteq p .. p + k - 1
        /\ p + m .. (p + m) + (k - m) - 1 \subseteq p .. p + k - 1
        /\ p .. p + k - 1 \subseteq B \cup (p + m .. (p + m) + (k - m) - 1)
        /\ B \subseteq 0 .. Total[r] - 1
    BY <1>1
  <2> HIDE DEF p, k, B
  <2> QED BY <1>1, <1>5, <2>1
<1> HIDE DEF p, k, B
<1>8. SetInv'
  <2>1. ASSUME NEW s \in Ranges
        PROVE  /\ Marked(s) \cup Tracking(s) \subseteq bmp'[s]
               /\ bmp'[s] \subseteq 0 .. Total[s] + Track[s] - 1
    <3>1. Marked(s) \cup Tracking(s) \subseteq bmp[s] /\ bmp[s] \subseteq 0 .. Total[s] + Track[s] - 1
      BY DEF EInv, SetInv
    <3>2. \A q \in B : q \notin Marked(r) BY <1>1, <1>7 DEF EInv, SetInv, Marked
    <3>3. \A q \in B : q \notin Tracking(r) BY <1>1, <1>7 DEF Tracking
    <3> QED BY <1>4, <3>1, <3>2, <3>3
  <2>2. ASSUME NEW s \in Ranges, NEW q \in Span(s) \cap bmp'[s]
        PROVE  Base[s] + q \in Held \cup Kernel \/ q \in Returning(s)'
    <3>1. q \in bmp[s] /\ (s = r => q \notin B) BY <1>4, <2>2
    <3>2. Base[s] + q \in Held \cup Kernel \/ q \in Returning(s) BY <3>1 DEF EInv, SetInv
    <3> QED BY <1>5, <1>7, <3>1, <3>2
  <2>3. ASSUME NEW s \in Ranges, NEW q \in Returning(s)' PROVE Base[s] + q \notin Kernel
    BY <1>1, <1>5, <1>7, <2>3 DEF EInv, SetInv
  <2>4. Held \cap Kernel = {} BY DEF EInv, SetInv
  <2> QED BY <1>5, <1>6, <2>1, <2>2, <2>3, <2>4 DEF SetInv
<1>9. CountInv'
  <2>1. Free(r)' = Free(r) \cup B /\ Free(r) \cap B = {}
    <3>1. bmp'[r] = bmp[r] \ B BY <1>4
    <3> QED BY <1>7, <3>1 DEF Free
  <2>2. Cardinality(B) = m /\ IsFiniteSet(B) BY <1>1, RunSize DEF B
  <2>3. Cardinality(Free(r)') = Cardinality(Free(r)) + m
    <3>1. IsFiniteSet(Free(r)) /\ Cardinality(Free(r)) \in Nat BY <1>1, FreeSize
    <3>2. Cardinality(Free(r) \cup B) = Cardinality(Free(r)) + Cardinality(B) - Cardinality(Free(r) \cap B)
      BY <2>2, <3>1, FS_Union
    <3>3. Cardinality(Free(r) \cap B) = 0 BY <2>1, FS_EmptySet
    <3>4. Cardinality(Free(r) \cup B) = Cardinality(Free(r)) + m BY <1>1, <2>2, <3>1, <3>2, <3>3
    <3> QED BY <2>1, <3>4
  <2>4. \A s \in Ranges : s # r => Free(s)' = Free(s) BY <1>4 DEF Free
  <2>5. avail[r] \in Nat /\ avail[r] + Track[r] = Cardinality(Free(r)) BY <1>1 DEF EInv, CountInv
  <2>6. avail'[r] = avail[r] + m BY <1>1, <1>4
  <2>7. avail'[r] \in Nat /\ avail'[r] + Track[r] = Cardinality(Free(r)') BY <1>1, <2>3, <2>5, <2>6
  <2> QED BY <1>4, <2>4, <2>7 DEF EInv, CountInv
<1>10. SearchInv' BY <1>2 DEF SearchInv
<1>11. HintInRange' BY DEF EInv, HintInRange
<1> QED BY <1>8, <1>9, <1>10, <1>11 DEF EInv

(* Who clears a word at once is at its beginning.                          *)
LEMMA ClearFastKeeps ==
  ASSUME PInv, ClearFast
  PROVE  PInv' /\ (EInv => EInv')
<1> DEFINE r == call.r  p == call.pos  m == ClearFrames
<1>0. /\ Clearing /\ Word(p) \cap bmp[r] \subseteq Mask(p, m) /\ UNCHANGED <<early, next, owned>>
      /\ bmp' = [bmp EXCEPT ![r] = @ \ Mask(p, m)] /\ avail' = [avail EXCEPT ![r] = @ + m]
      /\ call' = [call EXCEPT !.pos = p + m, !.left = call.left - m]
  BY DEF ClearFast, ClearAtOnce
<1>1. /\ p \in Nat /\ m \in Nat /\ m > 0 /\ m <= call.left /\ m <= Item - (p % Item)
      /\ \A q \in p .. p + call.left - 1 : q \in bmp[r]
      /\ call.left \in Nat
  BY <1>0, Clears
<1>2. m = ClearFrames OBVIOUS
<1> HIDE DEF m
<1>3. p % Item = 0
  <2>1. p = WordOf(p) + (p % Item) /\ WordOf(p) \in Nat /\ p % Item \in Nat BY <1>1, DivMod
  <2> DEFINE last == p + m - 1
  <2>2. last \in bmp[r] BY <1>1
  <2>3. last \in WordOf(p) .. WordOf(p) + Item - 1 BY <1>1, <2>1
  <2>4. last \in WordOf(p) .. WordOf(p) + m - 1 BY <1>0, <2>2, <2>3 DEF Word, Mask, WordOf
  <2> QED BY <1>1, <2>1, <2>4
<1>4. Mask(p, m) = p .. p + m - 1 BY <1>1, <1>3, MaskAligned
<1> QED BY <1>0, <1>1, <1>2, <1>4, ClearPass, ClearPassExact

LEMMA ClearSlowKeeps ==
  ASSUME PInv, ClearSlow
  PROVE  PInv' /\ (EInv => EInv')
<1> DEFINE r == call.r  p == call.pos  m == ClearFrames  W == p .. p + m - 1
           set == {q \in W : \A x \in p .. q : x \in bmp[r]}
<1>0. /\ Clearing /\ UNCHANGED <<early, next, owned>>
      /\ bmp' = [bmp EXCEPT ![r] = @ \ set]
      /\ avail' = [avail EXCEPT ![r] = @ + Cardinality(set)]
      /\ call' = [call EXCEPT !.pos = p + Cardinality(set), !.left = call.left - Cardinality(set),
                              !.stop = (set # W)]
  BY DEF ClearSlow
<1>1. /\ p \in Nat /\ m \in Nat /\ m > 0 /\ m <= call.left /\ call.left \in Nat
      /\ \A q \in p .. p + call.left - 1 : q \in bmp[r]
      /\ call \in CallType /\ ~call.stop
  BY <1>0, Clears
<1>2. m = ClearFrames OBVIOUS
<1> HIDE DEF m
<1>3. set = W
  <2> SUFFICES ASSUME NEW q \in W, NEW x \in p .. q PROVE x \in bmp[r] OBVIOUS
  <2>1. x \in p .. p + call.left - 1 BY <1>1
  <2> QED BY <1>1, <2>1
<1>4. Cardinality(set) = m
  <2>1. p \in Int /\ p + m - 1 \in Int BY <1>1
  <2>2. Cardinality(p .. p + m - 1) = IF p > p + m - 1 THEN 0 ELSE (p + m - 1) - p + 1
    BY <2>1, FS_Interval
  <2> HIDE DEF set
  <2> QED BY <1>1, <1>3, <2>2
<1> HIDE DEF set
<1>5. call' = [call EXCEPT !.pos = p + m, !.left = call.left - m]
  <2>1. call' = [call EXCEPT !.pos = p + m, !.left = call.left - m, !.stop = FALSE]
    BY <1>0, <1>3, <1>4
  <2>2. call.stop = FALSE BY <1>1 DEF CallType
  <2> QED BY <1>1, <2>1, <2>2 DEF CallType
<1> QED BY <1>0, <1>1, <1>2, <1>3, <1>4, <1>5, ClearPass, ClearPassExact

LEMMA ClearDoneKeeps ==
  ASSUME PInv, ClearDone
  PROVE  PInv'
<1> DEFINE r == call.r
<1>1. /\ call.pc = "clear" /\ r \in Ranges /\ ~early /\ call.start \in Nat /\ next \in [Ranges -> Nat]
      /\ BusyBelow(r, Least(next[r], call.start))
      /\ UNCHANGED <<early, bmp, avail, owned>> /\ call' = Idle
      /\ next' = [next EXCEPT ![r] = Least(next[r], call.start)]
  BY DEF PInv, Typed, CallType, ClearInv, ClearDone
<1> DEFINE n == Least(next[r], call.start)
<1>2. n \in Nat BY <1>1 DEF Least
<1> HIDE DEF n
<1>3. call' \in CallType /\ call'.pc = "idle" BY <1>1 DEF Idle, CallType
<1>4. Typed'
  <2>1. next' = [next EXCEPT ![r] = n] BY <1>1 DEF n
  <2>2. next' \in [Ranges -> Nat] BY <1>1, <1>2, <2>1
  <2> QED BY <1>1, <1>3, <2>2 DEF PInv, Typed
<1>5. MarkedInv'
  <2>1. \A s \in Ranges : Moving(s) = {} BY <1>1 DEF Moving
  <2> QED BY <1>1, <2>1 DEF PInv, MarkedInv, Held
<1>6. HintInv'
  <2>1. \A s \in Ranges : next'[s] = IF s = r THEN n ELSE next[s] BY <1>1 DEF n
  <2>2. \A s \in Ranges : s # r => BusyBelow(s, next[s]) BY <1>1 DEF PInv, HintInv
  <2> QED BY <1>1, <2>1, <2>2 DEF HintInv, BusyBelow, n
<1>7. LookInv' /\ MarkInv' /\ ClearInv' BY <1>3 DEF LookInv, MarkInv, ClearInv
<1> QED BY <1>4, <1>5, <1>6, <1>7 DEF PInv
-------------------------------------------------------------------------------
(* The exact bitmap under the steps that mark and clear nothing.           *)
LEMMA QuietExact ==
  ASSUME PInv, EInv, UNCHANGED <<bmp, avail, owned>>, SearchInv', HintInRange',
         \A r \in Ranges : Moving(r)' = {} /\ Returning(r) = {} /\ Returning(r)' = {}
  PROVE  EInv'
<1>1. Held' = Held BY DEF Held
<1>2. SetInv' BY <1>1 DEF EInv, SetInv
<1>3. CountInv' BY DEF EInv, CountInv, Free
<1> QED BY <1>2, <1>3 DEF EInv

LEMMA NothingMoves ==
  ASSUME PInv, call.pc # "clear", call'.pc \notin {"mark", "clear"}
  PROVE  \A r \in Ranges : Moving(r)' = {} /\ Returning(r) = {} /\ Returning(r)' = {}
BY DEF Moving, Returning

LEMMA SpentStays ==
  ASSUME UNCHANGED <<bmp, avail>>
  PROVE  \A r : Spent(r)' <=> Spent(r)
BY DEF Spent, Allocatable, Free, Usable

LEMMA BetweenExact ==
  ASSUME PInv, EInv, Switch \/ Fail \/ \E kind \in Kinds, need \in 0 .. MaxNeed : AllocCall(kind, need)
  PROVE  EInv'
<1>1. /\ UNCHANGED <<bmp, avail, owned, next>> /\ call.pc # "clear"
      /\ call'.pc \in {"idle", "range"} /\ (call'.pc = "range" => call'.r = 1 /\ call'.req \in Nat)
  <2>1. CASE Switch BY <2>1 DEF Switch, PInv, Typed
  <2>2. CASE Fail BY <2>2 DEF Fail, Idle
  <2>3. ASSUME NEW kind \in Kinds, NEW need \in 0 .. MaxNeed, AllocCall(kind, need)
        PROVE  /\ UNCHANGED <<bmp, avail, owned, next>> /\ call.pc # "clear"
               /\ call'.pc = "range" /\ call'.r = 1 /\ call'.req \in Nat
    BY <2>3 DEF AllocCall, Idle
  <2> QED BY <2>1, <2>2, <2>3
<1>2. SearchInv' BY <1>1 DEF SearchInv, Ranges
<1>3. HintInRange' BY <1>1 DEF EInv, HintInRange
<1> QED BY <1>1, <1>2, <1>3, NothingMoves, QuietExact

(* A lookup that finds nothing has been past every frame.                  *)
LEMMA FailedSpent ==
  ASSUME PInv, EInv, LookFailed
  PROVE  Spent(call.r)
<1>1. /\ call.pc = "look" /\ call.r \in Ranges /\ call.pos \in Nat /\ call.ret = 0
      /\ call.req \in Int /\ avail[call.r] \in Nat /\ Total[call.r] \in Nat
  BY RangeFacts DEF PInv, Typed, CallType, LookFailed, EInv, CountInv
<1>2. CASE avail[call.r] = 0 BY <1>2 DEF Spent
<1>3. CASE avail[call.r] # 0
  <2>1. call.req > 0 /\ ~call.stop BY <1>1, <1>3 DEF EInv, SearchInv
  <2>2. call.pos >= Total[call.r] BY <1>1, <1>3, <2>1 DEF LookFailed, Looking
  <2>3. BusyBelow(call.r, call.pos) BY <1>1 DEF PInv, LookInv
  <2>4. Allocatable(call.r) = {} BY <1>1, <2>2, <2>3 DEF Allocatable, Free, BusyBelow, Span
  <2> QED BY <2>4 DEF Spent
<1> QED BY <1>2, <1>3

LEMMA LoopExact ==
  ASSUME PInv, EInv, PassOver \/ Exhausted \/ LookFailed
  PROVE  EInv'
<1>1. /\ UNCHANGED <<bmp, avail, owned, next>> /\ call.pc \in {"range", "look"}
      /\ call \in CallType /\ call.r \in Nat /\ call.req \in Int
      /\ call.req >= 0 /\ \A s \in Ranges : s < call.r => Spent(s)
  BY DEF PInv, Typed, CallType, PassOver, Exhausted, LookFailed, EInv, SearchInv
<1>2. SearchInv' /\ call'.pc \notin {"mark", "clear"}
  <2>1. ASSUME PassOver \/ LookFailed
        PROVE  Spent(call.r) /\ call'.pc = "range" /\ call'.r = call.r + 1 /\ call'.req >= 0
    <3>1. CASE PassOver
      <4>1. call.r \in Ranges BY <1>1, <3>1 DEF PassOver, Ranges, PInv, Typed
      <4>2. Wanted(call.r) >= 0 BY <1>1, <4>1 DEF Wanted, EInv, CountInv
      <4> QED BY <1>1, <3>1, <4>2 DEF PassOver, Spent, CallType
    <3>2. CASE LookFailed BY <1>1, <3>2, FailedSpent DEF LookFailed, CallType
    <3> QED BY <2>1, <3>1, <3>2
  <2>2. CASE PassOver \/ LookFailed
    <3>1. \A s \in Ranges : s < call.r + 1 => Spent(s)'
      <4>1. \A s \in Ranges : s < call.r + 1 => s < call.r \/ s = call.r BY <1>1 DEF Ranges
      <4> QED BY <1>1, <2>1, <2>2, <4>1, SpentStays
    <3> QED BY <2>1, <2>2, <3>1 DEF SearchInv
  <2>3. CASE Exhausted
    <3>1. call'.pc = "failed" /\ call.r > Last BY <1>1, <2>3 DEF Exhausted, CallType
    <3>2. \A s \in Ranges : Spent(s)' BY <1>1, <3>1, SpentStays DEF Ranges
    <3> QED BY <3>1, <3>2 DEF SearchInv
  <2> QED BY <2>2, <2>3
<1>3. HintInRange' BY <1>1 DEF EInv, HintInRange
<1> QED BY <1>1, <1>2, <1>3, NothingMoves, QuietExact

(* A pass of a lookup.                                                     *)
LEMMA PassExact ==
  ASSUME PInv, EInv, UNCHANGED <<bmp, avail, owned, next>>, call.pc = "look", call'.pc = "look",
         call'.r = call.r, call'.req = call.req, call'.stop => call'.ret > 0
  PROVE  EInv'
<1>1. SearchInv' BY SpentStays DEF EInv, SearchInv
<1>2. HintInRange' BY DEF EInv, HintInRange
<1> QED BY <1>1, <1>2, NothingMoves, QuietExact

LEMMA LookExact ==
  ASSUME PInv, EInv, LookFast \/ LookSlow \/ LookFull
  PROVE  EInv'
<1>1. /\ UNCHANGED <<bmp, avail, owned, next>> /\ Looking BY DEF LookFast, LookSlow, LookFull
<1>2. /\ call.pc = "look" /\ call \in CallType /\ ~call.stop BY <1>1, Looks
<1>3. call'.pc = "look" /\ call'.r = call.r /\ call'.req = call.req /\ (call'.stop => call'.ret > 0)
  <2>1. CASE LookSlow BY <2>1, LookSlowKeeps
  <2>2. CASE LookFast BY <1>2, <2>2 DEF LookFast, CallType
  <2>3. CASE LookFull BY <1>2, <2>3 DEF LookFull, CallType
  <2> QED BY <2>1, <2>2, <2>3
<1> QED BY <1>1, <1>2, <1>3, PassExact

(* A lookup begins: with something to look for, if there is anything.      *)
LEMMA BeginExact ==
  ASSUME PInv, EInv, Search \/ LookAgain
  PROVE  EInv'
<1>0. PICK r \in Ranges : r = call.r BY DEF PInv, Typed, Search, LookAgain, Ranges, CallType
<1>1. /\ UNCHANGED <<bmp, avail, owned>> /\ call.pc \in {"range", "look"}
      /\ call \in CallType /\ call.req \in Int /\ next \in [Ranges -> Nat] /\ avail[r] \in Nat
      /\ Total[r] \in Nat /\ call.req >= 0 /\ \A s \in Ranges : s < r => Spent(s)
  BY <1>0, RangeFacts DEF PInv, Typed, CallType, Search, LookAgain, EInv, SearchInv, CountInv
<1>2. /\ call'.pc = "look" /\ call'.r = r /\ call'.req >= 0 /\ (call'.req > 0 \/ avail[r] = 0)
      /\ ~call'.stop
  <2>1. CASE Search
    <3>1. call'.req = Wanted(r) /\ call'.pc = "look" /\ call'.r = r /\ ~call'.stop
      BY <1>0, <1>1, <2>1 DEF Search, Lookup, CallType
    <3>2. Wanted(r) >= 0 /\ (Wanted(r) > 0 \/ avail[r] = 0) BY <1>1 DEF Wanted
    <3> QED BY <3>1, <3>2
  <2>2. CASE LookAgain
    <3>1. call'.req = call.req /\ call'.pc = "look" /\ call'.r = r /\ ~call'.stop
      BY <1>0, <1>1, <2>2 DEF LookAgain, Lookup, CallType
    <3>2. call.req > 0 \/ avail[r] = 0 BY <1>0, <2>2 DEF LookAgain, EInv, SearchInv
    <3> QED BY <1>1, <3>1, <3>2
  <2> QED BY <2>1, <2>2
<1>3. SearchInv' BY <1>1, <1>2, SpentStays DEF SearchInv
<1>4. HintInRange'
  <2>1. \E n \in Nat : n <= Total[r] /\ next' = [next EXCEPT ![r] = n]
    <3>1. CASE Search
      <4> DEFINE n == IF next[r] = Total[r] THEN 0 ELSE next[r]
      <4>1. next' = [next EXCEPT ![r] = n] BY <1>0, <3>1 DEF Search
      <4>2. n \in Nat /\ n <= Total[r] BY <1>1 DEF EInv, HintInRange
      <4> QED BY <4>1, <4>2
    <3>2. CASE LookAgain
      <4>1. next' = [next EXCEPT ![r] = 0] /\ 0 \in Nat /\ 0 <= Total[r]
        BY <1>0, <1>1, <3>2 DEF LookAgain
      <4> QED BY <4>1
    <3> QED BY <3>1, <3>2
  <2> QED BY <1>1, <2>1 DEF EInv, HintInRange
<1> QED BY <1>1, <1>2, <1>3, <1>4, NothingMoves, QuietExact

(* What the callback takes is free, hence not the kernel's.                *)
LEMMA CallbackExact ==
  ASSUME PInv, EInv, Callback
  PROVE  EInv'
<1>0. PICK r \in Ranges : r = call.r BY CallbackFacts
<1> DEFINE p == call.start  u == Used  S == Run(r, p, u)
<1>1. /\ call.pc = "look" /\ call \in CallType /\ p \in Nat /\ call.ret \in Nat /\ call.req \in Int
      /\ u \in Nat /\ u <= call.ret /\ Base[r] + p >= IsaEnd /\ call.ret > 0 /\ call.ret <= call.req
      /\ p + call.ret <= Total[r] /\ p .. p + u - 1 \subseteq Free(r)
      /\ Total[r] \in Nat /\ next \in [Ranges -> Nat]
  <2>1. call.ret <= call.req BY CallbackFacts DEF PInv, LookInv
  <2>2. next \in [Ranges -> Nat] BY DEF PInv, Typed
  <2> QED BY <1>0, <2>1, <2>2, CallbackFacts, RangeFacts
<1>2. /\ owned' = Owned(S, 1) /\ UNCHANGED <<bmp, avail>> /\ next' = [next EXCEPT ![r] = p + call.ret]
      /\ call'.pc = "mark" /\ call'.r = r /\ call'.pos = p /\ call'.left = u /\ call'.req = call.req - u
  BY <1>0, <1>1 DEF Callback, CallType
<1>3. p + u <= Total[r] BY <1>1
<1>4. \A a \in S : /\ a \in Addresses /\ owned[a] = 0 /\ a >= IsaEnd
                    /\ \E q \in p .. p + u - 1 : a = Base[r] + q /\ q \in Span(r)
  BY <1>1, <1>3, FreeRun
<1>5. Held' = Held \cup S BY <1>2, <1>4, Handed
<1>6. /\ \A s \in Ranges : Returning(s) = {} /\ Returning(s)' = {}
      /\ \A s \in Ranges : Moving(s)' = IF s = r THEN p .. p + u - 1 ELSE {}
  BY <1>1, <1>2 DEF Returning, Moving
<1>7. \A q \in p .. p + u - 1 : Base[r] + q \in S BY DEF Run
<1> HIDE DEF p, u, S
<1>8. SetInv'
  <2>1. ASSUME NEW q \in p .. p + u - 1 PROVE Base[r] + q \notin Kernel
    <3>1. q \in Free(r) /\ Marked(r) \subseteq bmp[r] BY <1>1 DEF EInv, SetInv
    <3> QED BY <3>1 DEF Free, Marked
  <2>2. Held' \cap Kernel = {} BY <1>4, <1>5, <2>1 DEF EInv, SetInv
  <2>3. \A s \in Ranges : \A q \in Moving(s)' : Base[s] + q \in Held' BY <1>5, <1>6, <1>7
  <2>4. \A s \in Ranges : \A q \in Span(s) \cap bmp'[s] : Base[s] + q \in Held' \cup Kernel
    BY <1>2, <1>5, <1>6 DEF EInv, SetInv
  <2>5. \A s \in Ranges : /\ Marked(s) \cup Tracking(s) \subseteq bmp'[s]
                           /\ bmp'[s] \subseteq 0 .. Total[s] + Track[s] - 1
    BY <1>2 DEF EInv, SetInv
  <2> QED BY <1>6, <2>2, <2>3, <2>4, <2>5 DEF SetInv
<1>9. CountInv' BY <1>2 DEF EInv, CountInv, Free
<1>10. SearchInv'
  <2>1. \A s \in Ranges : s < r => Spent(s)' BY <1>0, <1>1, <1>2, SpentStays DEF EInv, SearchInv
  <2> QED BY <1>1, <1>2, <2>1 DEF SearchInv
<1>11. HintInRange' BY <1>1, <1>2 DEF EInv, HintInRange
<1> QED BY <1>8, <1>9, <1>10, <1>11 DEF EInv

(* Marking ends when everything is marked.                                 *)
LEMMA MarkDoneExact ==
  ASSUME PInv, EInv, MarkDone
  PROVE  EInv'
<1>0. PICK r \in Ranges : r = call.r BY DEF PInv, Typed, MarkDone
<1>1. /\ call.pc = "mark" /\ call \in CallType /\ call.pos \in Nat /\ call.left \in Nat
      /\ call.start \in Nat /\ call.ret \in Nat /\ call.req \in Int /\ avail[r] \in Int
      /\ next \in [Ranges -> Nat] /\ UNCHANGED <<bmp, avail, owned>>
      /\ call.start + call.ret = call.pos + call.left /\ call.left <= avail[r]
      /\ call.pos + call.left <= Total[r] /\ Total[r] \in Nat
  BY <1>0, RangeFacts DEF PInv, Typed, CallType, MarkInv, MarkDone
<1>2. call.left = 0
  <2> SUFFICES ASSUME call.left > 0 PROVE FALSE BY <1>1
  <2>1. Marking BY <1>0, <1>1 DEF Marking
  <2> QED BY <2>1 DEF MarkDone
<1>3. /\ next' = [next EXCEPT ![r] = call.start + call.ret]
      /\ call' = Idle \/ call' = [call EXCEPT !.pc = "range"]
  BY <1>0, <1>2 DEF MarkDone
<1>4. call'.pc \in {"idle", "range"} /\ (call'.pc = "range" => call'.r = r /\ call'.req = call.req)
  BY <1>0, <1>1, <1>3 DEF Idle, CallType
<1>5. SearchInv' BY <1>0, <1>1, <1>4, SpentStays DEF EInv, SearchInv
<1>6. HintInRange'
  <2>1. call.start + call.ret <= Total[r] BY <1>1
  <2> QED BY <1>1, <1>3, <2>1 DEF EInv, HintInRange
<1> QED BY <1>1, <1>4, <1>5, <1>6, NothingMoves, QuietExact

LEMMA FreeCallExact ==
  ASSUME PInv, EInv, NEW r \in Ranges, NEW p \in 0 .. Total[r] - 1, NEW n \in 1 .. MaxNeed, FreeCall(r, p, n)
  PROVE  EInv'
<1> DEFINE S == Run(r, p, n)
<1>1. /\ owned' = Owned(S, -1) /\ UNCHANGED <<bmp, avail, next>> /\ S \subseteq Held
      /\ call'.pc = "clear" /\ call'.r = r /\ call'.pos = p /\ call'.left = n
      /\ ~call'.stop
  BY DEF FreeCall, Idle
<1>2. /\ p \in Nat /\ n \in Nat /\ p + n <= Total[r] /\ call.pc = "idle"
      /\ \A q \in p .. p + n - 1 : Base[r] + q \in Held
  BY FreeCallFacts
<1>3. Held' = Held \ S BY <1>1, Returned
<1>4. /\ \A s \in Ranges : Returning(s) = {} /\ Moving(s)' = {}
      /\ \A s \in Ranges : Returning(s)' = IF s = r THEN p .. p + n - 1 ELSE {}
  BY <1>1, <1>2 DEF Returning, Moving
<1>5. ASSUME NEW s \in Ranges, NEW q \in Span(s), Base[s] + q \in S PROVE q \in Returning(s)'
  <2>1. PICK k \in p .. p + n - 1 : Base[s] + q = Base[r] + k /\ k \in Span(r) BY <1>2, <1>5, RunIs
  <2>2. q \in 0 .. Total[s] + Track[s] - 1 /\ k \in 0 .. Total[r] + Track[r] - 1
    BY <2>1, RangeFacts DEF Span
  <2>3. s = r /\ q = k BY <2>1, <2>2, OneRange
  <2> QED BY <1>4, <2>3
<1> HIDE DEF S
<1>6. SetInv'
  <2>1. ASSUME NEW s \in Ranges, NEW q \in Span(s) \cap bmp'[s]
        PROVE  Base[s] + q \in Held' \cup Kernel \/ q \in Returning(s)'
    <3>1. Base[s] + q \in Held \cup Kernel BY <1>1, <1>4 DEF EInv, SetInv
    <3> QED BY <1>3, <1>5, <3>1
  <2>2. \A s \in Ranges : \A q \in Returning(s)' : Base[s] + q \notin Kernel
    <3>1. Held \cap Kernel = {} BY DEF EInv, SetInv
    <3> QED BY <1>2, <1>4, <3>1
  <2>3. Held' \cap Kernel = {} BY <1>3 DEF EInv, SetInv
  <2>4. \A s \in Ranges : /\ Marked(s) \cup Tracking(s) \subseteq bmp'[s]
                           /\ bmp'[s] \subseteq 0 .. Total[s] + Track[s] - 1
    BY <1>1 DEF EInv, SetInv
  <2> QED BY <1>4, <2>1, <2>2, <2>3, <2>4 DEF SetInv
<1>7. CountInv' BY <1>1 DEF EInv, CountInv, Free
<1>8. SearchInv' BY <1>1 DEF SearchInv
<1>9. HintInRange' BY <1>1 DEF EInv, HintInRange
<1> QED BY <1>6, <1>7, <1>8, <1>9 DEF EInv

(* While there is a frame to clear, avail_pf is below total_pf: clearing   *)
(* ends when everything is clear.                                          *)
LEMMA ClearDoneExact ==
  ASSUME PInv, EInv, ClearDone
  PROVE  EInv'
<1>0. PICK r \in Ranges : r = call.r BY DEF PInv, Typed, ClearDone
<1>1. /\ call.pc = "clear" /\ call \in CallType /\ call.pos \in Nat /\ call.left \in Nat
      /\ next \in [Ranges -> Nat] /\ UNCHANGED <<bmp, avail, owned>> /\ call' = Idle
      /\ next' = [next EXCEPT ![r] = Least(next[r], call.start)] /\ call.start \in Nat
      /\ Total[r] \in Nat /\ Track[r] \in Nat /\ Track[r] > 0
  BY <1>0, RangeFacts DEF PInv, Typed, CallType, ClearDone
<1>2. call.left = 0
  <2> SUFFICES ASSUME call.left > 0 PROVE FALSE BY <1>1
  <2>1. call.pos + call.left <= Total[r] BY <1>0, <1>1 DEF PInv, ClearInv
  <2>2. avail[r] \in Nat /\ avail[r] + Track[r] = Cardinality(Free(r)) BY DEF EInv, CountInv
  <2>3. avail[r] < Total[r] BY <1>1, <2>2, FreeSize
  <2>4. ~call.stop BY <1>1 DEF EInv, SearchInv
  <2>5. Clearing BY <1>0, <1>1, <2>1, <2>3, <2>4 DEF Clearing
  <2> QED BY <2>5 DEF ClearDone
<1>3. call'.pc = "idle" BY <1>1 DEF Idle
<1>4. \A s \in Ranges : Moving(s)' = {} /\ Returning(s) = {} /\ Returning(s)' = {}
  BY <1>1, <1>2, <1>3 DEF Moving, Returning
<1>5. SearchInv' BY <1>3 DEF SearchInv
<1>6. HintInRange'
  <2> DEFINE n == Least(next[r], call.start)
  <2>1. n \in Nat /\ n <= next[r] BY <1>1 DEF Least
  <2>2. next' = [next EXCEPT ![r] = n] BY <1>1
  <2> HIDE DEF n
  <2>3. n <= Total[r] BY <1>1, <2>1 DEF EInv, HintInRange
  <2> QED BY <1>1, <2>2, <2>3 DEF EInv, HintInRange
<1> QED BY <1>1, <1>4, <1>5, <1>6, QuietExact
-------------------------------------------------------------------------------
(* Allocation before the ranges are up: frames that are free.              *)
LEMMA EarlyTakes ==
  ASSUME NEW need \in 1 .. MaxNeed, EarlyAlloc(need)
  PROVE  \E in \in [Ranges -> SUBSET Nat] : \E S :
           /\ \A r \in Ranges : in[r] \subseteq EarlyFree(r)
           /\ \A a : a \in S <=> \E r \in Ranges : \E q \in in[r] : a = Base[r] + q
           /\ owned' = Owned(S, 1)
           /\ bmp' = [r \in Ranges |-> bmp[r] \cup in[r]]
           /\ avail' = [r \in Ranges |-> (avail[r] - Cardinality(in[r])) % Wrap]
           /\ \A r \in Ranges : Cardinality(in[r]) > avail[r] => astray'
<1> DEFINE usable == {r \in Ranges : Usable(r)}
           free == UNION {{r} \X EarlyFree(r) : r \in usable}
           before(x, y) == x[1] < y[1] \/ (x[1] = y[1] /\ x[2] < y[2])
           got == IF usable = {} \/ EarlyFree(LeastOf(usable)) = {} THEN {}
                  ELSE {x \in free : Cardinality({y \in free : before(y, x)}) < need}
           in(r) == {x[2] : x \in {y \in got : y[1] = r}}
           S == {Base[x[1]] + x[2] : x \in got}
           f == [r \in Ranges |-> in(r)]
<1>1. /\ owned' = Owned(S, 1)
      /\ bmp' = [r \in Ranges |-> bmp[r] \cup in(r)]
      /\ avail' = [r \in Ranges |-> (avail[r] - Cardinality(in(r))) % Wrap]
      /\ astray' = (astray \/ \E r \in Ranges : Cardinality(in(r)) > avail[r])
  BY DEF EarlyAlloc
<1>2. \A x \in got : x[1] \in Ranges /\ x[2] \in EarlyFree(x[1]) /\ x = <<x[1], x[2]>>
  <2>1. got \subseteq free OBVIOUS
  <2>2. ASSUME NEW x \in free PROVE x[1] \in Ranges /\ x[2] \in EarlyFree(x[1]) /\ x = <<x[1], x[2]>>
    <3>1. PICK r \in usable : x \in {r} \X EarlyFree(r) OBVIOUS
    <3> QED BY <3>1
  <2> HIDE DEF got, free
  <2> QED BY <2>1, <2>2
<1> HIDE DEF got
<1>3. \A r \in Ranges : in(r) \subseteq EarlyFree(r) BY <1>2
<1>4. \A a : a \in S <=> \E r \in Ranges : \E q \in in(r) : a = Base[r] + q
  <2>1. ASSUME NEW x \in got PROVE x[1] \in Ranges /\ x[2] \in in(x[1]) BY <1>2
  <2>2. ASSUME NEW r \in Ranges, NEW q \in in(r) PROVE Base[r] + q \in S OBVIOUS
  <2>3. \A a \in S : \E x \in got : a = Base[x[1]] + x[2] OBVIOUS
  <2> HIDE DEF in, S
  <2> QED BY <2>1, <2>2, <2>3
<1> HIDE DEF in, S
<1>5. \A r \in Ranges : f[r] = in(r) OBVIOUS
<1>6. f \in [Ranges -> SUBSET Nat]
  <2>1. \A r \in Ranges : in(r) \in SUBSET Nat BY <1>3 DEF EarlyFree
  <2> QED BY <2>1
<1> HIDE DEF f
<1>7. /\ \A r \in Ranges : f[r] \subseteq EarlyFree(r)
      /\ \A a : a \in S <=> \E r \in Ranges : \E q \in f[r] : a = Base[r] + q
  BY <1>3, <1>4, <1>5
<1>8. /\ bmp' = [r \in Ranges |-> bmp[r] \cup f[r]]
      /\ avail' = [r \in Ranges |-> (avail[r] - Cardinality(f[r])) % Wrap]
      /\ \A r \in Ranges : Cardinality(f[r]) > avail[r] => astray'
  BY <1>1, <1>5
<1> QED BY <1>1, <1>6, <1>7, <1>8

LEMMA SmallMod ==
  ASSUME NEW a \in Nat, NEW m \in Nat, a < m
  PROVE  a % m = a
OBVIOUS

LEMMA EarlyKeeps ==
  ASSUME PInv, EInv, NEW need \in 1 .. MaxNeed, EarlyAlloc(need), ~astray'
  PROVE  PInv' /\ EInv' /\ FS!Next
<1>1. PICK in \in [Ranges -> SUBSET Nat] : \E S :
        /\ \A r \in Ranges : in[r] \subseteq EarlyFree(r)
        /\ \A a : a \in S <=> \E r \in Ranges : \E q \in in[r] : a = Base[r] + q
        /\ owned' = Owned(S, 1)
        /\ bmp' = [r \in Ranges |-> bmp[r] \cup in[r]]
        /\ avail' = [r \in Ranges |-> (avail[r] - Cardinality(in[r])) % Wrap]
        /\ \A r \in Ranges : Cardinality(in[r]) > avail[r] => astray'
  BY EarlyTakes
<1>2. PICK S :
        /\ \A r \in Ranges : in[r] \subseteq EarlyFree(r)
        /\ \A a : a \in S <=> \E r \in Ranges : \E q \in in[r] : a = Base[r] + q
        /\ owned' = Owned(S, 1)
        /\ bmp' = [r \in Ranges |-> bmp[r] \cup in[r]]
        /\ avail' = [r \in Ranges |-> (avail[r] - Cardinality(in[r])) % Wrap]
        /\ \A r \in Ranges : Cardinality(in[r]) > avail[r] => astray'
  BY <1>1
<1>3. /\ early /\ UNCHANGED <<early, next, call>> /\ call.pc = "idle"
      /\ bmp \in [Ranges -> SUBSET Nat] /\ avail \in [Ranges -> Int]
  BY DEF EarlyAlloc, PInv, Typed
<1>4. \A r \in Ranges : in[r] \subseteq Free(r) /\ in[r] \subseteq Span(r)
  BY <1>2 DEF EarlyFree, Free, Span
<1>5. \A a \in S : a \in Addresses /\ owned[a] = 0 /\ a >= IsaEnd
                   /\ \E r \in Ranges : \E q \in in[r] : a = Base[r] + q /\ q \in Span(r)
  <2> SUFFICES ASSUME NEW r \in Ranges, NEW q \in in[r]
      PROVE  LET a == Base[r] + q
             IN  a \in Addresses /\ owned[a] = 0 /\ a >= IsaEnd /\ q \in Span(r)
    BY <1>2
  <2>1. q \in Free(r) /\ q \in Span(r) BY <1>4
  <2>2. Base[r] + q >= IsaEnd BY <1>2 DEF EarlyFree
  <2> QED BY <1>3, <2>1, <2>2, NotHeld
<1>6. owned' \in [Addresses -> {0, 1}] /\ Held' = Held \cup S /\ FS!Next BY <1>2, <1>5, Handed
<1>7. \A r \in Ranges : bmp'[r] = bmp[r] \cup in[r] BY <1>2
<1>8. \A r \in Ranges :
        /\ avail'[r] = avail[r] - Cardinality(in[r]) /\ avail'[r] \in Nat
        /\ Cardinality(Free(r)') = Cardinality(Free(r)) - Cardinality(in[r])
  <2> SUFFICES ASSUME NEW r \in Ranges
      PROVE  /\ avail'[r] = avail[r] - Cardinality(in[r]) /\ avail'[r] \in Nat
             /\ Cardinality(Free(r)') = Cardinality(Free(r)) - Cardinality(in[r])
    OBVIOUS
  <2>1. Free(r)' = Free(r) \ in[r] BY <1>7 DEF Free
  <2>2. /\ Cardinality(in[r]) \in Nat /\ Cardinality(Free(r)) \in Nat /\ Cardinality(Free(r)) <= Total[r]
        /\ Cardinality(Free(r)') = Cardinality(Free(r)) - Cardinality(in[r])
    BY <1>4, <2>1, Without, FreeSize
  <2>3. avail[r] \in Nat /\ avail[r] + Track[r] = Cardinality(Free(r)) BY DEF EInv, CountInv
  <2>4. Wrap \in Nat /\ Total[r] + Track[r] < Wrap /\ Track[r] \in Nat /\ Total[r] \in Nat
    BY WrapAssumption, RangeFacts
  <2>5. Cardinality(in[r]) <= avail[r] BY <1>2, <2>2, <2>3
  <2> DEFINE d == avail[r] - Cardinality(in[r])
  <2>6. d \in Nat /\ d < Wrap BY <2>2, <2>3, <2>4, <2>5
  <2>7. avail'[r] = d % Wrap BY <1>2
  <2> HIDE DEF d
  <2>8. avail'[r] = d BY <2>4, <2>6, <2>7, SmallMod
  <2> QED BY <2>2, <2>6, <2>8 DEF d
<1>9. Typed'
  <2>1. bmp' \in [Ranges -> SUBSET Nat] BY <1>1, <1>2, <1>3
  <2>2. avail' \in [Ranges -> Int] BY <1>2, <1>8
  <2> QED BY <1>3, <1>6, <2>1, <2>2 DEF PInv, Typed
<1>10. MarkedInv'
  <2>1. \A r \in Ranges : Total[r] \in bmp'[r] BY <1>7 DEF PInv, MarkedInv
  <2>2. \A a \in Held' : a >= IsaEnd /\ \E r \in Ranges : \E p \in Span(r) : a = Base[r] + p
    BY <1>5, <1>6 DEF PInv, MarkedInv
  <2>3. ASSUME NEW r \in Ranges, NEW q \in Span(r), Base[r] + q \in Held' PROVE q \in bmp'[r]
    <3>1. CASE Base[r] + q \in Held
      <4>1. Moving(r) = {} BY <1>3 DEF Moving
      <4> QED BY <1>7, <3>1, <4>1 DEF PInv, MarkedInv
    <3>2. CASE Base[r] + q \in S
      <4>1. PICK s \in Ranges : \E k \in in[s] : Base[r] + q = Base[s] + k /\ k \in Span(s)
        BY <1>5, <3>2
      <4>2. PICK k \in in[s] : Base[r] + q = Base[s] + k /\ k \in Span(s) BY <4>1
      <4>3. q \in 0 .. Total[r] + Track[r] - 1 /\ k \in 0 .. Total[s] + Track[s] - 1
        BY <4>2, RangeFacts DEF Span
      <4>4. r = s /\ q = k BY <4>2, <4>3, OneRange
      <4> QED BY <1>7, <4>4
    <3> QED BY <1>6, <2>3, <3>1, <3>2
  <2> QED BY <2>1, <2>2, <2>3 DEF MarkedInv
<1>11. HintInv'
  <2>1. \A r \in Ranges : BusyBelow(r, next[r]) BY <1>3, Hinted
  <2> QED BY <1>3, <1>7, <2>1 DEF HintInv, BusyBelow
<1>12. LookInv' /\ MarkInv' /\ ClearInv' BY <1>3 DEF LookInv, MarkInv, ClearInv
<1>13. SetInv'
  <2>1. \A r \in Ranges : Returning(r)' = {} /\ Moving(r)' = {} /\ Returning(r) = {}
    BY <1>3 DEF Returning, Moving
  <2>2. ASSUME NEW r \in Ranges, NEW q \in in[r] PROVE Base[r] + q \in S /\ Base[r] + q \notin Kernel
    <3>1. q \in Free(r) /\ Marked(r) \subseteq bmp[r] BY <1>4 DEF EInv, SetInv
    <3> QED BY <1>2, <3>1 DEF Free, Marked
  <2>3. ASSUME NEW r \in Ranges
        PROVE  /\ Marked(r) \cup Tracking(r) \subseteq bmp'[r]
               /\ bmp'[r] \subseteq 0 .. Total[r] + Track[r] - 1
    <3>1. Span(r) \subseteq 0 .. Total[r] + Track[r] - 1 BY RangeFacts DEF Span
    <3> QED BY <1>4, <1>7, <3>1 DEF EInv, SetInv
  <2>4. ASSUME NEW r \in Ranges, NEW p \in Span(r) \cap bmp'[r] PROVE Base[r] + p \in Held' \cup Kernel
    BY <1>6, <1>7, <2>1, <2>2 DEF EInv, SetInv
  <2>5. Held' \cap Kernel = {} BY <1>2, <1>6, <2>2 DEF EInv, SetInv
  <2> QED BY <2>1, <2>3, <2>4, <2>5 DEF SetInv
<1>14. CountInv'
  <2>1. ASSUME NEW r \in Ranges PROVE avail'[r] + Track[r] = Cardinality(Free(r)')
    <3>1. Cardinality(in[r]) \in Nat /\ Cardinality(Free(r)) \in Nat BY <1>4, Without, FreeSize
    <3>2. avail[r] \in Nat /\ avail[r] + Track[r] = Cardinality(Free(r)) BY DEF EInv, CountInv
    <3> QED BY <1>8, <3>1, <3>2, RangeFacts
  <2> QED BY <1>8, <2>1 DEF CountInv
<1>15. SearchInv' BY <1>3 DEF SearchInv
<1>16. HintInRange' BY <1>3 DEF EInv, HintInRange
<1>17. PInv' BY <1>9, <1>10, <1>11, <1>12 DEF PInv
<1>18. EInv' BY <1>13, <1>14, <1>15, <1>16 DEF EInv
<1> QED BY <1>6, <1>17, <1>18
-------------------------------------------------------------------------------
LEMMA InitHolds == Init => PInv /\ EInv /\ FS!Init
<1> SUFFICES ASSUME Init PROVE PInv /\ EInv /\ FS!Init OBVIOUS
<1>1. /\ early = TRUE /\ call = Idle /\ astray = FALSE
      /\ bmp = [r \in Ranges |-> Marked(r) \cup Tracking(r)]
      /\ avail = [r \in Ranges |-> Total[r] - Cardinality(Marked(r)) - Track[r]]
      /\ next = [r \in Ranges |-> 0] /\ owned = [a \in Addresses |-> 0]
  BY DEF Init
<1>2. call \in CallType /\ call.pc = "idle" BY <1>1 DEF Idle, CallType
<1>3. ASSUME NEW r \in Ranges
      PROVE  /\ Marked(r) \cup Tracking(r) \in SUBSET Nat /\ Total[r] \in Tracking(r)
             /\ Total[r] - Cardinality(Marked(r)) - Track[r] \in Int
  <2>1. Total[r] \in Nat /\ Track[r] \in Nat /\ Track[r] > 0 BY RangeFacts
  <2>2. Marked(r) \subseteq 0 .. Total[r] - 1 BY DEF Marked
  <2>3. IsFiniteSet(0 .. Total[r] - 1) BY <2>1, FS_Interval
  <2>4. IsFiniteSet(Marked(r)) BY <2>2, <2>3, FS_Subset
  <2>5. Cardinality(Marked(r)) \in Nat BY <2>4, FS_CardinalityType
  <2> QED BY <2>1, <2>2, <2>5 DEF Tracking
<1>4. Typed
  <2>1. bmp \in [Ranges -> SUBSET Nat] BY <1>1, <1>3
  <2>2. avail \in [Ranges -> Int] BY <1>1, <1>3
  <2> QED BY <1>1, <1>2, <2>1, <2>2 DEF Typed
<1>5. Held = {} BY <1>1 DEF Held
<1>6. MarkedInv BY <1>1, <1>3, <1>5 DEF MarkedInv
<1>7. HintInv BY <1>1, RangeFacts DEF HintInv, BusyBelow, Span
<1>8. LookInv /\ MarkInv /\ ClearInv BY <1>2 DEF LookInv, MarkInv, ClearInv
<1>9. FS!Init BY <1>1 DEF FS!Init
<1>10. SetInv
  <2>1. \A r \in Ranges : Moving(r) = {} /\ Returning(r) = {} BY <1>2 DEF Moving, Returning
  <2>2. ASSUME NEW r \in Ranges
        PROVE  /\ Marked(r) \cup Tracking(r) \subseteq bmp[r]
               /\ bmp[r] \subseteq 0 .. Total[r] + Track[r] - 1
               /\ \A p \in Span(r) \cap bmp[r] : Base[r] + p \in Kernel
    <3>1. bmp[r] = Marked(r) \cup Tracking(r) BY <1>1
    <3>2. Tracking(r) \subseteq 0 .. Total[r] + Track[r] - 1 /\ Tracking(r) \cap Span(r) = {}
          /\ Marked(r) \subseteq 0 .. Total[r] + Track[r] - 1
      BY RangeFacts DEF Tracking, Marked, Span
    <3>3. \A p \in Marked(r) : Base[r] + p \in Kernel BY DEF Marked
    <3> QED BY <3>1, <3>2, <3>3
  <2> QED BY <1>5, <2>1, <2>2 DEF SetInv
<1>11. CountInv
  <2> SUFFICES ASSUME NEW r \in Ranges
               PROVE  avail[r] \in Nat /\ avail[r] + Track[r] = Cardinality(Free(r))
    BY DEF CountInv
  <2>1. Total[r] \in Nat /\ Track[r] \in Nat /\ avail[r] = Total[r] - Cardinality(Marked(r)) - Track[r]
    BY <1>1, RangeFacts
  <2>2. /\ Marked(r) \subseteq 0 .. Total[r] - 1 /\ Free(r) = (0 .. Total[r] - 1) \ Marked(r)
        /\ (0 .. Total[r] - 1) \cap Marked(r) = Marked(r)
    BY <1>1, <2>1 DEF Marked, Free, Tracking
  <2>3. IsFiniteSet(0 .. Total[r] - 1) /\ Cardinality(0 .. Total[r] - 1) = Total[r]
    <3>1. 0 .. 0 + Total[r] - 1 = 0 .. Total[r] - 1 BY <2>1
    <3>2. IsFiniteSet(0 .. 0 + Total[r] - 1) /\ Cardinality(0 .. 0 + Total[r] - 1) = Total[r]
      BY <2>1, RunSize
    <3> QED BY <3>1, <3>2
  <2>4. Cardinality(Marked(r)) \in Nat BY <2>2, <2>3, FS_Subset, FS_CardinalityType
  <2>5. Cardinality((0 .. Total[r] - 1) \ Marked(r))
          = Cardinality(0 .. Total[r] - 1) - Cardinality((0 .. Total[r] - 1) \cap Marked(r))
    BY <2>3, FS_Difference
  <2>6. Cardinality(Marked(r)) + Track[r] <= Total[r] BY RoomAssumption
  <2>7. Cardinality(Free(r)) = Total[r] - Cardinality(Marked(r)) BY <2>2, <2>3, <2>5
  <2> QED BY <2>1, <2>4, <2>6, <2>7
<1>12. SearchInv BY <1>2, <1>1 DEF SearchInv
<1>13. HintInRange BY <1>1, RangeFacts DEF HintInRange
<1> QED BY <1>4, <1>6, <1>7, <1>8, <1>9, <1>10, <1>11, <1>12, <1>13 DEF PInv, EInv

(* One step: the invariant stays, and callers see a step of Frames or none. *)
LEMMA StepKeeps ==
  ASSUME PInv, EInv, [Next]_vars, ~astray'
  PROVE  PInv' /\ EInv' /\ (FS!Next \/ UNCHANGED owned)
<1>1. CASE UNCHANGED vars
  <2>1. PInv'
    BY <1>1 DEF vars, PInv, Typed, MarkedInv, HintInv, LookInv, MarkInv, ClearInv, BusyBelow,
       HeadBusy, Held, Moving, Free, Looking
  <2>2. SetInv' BY <1>1 DEF vars, EInv, SetInv, Held, Moving, Returning
  <2>3. CountInv' /\ HintInRange' BY <1>1 DEF vars, EInv, CountInv, HintInRange, Free
  <2>4. SearchInv' BY <1>1, SpentStays DEF vars, EInv, SearchInv
  <2> QED BY <1>1, <2>1, <2>2, <2>3, <2>4 DEF vars, EInv
<1>2. ASSUME NEW need \in 1 .. MaxNeed, EarlyAlloc(need) PROVE PInv' /\ EInv' /\ FS!Next
  BY <1>2, EarlyKeeps
<1>3. CASE Switch BY <1>3, SwitchKeeps, BetweenExact DEF Switch
<1>4. ASSUME NEW kind \in Kinds, NEW need \in 0 .. MaxNeed, AllocCall(kind, need)
      PROVE  PInv' /\ EInv' /\ UNCHANGED owned
  BY <1>4, AllocCallKeeps, BetweenExact DEF AllocCall
<1>5. CASE PassOver \/ Exhausted \/ LookFailed \/ Fail
  BY <1>5, LoopKeeps, LoopExact, BetweenExact DEF PassOver, Exhausted, LookFailed, Fail
<1>6. CASE Search BY <1>6, SearchKeeps, BeginExact DEF Search
<1>7. CASE LookFast BY <1>7, LookFastKeeps, LookExact DEF LookFast
<1>8. CASE LookSlow BY <1>8, LookSlowKeeps, LookExact DEF LookSlow
<1>9. CASE LookFull BY <1>9, LookFullKeeps, LookExact DEF LookFull
<1>10. CASE LookAgain BY <1>10, LookAgainKeeps, BeginExact DEF LookAgain
<1>11. CASE Callback
  <2>1. PInv' /\ EInv' BY <1>11, CallbackKeeps, CallbackExact
  <2>2. /\ call.pc # "mark" /\ call.r \in Ranges /\ call.start \in Nat /\ Used \in Nat
        /\ call.start + Used <= Total[call.r] /\ Base[call.r] + call.start >= IsaEnd
        /\ call.start .. call.start + Used - 1 \subseteq Free(call.r)
    BY <1>11, CallbackFacts, RangeFacts
  <2>3. \A a \in Run(call.r, call.start, Used) : a \in Addresses /\ owned[a] = 0 /\ a >= IsaEnd
    BY <2>2, FreeRun
  <2>4. owned' = Owned(Run(call.r, call.start, Used), 1) BY <1>11 DEF Callback
  <2> QED BY <2>1, <2>3, <2>4, Handed
<1>12. CASE MarkFast BY <1>12, MarkFastKeeps DEF MarkFast
<1>13. CASE MarkSlow BY <1>13, MarkSlowKeeps DEF MarkSlow
<1>14. CASE MarkDone BY <1>14, MarkDoneKeeps, MarkDoneExact DEF MarkDone
<1>15. ASSUME NEW r \in Ranges, NEW p \in 0 .. Total[r] - 1, NEW n \in 1 .. MaxNeed, FreeCall(r, p, n)
       PROVE  PInv' /\ EInv' /\ FS!Next
  <2>1. Run(r, p, n) \subseteq Held /\ owned' = Owned(Run(r, p, n), -1) BY <1>15 DEF FreeCall
  <2> QED BY <1>15, <2>1, FreeCallKeeps, FreeCallExact, Returned
<1>16. CASE ClearFast BY <1>16, ClearFastKeeps DEF ClearFast
<1>17. CASE ClearSlow BY <1>17, ClearSlowKeeps DEF ClearSlow
<1>18. CASE ClearDone BY <1>18, ClearDoneKeeps, ClearDoneExact DEF ClearDone
<1> QED BY <1>1, <1>2, <1>3, <1>4, <1>5, <1>6, <1>7, <1>8, <1>9, <1>10, <1>11, <1>12, <1>13,
           <1>14, <1>15, <1>16, <1>17, <1>18 DEF Next

(* What has gone astray stays so.                                          *)
LEMMA AstrayStays == [Next]_vars /\ astray => astray'
BY DEF Next, vars, EarlyAlloc, Switch, AllocCall, PassOver, Search, Exhausted, LookFast, LookSlow,
   LookFull, LookAgain, LookFailed, Callback, MarkFast, MarkSlow, MarkDone, Fail, FreeCall,
   ClearFast, ClearSlow, ClearDone

Inv == astray \/ (PInv /\ EInv)

LEMMA Invariance == Spec => []Inv
<1>1. Init => Inv BY InitHolds DEF Inv
<1>2. Inv /\ [Next]_vars => Inv' BY StepKeeps, AstrayStays DEF Inv
<1> QED BY <1>1, <1>2, PTL DEF Spec
-------------------------------------------------------------------------------
(* The bits outside of what a call is moving.                              *)
LEMMA ExactBits ==
  ASSUME PInv, EInv, NEW r \in Ranges, NEW M, M = Moving(r) \cup Returning(r)
  PROVE  AddressesOf(r, bmp[r] \ M) =
           (Held \cup Kernel \cup AddressesOf(r, Tracking(r)))
             \cap AddressesOf(r, (0 .. Total[r] + Track[r] - 1) \ M)
<1> DEFINE All == 0 .. Total[r] + Track[r] - 1
<1>1. /\ bmp[r] \subseteq All /\ Marked(r) \cup Tracking(r) \subseteq bmp[r]
      /\ \A p \in Span(r) \cap bmp[r] : Base[r] + p \in Held \cup Kernel \/ p \in M
  BY DEF EInv, SetInv
<1>2. \A p \in All : p \in Span(r) \/ p \in Tracking(r) BY RangeFacts DEF Span, Tracking
<1>3. ASSUME NEW p \in bmp[r] \ M
      PROVE  Base[r] + p \in Held \cup Kernel \cup AddressesOf(r, Tracking(r))
  BY <1>1, <1>2 DEF AddressesOf
<1>4. ASSUME NEW p \in All \ M, Base[r] + p \in Held PROVE p \in bmp[r]
  <2>1. PICK s \in Ranges : \E q \in Span(s) : Base[r] + p = Base[s] + q
    BY <1>4 DEF PInv, MarkedInv
  <2>2. PICK q \in Span(s) : Base[r] + p = Base[s] + q BY <2>1
  <2>3. q \in 0 .. Total[s] + Track[s] - 1 BY RangeFacts DEF Span
  <2>4. s = r /\ q = p BY <2>2, <2>3, OneRange
  <2> QED BY <1>4, <2>2, <2>4 DEF PInv, MarkedInv
<1>5. ASSUME NEW p \in All \ M, Base[r] + p \in Kernel PROVE p \in bmp[r]
  BY <1>1, <1>2, <1>5 DEF Marked, Span
<1>6. ASSUME NEW p \in All \ M, NEW q \in Tracking(r), Base[r] + p = Base[r] + q PROVE p \in bmp[r]
  <2>1. p \in Int /\ q \in Int /\ Base[r] \in Int BY RangeFacts DEF Tracking
  <2>2. p = q BY <1>6, <2>1
  <2> QED BY <1>1, <2>2
<1> HIDE DEF All
<1>7. ASSUME NEW p \in All \ M, Base[r] + p \in Held \cup Kernel \cup AddressesOf(r, Tracking(r))
      PROVE  p \in bmp[r]
  BY <1>4, <1>5, <1>6, <1>7 DEF AddressesOf
<1> QED BY <1>1, <1>3, <1>7 DEF AddressesOf, All

(* At every pass of a loop the bits that are set are the image's, the      *)
(* tracking data's and those of what callers hold, and avail_pf has moved  *)
(* with them: nothing leaks (pfmgr_mark_bmp, pfmgr_clear_bmp,              *)
(* pfmgr_early_alloc_pf).                                                  *)
THEOREM BitsAreExact == Spec => []BitmapExact
<1>1. Inv => BitmapExact
  <2> SUFFICES ASSUME PInv, EInv, NEW r \in Ranges
               PROVE  LET moving == IF call.pc \in {"mark", "clear"} /\ call.r = r
                                    THEN call.pos .. call.pos + call.left - 1 ELSE {}
                      IN  /\ AddressesOf(r, bmp[r] \ moving) =
                               (Held \cup Kernel \cup AddressesOf(r, Tracking(r)))
                                 \cap AddressesOf(r, (0 .. Total[r] + Track[r] - 1) \ moving)
                          /\ avail[r] + Track[r] = Cardinality(Free(r))
    BY DEF Inv, BitmapExact
  <2> DEFINE moving == IF call.pc \in {"mark", "clear"} /\ call.r = r
                       THEN call.pos .. call.pos + call.left - 1 ELSE {}
  <2>1. moving = Moving(r) \cup Returning(r) BY DEF Moving, Returning
  <2> HIDE DEF moving
  <2>2. AddressesOf(r, bmp[r] \ moving) =
          (Held \cup Kernel \cup AddressesOf(r, Tracking(r)))
            \cap AddressesOf(r, (0 .. Total[r] + Track[r] - 1) \ moving)
    BY <2>1, ExactBits
  <2>3. avail[r] + Track[r] = Cardinality(Free(r)) BY DEF EInv, CountInv
  <2> QED BY <2>2, <2>3 DEF moving
<1> QED BY <1>1, Invariance, PTL

(* Nobody is turned away by _pfmgr_alloc while a usable range has more     *)
(* frames than its tracking data costs it.                                 *)
THEOREM FailsWhenEmpty == Spec => []FailsOnlyWhenEmpty
<1>1. Inv => FailsOnlyWhenEmpty BY DEF Inv, EInv, SearchInv, Spent, FailsOnlyWhenEmpty
<1> QED BY <1>1, Invariance, PTL

(* What a lookup returns is free, so that the marking that follows does    *)
(* not stop the processor (pfmgr_mark_bmp), and leaves the hint in its     *)
(* range, so that the next search does not either (_pfmgr_alloc).          *)
THEOREM LooksUpFree == Spec => []MarksWhatItHandsOut
<1>1. Inv => MarksWhatItHandsOut
  BY DEF Inv, PInv, EInv, Typed, CallType, MarkInv, MarksWhatItHandsOut, LookupReturnsFree
<1> QED BY <1>1, Invariance, PTL

(* A frame is given to one caller at a time and comes back from it: the    *)
(* allocator, pass by pass, implements Frames (_pfmgr_alloc, _pfmgr_free). *)
THEOREM HandsOutOnce == Spec => ImplementsFrames
<1>1. Init => FS!Init BY InitHolds
<1>2. Inv /\ [Next]_vars => [FS!Next \/ astray']_owned BY StepKeeps, AstrayStays DEF Inv
<1> QED BY <1>1, <1>2, Invariance, PTL DEF Spec, ImplementsFrames
===============================================================================
