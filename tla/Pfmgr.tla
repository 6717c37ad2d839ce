--------------------------------- MODULE Pfmgr ---------------------------------
(* The page frame manager, mm/pfmgr.c.  Memory is a list of ranges, each   *)
(* with a bitmap of its frames that is read and written an item (a machine *)
(* word) at a time.  Addresses and lengths are in frames.  A call runs     *)
(* under pfmgr_lock; it is taken apart into the passes of its loops, so    *)
(* that what the loops rely on can be stated.                              *)
EXTENDS Integers, FiniteSets

CONSTANTS
  Last,         \* the ranges are 1 .. Last, in the order of base.freer
  Base, Total,  \* of each range: its address and the frames it manages
  Track,        \* of each range: the frames of its header and bitmap, behind the others
  Item,         \* PF_PER_ITEM
  LowMemory,    \* LOW_MEMORY
  IsaEnd,       \* ISA_DMA_MEMORY_LENGTH
  Kernel,       \* the addresses of the kernel's image
  Wrap,         \* 2 to the width of phys_size_t
  MaxNeed       \* bound: the frames one caller needs

Ranges == 1 .. Last
Addresses == UNION {Base[r] .. Base[r] + Total[r] + Track[r] - 1 : r \in Ranges}

ASSUME RangeAssumption ==
  /\ Last \in Nat \ {0} /\ Item \in Nat \ {0} /\ LowMemory \in Nat /\ IsaEnd \in Nat /\ MaxNeed \in Nat
  /\ Base \in [Ranges -> Nat] /\ Total \in [Ranges -> Nat] /\ Track \in [Ranges -> Nat \ {0}]
  /\ \A r \in Ranges : Total[r] > Track[r]
  /\ \A r, s \in Ranges : r < s => Base[r] + Total[r] + Track[r] <= Base[s]

ASSUME WrapAssumption == Wrap \in Nat /\ \A r \in Ranges : Total[r] + Track[r] < Wrap

(* An address space begins and a DMA region ends at a multiple of what one *)
(* item covers, as they do on a PC.                                        *)
ASSUME IsaAligned == \A r \in Ranges : IsaEnd > Base[r] => (IsaEnd - Base[r]) % Item = 0

VARIABLES
  early,      \* pfmgr_interface still is pfmgr_early_alloc_pf
  bmp,        \* of each range: the positions whose bit is set
  avail,      \* avail_pf
  next,       \* next_lkup
  call,       \* the call under way: its place and its local variables
  owned,      \* history: of each address, how often callers have been given it
  astray      \* history: avail_pf has wrapped, or a lookup has passed over what it may not

vars == <<early, bmp, avail, next, call, owned, astray>>

Least(a, b) == IF a < b THEN a ELSE b
LeastOf(S) == CHOOSE x \in S : \A y \in S : x <= y

Idle == [pc |-> "idle", kind |-> "none", need |-> 0, req |-> 0, r |-> 0, pos |-> 0,
         start |-> 0, ret |-> 0, left |-> 0, again |-> FALSE, stop |-> FALSE]

(* pfmgr_init_free_callback: the image and the tracking data are marked,   *)
(* each mark counts as a frame less.                                       *)
Marked(r) == {p \in 0 .. Total[r] - 1 : Base[r] + p \in Kernel}

Tracking(r) == Total[r] .. Total[r] + Track[r] - 1

(* Neither takes a range up, so that marking never runs out of avail_pf    *)
(* (pfmgr_early_mark_bitmap).                                              *)
ASSUME RoomAssumption == \A r \in Ranges : Cardinality(Marked(r)) + Track[r] <= Total[r]

Init ==
  /\ early = TRUE
  /\ bmp = [r \in Ranges |-> Marked(r) \cup Tracking(r)]
  /\ avail = [r \in Ranges |-> Total[r] - Cardinality(Marked(r)) - Track[r]]
  /\ next = [r \in Ranges |-> 0]
  /\ call = Idle
  /\ owned = [a \in Addresses |-> 0] /\ astray = FALSE
-------------------------------------------------------------------------------
(* A single word at position p: its positions, and the ones that a mask of *)
(* n bits selects.  The mask is (1 << n) - 1 whatever the index of p is.   *)
Mask(p, n) == (p \div Item) * Item .. (p \div Item) * Item + n - 1
Word(p) == Mask(p, Item)

Usable(r) == Base[r] >= LowMemory

(* The owners of the addresses S, more or less by n.                       *)
Owned(S, n) == [a \in Addresses |-> owned[a] + IF a \in S THEN n ELSE 0]
Held == {a \in Addresses : owned[a] > 0}

(* pfmgr_early_alloc_pf: frame by frame from the first one, one callback   *)
(* for each, until the caller has what it needs.  A first range without a  *)
(* free frame ends the search as if the caller had said so.  avail_pf may  *)
(* be 0 while there still are clear bits: then it wraps.                   *)
EarlyFree(r) == {p \in 0 .. Total[r] - 1 : Base[r] + p >= IsaEnd /\ p \notin bmp[r]}

EarlyAlloc(need) ==
  LET usable == {r \in Ranges : Usable(r)}
      free == UNION {{r} \X EarlyFree(r) : r \in usable}
      before(x, y) == x[1] < y[1] \/ (x[1] = y[1] /\ x[2] < y[2])
      got == IF usable = {} \/ EarlyFree(LeastOf(usable)) = {} THEN {}
             ELSE {x \in free : Cardinality({y \in free : before(y, x)}) < need}
      in(r) == {x[2] : x \in {y \in got : y[1] = r}}
  IN  /\ early /\ need > 0
      /\ bmp' = [r \in Ranges |-> bmp[r] \cup in(r)]
      /\ avail' = [r \in Ranges |-> (avail[r] - Cardinality(in(r))) % Wrap]
      /\ astray' = (astray \/ \E r \in Ranges : Cardinality(in(r)) > avail[r])
      /\ owned' = Owned({Base[x[1]] + x[2] : x \in got}, 1)
      /\ UNCHANGED <<early, next, call>>

(* pfmgr_init                                                              *)
Switch ==
  /\ early /\ early' = FALSE
  /\ UNCHANGED <<bmp, avail, next, call, owned, astray>>
-------------------------------------------------------------------------------
(* _pfmgr_alloc.  A caller asks for one frame, or (PHYS_ALLOC_CB_STOP) for *)
(* as many as it says to be enough.                                        *)
AllocCall(kind, need) ==
  /\ ~early /\ call.pc = "idle"
  /\ kind = "one" => need = 1
  /\ call' = [Idle EXCEPT !.pc = "range", !.kind = kind, !.need = need, !.r = 1,
                          !.req = IF kind = "one" THEN 1 ELSE 0]
  /\ UNCHANGED <<early, bmp, avail, next, owned, astray>>

(* Faulty: the memory for ISA DMA is not skipped.                          *)
SkipIsa_Never(r, p) == p

(* Where a lookup begins: behind the memory for ISA DMA.                   *)
SkipIsa(r, p) == IF Base[r] + p < IsaEnd THEN IsaEnd - Base[r] ELSE p

Lookup(r, p) ==
  [call EXCEPT !.pc = "look", !.pos = SkipIsa(r, p), !.start = SkipIsa(r, p), !.ret = 0, !.stop = FALSE]

(* The loop over the ranges.                                               *)
Wanted(r) == IF call.req = 0 THEN avail[r] ELSE call.req

PassOver ==
  /\ call.pc = "range" /\ call.r <= Last /\ ~Usable(call.r)
  /\ call' = [call EXCEPT !.req = Wanted(call.r), !.r = @ + 1]
  /\ UNCHANGED <<early, bmp, avail, next, owned, astray>>

(* A hint behind the end of the range would stop the processor here        *)
(* (HintInRange).                                                          *)
Search ==
  LET r == call.r
      from == IF next[r] = Total[r] THEN 0 ELSE next[r]
  IN  /\ call.pc = "range" /\ r <= Last /\ Usable(r) /\ next[r] <= Total[r]
      /\ next' = [next EXCEPT ![r] = from]
      /\ call' = [Lookup(r, from) EXCEPT !.req = Wanted(r), !.again = FALSE]
      /\ UNCHANGED <<early, bmp, avail, owned, astray>>

Exhausted ==
  /\ call.pc = "range" /\ call.r > Last
  /\ call' = [call EXCEPT !.pc = "failed"]
  /\ UNCHANGED <<early, bmp, avail, next, owned, astray>>
-------------------------------------------------------------------------------
(* Faulty: the last frame of the range is never looked at.                 *)
Looking_Short ==
  /\ call.pc = "look" /\ avail[call.r] > 0 /\ ~call.stop
  /\ call.pos < Total[call.r] - 1 /\ call.req > call.ret /\ call.ret < avail[call.r]

(* pfmgr_lkup_bmp_for_free_pf                                              *)
Looking ==
  /\ call.pc = "look" /\ avail[call.r] > 0 /\ ~call.stop
  /\ call.pos < Total[call.r] /\ call.req > call.ret /\ call.ret < avail[call.r]

(* mask_frames                                                             *)
LookFrames == Least(Item - (call.pos % Item), Least(call.req - call.ret, avail[call.r] - call.ret))

LookHits == Mask(call.pos, LookFrames) \cap bmp[call.r]

LookFast ==
  /\ Looking /\ LookHits = {}
  /\ call' = [call EXCEPT !.start = IF call.ret = 0 THEN call.pos ELSE @,
                          !.ret = @ + LookFrames, !.pos = @ + LookFrames]
  /\ UNCHANGED <<early, bmp, avail, next, owned, astray>>

(* Faulty: a busy frame behind free ones does not end the lookup.          *)
LookSlow_GoesOn ==
  LET window == {p \in call.pos .. call.pos + LookFrames - 1 : p < Total[call.r]}
      clear == window \ bmp[call.r]
  IN  /\ Looking /\ LookHits # {} /\ ~(Word(call.pos) \subseteq bmp[call.r])
      /\ call' = [call EXCEPT !.start = IF call.ret = 0 /\ clear # {} THEN LeastOf(clear) ELSE @,
                              !.ret = @ + Cardinality(clear), !.pos = @ + Cardinality(window)]
      /\ UNCHANGED <<early, bmp, avail, next, owned, astray>>

(* Frame by frame.  A busy one behind free ones ends the lookup.           *)
LookSlow ==
  LET window == {p \in call.pos .. call.pos + LookFrames - 1 : p < Total[call.r]}
      end  == call.pos + Cardinality(window)
      busy == window \cap bmp[call.r]
      from == IF call.ret > 0 THEN call.pos
              ELSE IF window \subseteq busy THEN end ELSE LeastOf(window \ busy)
      cut  == {p \in busy : p >= from}
      to   == IF cut = {} THEN end ELSE LeastOf(cut)
  IN  /\ Looking /\ LookHits # {} /\ ~(Word(call.pos) \subseteq bmp[call.r])
      /\ call' = [call EXCEPT !.start = IF call.ret = 0 /\ to > from THEN from ELSE @,
                              !.ret = @ + (to - from), !.pos = to, !.stop = cut # {}]
      /\ UNCHANGED <<early, bmp, avail, next, owned, astray>>

(* A word with no clear bit: on by a whole word, wherever in it the        *)
(* position is and whatever has been found before.                         *)
LookFull ==
  /\ Looking /\ LookHits # {} /\ Word(call.pos) \subseteq bmp[call.r]
  /\ call' = [call EXCEPT !.pos = @ + Item]
  /\ astray' = (astray \/ call.ret > 0 \/ call.pos % Item # 0)
  /\ UNCHANGED <<early, bmp, avail, next, owned>>

(* Back in _pfmgr_alloc: nothing found, but the search did not begin at    *)
(* the beginning; nothing at all; frames for the callback.                 *)
LookAgain ==
  /\ call.pc = "look" /\ ~Looking /\ call.ret = 0 /\ next[call.r] > 0 /\ ~call.again
  /\ next' = [next EXCEPT ![call.r] = 0]
  /\ call' = [Lookup(call.r, 0) EXCEPT !.again = TRUE]
  /\ UNCHANGED <<early, bmp, avail, owned, astray>>

LookFailed ==
  /\ call.pc = "look" /\ ~Looking /\ call.ret = 0 /\ (next[call.r] = 0 \/ call.again)
  /\ call' = [call EXCEPT !.pc = "range", !.r = @ + 1]
  /\ UNCHANGED <<early, bmp, avail, next, owned, astray>>

(* The callback takes what it needs of the frames found; then they are     *)
(* marked.                                                                 *)
Used == Least(call.ret, call.need)
Run(r, p, n) == {Base[r] + q : q \in p .. p + n - 1}

Callback ==
  /\ call.pc = "look" /\ ~Looking /\ call.ret > 0
  /\ owned' = Owned(Run(call.r, call.start, Used), 1)
  /\ call' = [call EXCEPT !.pc = "mark", !.need = @ - Used, !.req = @ - Used,
                          !.pos = call.start, !.left = Used, !.ret = Used]
  /\ next' = [next EXCEPT ![call.r] = call.start + call.ret]
  /\ UNCHANGED <<early, bmp, avail, astray>>
-------------------------------------------------------------------------------
(* pfmgr_mark_bmp: the passes of its loop.                                 *)
Marking == call.pc = "mark" /\ call.left > 0 /\ call.pos < Total[call.r] /\ avail[call.r] > 0
MarkFrames == Least(Item - (call.pos % Item), Least(call.left, avail[call.r]))

MarkFast ==
  /\ Marking /\ Mask(call.pos, MarkFrames) \cap bmp[call.r] = {}
  /\ bmp' = [bmp EXCEPT ![call.r] = @ \cup Mask(call.pos, MarkFrames)]
  /\ avail' = [avail EXCEPT ![call.r] = @ - MarkFrames]
  /\ call' = [call EXCEPT !.pos = @ + MarkFrames, !.left = @ - MarkFrames]
  /\ UNCHANGED <<early, next, owned, astray>>

(* A frame that is marked already: the processor stops, with the lock held. *)
MarkSlow ==
  LET window == call.pos .. call.pos + MarkFrames - 1
      clear  == {p \in window : \A q \in call.pos .. p : q \notin bmp[call.r]}
  IN  /\ Marking /\ Mask(call.pos, MarkFrames) \cap bmp[call.r] # {}
      /\ bmp' = [bmp EXCEPT ![call.r] = @ \cup clear]
      /\ avail' = [avail EXCEPT ![call.r] = @ - Cardinality(clear)]
      /\ call' = [call EXCEPT !.pos = @ + Cardinality(clear), !.left = @ - Cardinality(clear),
                              !.pc = IF clear = window THEN "mark" ELSE "halted"]
      /\ UNCHANGED <<early, next, owned, astray>>

(* All marked: the call is over, or looks for more in the same range.  Not *)
(* all marked: it reports a failure.                                       *)
MarkDone ==
  /\ call.pc = "mark" /\ ~Marking
  /\ IF call.left > 0
     THEN call' = [call EXCEPT !.pc = "failed"] /\ UNCHANGED next
     ELSE /\ next' = [next EXCEPT ![call.r] = call.start + call.ret]
          /\ call' = IF call.need = 0 THEN Idle ELSE [call EXCEPT !.pc = "range"]
  /\ UNCHANGED <<early, bmp, avail, owned, astray>>

Fail ==
  /\ call.pc = "failed" /\ call' = Idle
  /\ UNCHANGED <<early, bmp, avail, next, owned, astray>>
-------------------------------------------------------------------------------
(* _pfmgr_free: the callback names a run of frames the caller has; each of *)
(* several runs is freed as one is.  pfmgr_addr_to_free_range finds their  *)
(* range.                                                                  *)
FreeCall(r, p, n) ==
  /\ ~early /\ call.pc = "idle" /\ n > 0 /\ Run(r, p, n) \subseteq Held
  /\ owned' = Owned(Run(r, p, n), -1)
  /\ call' = [Idle EXCEPT !.pc = "clear", !.kind = "free", !.r = r, !.pos = p, !.start = p, !.left = n]
  /\ UNCHANGED <<early, bmp, avail, next, astray>>

(* pfmgr_clear_bmp                                                         *)
Clearing ==
  /\ call.pc = "clear" /\ ~call.stop /\ call.left > 0
  /\ call.pos < Total[call.r] /\ avail[call.r] < Total[call.r]

ClearFrames == Least(Item - (call.pos % Item), Least(call.left, Total[call.r] - avail[call.r]))

(* Faulty: the word is cleared without looking at it.                      *)
ClearAtOnce_Always == TRUE

(* No bit of the word is set outside of the mask.                          *)
ClearAtOnce == Word(call.pos) \cap bmp[call.r] \subseteq Mask(call.pos, ClearFrames)

ClearFast ==
  /\ Clearing /\ ClearAtOnce
  /\ bmp' = [bmp EXCEPT ![call.r] = @ \ Mask(call.pos, ClearFrames)]
  /\ avail' = [avail EXCEPT ![call.r] = @ + ClearFrames]
  /\ call' = [call EXCEPT !.pos = @ + ClearFrames, !.left = @ - ClearFrames]
  /\ UNCHANGED <<early, next, owned, astray>>

ClearSlow ==
  LET window == call.pos .. call.pos + ClearFrames - 1
      set    == {p \in window : \A q \in call.pos .. p : q \in bmp[call.r]}
  IN  /\ Clearing /\ ~ClearAtOnce
      /\ bmp' = [bmp EXCEPT ![call.r] = @ \ set]
      /\ avail' = [avail EXCEPT ![call.r] = @ + Cardinality(set)]
      /\ call' = [call EXCEPT !.pos = @ + Cardinality(set), !.left = @ - Cardinality(set),
                              !.stop = set # window]
      /\ UNCHANGED <<early, next, owned, astray>>

ClearDone ==
  /\ call.pc = "clear" /\ ~Clearing
  /\ next' = [next EXCEPT ![call.r] = Least(@, call.start)]
  /\ call' = Idle
  /\ UNCHANGED <<early, bmp, avail, owned, astray>>
-------------------------------------------------------------------------------
Kinds == {"one", "stop"}

Next ==
  \/ \E need \in 1 .. MaxNeed : EarlyAlloc(need)
  \/ Switch
  \/ \E kind \in Kinds, need \in 0 .. MaxNeed : AllocCall(kind, need)
  \/ PassOver \/ Search \/ Exhausted \/ LookFast \/ LookSlow \/ LookFull
  \/ LookAgain \/ LookFailed \/ Callback \/ MarkFast \/ MarkSlow \/ MarkDone \/ Fail
  \/ \E r \in Ranges : \E p \in 0 .. Total[r] - 1, n \in 1 .. MaxNeed : FreeCall(r, p, n)
  \/ ClearFast \/ ClearSlow \/ ClearDone

Spec == Init /\ [][Next]_vars
-------------------------------------------------------------------------------
(* The properties.  They hold until avail_pf wraps (EarlyAlloc), which no  *)
(* frame of the range comes back from, or a lookup steps over a full word  *)
(* where it may not (LookFull), whose result need not be free.             *)

Free(r) == (0 .. Total[r] - 1) \ bmp[r]
Allocatable(r) == {p \in Free(r) : Base[r] + p >= IsaEnd}
AddressesOf(r, S) == {Base[r] + p : p \in S}

(* The bits that are set are the image's, the tracking data's and those of *)
(* the frames callers hold, at every pass of a loop: no frame leaks and    *)
(* none is free while somebody has it.  avail_pf, which every loop of the  *)
(* file counts with, is short of the clear bits by exactly the frames of   *)
(* the tracking data, which are subtracted although total_pf does not      *)
(* count them.                                                             *)
BitmapExact ==
  ~astray => \A r \in Ranges :
    LET moving == IF call.pc \in {"mark", "clear"} /\ call.r = r
                  THEN call.pos .. call.pos + call.left - 1 ELSE {}
    IN  /\ AddressesOf(r, bmp[r] \ moving) =
             (Held \cup Kernel \cup AddressesOf(r, Tracking(r)))
               \cap AddressesOf(r, (0 .. Total[r] + Track[r] - 1) \ moving)
        /\ avail[r] + Track[r] = Cardinality(Free(r))

(* Nobody is turned away while a range has more frames than its tracking   *)
(* data costs it.                                                          *)
FailsOnlyWhenEmpty ==
  ~astray /\ call.pc = "failed" =>
    \A r \in Ranges : Usable(r) => avail[r] = 0 \/ Allocatable(r) = {}

(* What a lookup returns is free ("looks for free pages"), so that the     *)
(* marking that follows finds no bit set and does not halt.  Nor does the  *)
(* next search ("next_lkup should not be bigger than total_fp"), though    *)
(* only the marks of the tracking data end a lookup at the end of a range. *)
LookupReturnsFree ==
  call.pc = "mark" => (call.pos .. call.pos + call.left - 1) \subseteq Free(call.r)

HintInRange == \A r \in Ranges : next[r] <= Total[r]

MarksWhatItHandsOut == ~astray => LookupReturnsFree /\ call.pc # "halted" /\ HintInRange

(* Frames are given to one caller at a time, and come back from it.        *)
FS == INSTANCE Frames WITH
  Frame <- Addresses, Allowed <- {a \in Addresses : a >= IsaEnd}, out <- owned
ImplementsFrames == FS!Init /\ [][FS!Next \/ astray']_owned
===============================================================================
