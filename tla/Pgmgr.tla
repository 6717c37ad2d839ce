--------------------------------- MODULE Pgmgr ---------------------------------
(* arch/x86_64/src/pgmgr.c: the page tables, and the walk that builds and  *)
(* empties them.  The walk is called back by the page frame manager with   *)
(* the frames it has found, and may be left and entered again at any       *)
(* entry.  A step is a pass of the walk's loop, a level it goes up, or a   *)
(* return to its caller; a call of mm/vm.c, which holds the lock of the    *)
(* context, is a sequence of walks.  Addresses and lengths are in pages.   *)
EXTENDS Integers, FiniteSets

CONSTANTS
  MaxLevel,   \* max_level
  Fanout,     \* PGMGR_ENTRIES_PER_LEVEL
  Last,       \* the page frame manager has the frames 1 .. Last
  Root,       \* pg_phys
  Device,     \* where what vm_map maps begins
  Ranges,     \* the ranges that are asked for
  MaxGrants   \* bound: the ranges in use at a time

Index == 0 .. Fanout - 1

(* PGMGR_LEVEL_TO_STEP: the pages behind an entry of a table of the level. *)
Step[l \in 1 .. MaxLevel + 1] == IF l = 1 THEN 1 ELSE Fanout * Step[l - 1]
Pages == 0 .. Step[MaxLevel + 1] - 1

Frame == 1 .. Last
Levels == 1 .. MaxLevel
Absent == 0     \* an entry that is not present; the first frame of memory

ASSUME PgmgrAssumption ==
  /\ MaxLevel \in Nat /\ MaxLevel > 2 /\ Fanout \in Nat /\ Fanout > 1 /\ Last \in Nat
  /\ Root \in Nat /\ Root > Last + 1 /\ Device \in Nat /\ Device > Root
  /\ Ranges \subseteq [base : Nat, len : Nat \ {0}]
  /\ \A r \in Ranges : r.base .. r.base + r.len - 1 \subseteq Pages

VARIABLES
  mem,      \* of each frame: its words, which are entries where it is a table
  readonly, \* the entries without PAGE_WRITABLE, as table and index
  busy,     \* the frames that the page frame manager has marked
  walk,     \* pgmgr_level_data, pfmgr_cb_data, and the place in the walk
  call,     \* the call of vm.c under way
  grants,   \* the ranges that are allocated or mapped
  unfit     \* history: a build has failed, or a release was left two levels up

vars == <<mem, readonly, busy, walk, call, grants, unfit>>
tables == <<mem, readonly>>

Clear == [i \in Index |-> Absent]
Dirty == [i \in Index |-> 1]     \* what owners leave in their pages

(* Of a walk: what it is for, its range (which begins at a step of its     *)
(* level), how far it is, its level, the tables that the remapping windows *)
(* of the levels show, the frames it has been given or has collected.      *)
NoWalk == [pc |-> "none", kind |-> "none", base |-> 0, len |-> 0, off |-> 0, level |-> MaxLevel,
           window |-> [l \in Levels |-> Root], first |-> 0, used |-> 0, avail |-> 0, st |-> 0]
NoCall == [kind |-> "none", stage |-> "none", base |-> 0, len |-> 0]

Init ==
  /\ mem = [f \in Frame \cup {Root} |-> IF f = Root THEN Clear ELSE Dirty]
  /\ readonly = {} /\ busy = {}
  /\ walk = NoWalk /\ call = NoCall
  /\ grants = {} /\ unfit = FALSE
-------------------------------------------------------------------------------
IndexOf(p, l) == (p \div Step[l]) % Fanout

Builds(kind) == kind \in {"tables", "pages", "map"}
ReqLevel(kind) == IF kind \in {"tables", "untable"} THEN 2 ELSE 1
Here == walk.base + walk.off
Behind == Here + Step[ReqLevel(walk.kind)]   \* next_vaddr

Table(l) == walk.window[l]
Entry(l) == mem[Table(l)][IndexOf(Here, l)]

(* PGMGR_FILL_LEVEL: a walk that builds or drops tables begins at a table. *)
Begun(kind, base, len) ==
  LET at == base - (base % Step[ReqLevel(kind)])
  IN  [NoWalk EXCEPT !.pc = "enter", !.kind = kind, !.base = at, !.len = len + (base - at)]

(* A run of frames that the page frame manager finds: from a free one up   *)
(* to the next that is not.  It calls the walk back with it.               *)
RunFrom(f) == f .. (CHOOSE g \in f .. Last : (f .. g) \cap busy = {} /\ (g = Last \/ g + 1 \in busy))

EnterWith(f) ==
  /\ walk.pc = "enter" /\ walk.kind \in {"tables", "pages"} /\ f \in Frame \ busy
  /\ walk' = [walk EXCEPT !.pc = "loop", !.first = f, !.used = 0, !.avail = Cardinality(RunFrom(f))]
  /\ UNCHANGED <<tables, busy, call, grants, unfit>>

NoFrames ==
  /\ walk.pc = "enter" /\ walk.kind \in {"tables", "pages"} /\ busy = Frame
  /\ walk' = [walk EXCEPT !.pc = "end", !.st = -1]
  /\ UNCHANGED <<tables, busy, call, grants, unfit>>

(* Faulty: what was collected before is still noted.                       *)
Enter_Stale ==
  /\ walk.pc = "enter" /\ walk.kind \notin {"tables", "pages"}
  /\ walk' = [walk EXCEPT !.pc = "loop", !.avail = walk.len,
                          !.first = IF walk.kind = "map" THEN Device ELSE @]
  /\ UNCHANGED <<tables, busy, call, grants, unfit>>

(* The frames to map are those of a device; the others need none.          *)
Enter ==
  /\ walk.pc = "enter" /\ walk.kind \notin {"tables", "pages"}
  /\ walk' = [walk EXCEPT !.pc = "loop", !.used = 0, !.avail = walk.len,
                          !.first = IF walk.kind = "map" THEN Device ELSE 0]
  /\ UNCHANGED <<tables, busy, call, grants, unfit>>
-------------------------------------------------------------------------------
(* pgmgr_iterate_levels.  Where it is left: at the end, for want of frames *)
(* (PGMGR_CB_RES_CHECK), or by what an entry is.                           *)
Return(w, st) == walk' = [w EXCEPT !.pc = "return", !.st = st]

Done ==
  /\ walk.pc = "loop" /\ walk.off >= walk.len
  /\ Return(walk, 0)
  /\ UNCHANGED <<tables, busy, call, grants, unfit>>

Short == Builds(walk.kind) /\ walk.avail <= walk.used
OutOfFrames ==
  /\ walk.pc = "loop" /\ walk.off < walk.len /\ Short
  /\ Return(walk, 1)
  /\ UNCHANGED <<tables, busy, call, grants, unfit>>

Goes == walk.pc = "loop" /\ walk.off < walk.len /\ ~Short

(* A frame becomes a table: it is cleared first.                           *)
NextFrame == walk.first + walk.used
NewTable(l) == [mem EXCEPT ![Table(l)][IndexOf(Here, l)] = NextFrame, ![NextFrame] = Clear]

(* Faulty: the table is not cleared.                                       *)
Descend_Dirty ==
  LET l == walk.level
      down(f) == [walk EXCEPT !.level = l - 1, !.window[l - 1] = f]
  IN  /\ Goes /\ l > ReqLevel(walk.kind)
      /\ \/ Entry(l) # Absent /\ walk' = down(Entry(l)) /\ mem' = mem
         \/ /\ Entry(l) = Absent /\ walk.kind = "tables"
            /\ mem' = [mem EXCEPT ![Table(l)][IndexOf(Here, l)] = NextFrame]
            /\ walk' = [down(NextFrame) EXCEPT !.used = @ + 1]
      /\ UNCHANGED <<readonly, busy, call, grants, unfit>>

(* PGMGR_CB_LEVEL_GO_DOWN                                                  *)
Descend ==
  LET l == walk.level
      down(f) == [walk EXCEPT !.level = l - 1, !.window[l - 1] = f]
  IN  /\ Goes /\ l > ReqLevel(walk.kind)
      /\ \/ Entry(l) # Absent /\ walk' = down(Entry(l)) /\ mem' = mem
         \/ /\ Entry(l) = Absent /\ walk.kind = "tables"
            /\ mem' = NewTable(l)
            /\ walk' = [down(NextFrame) EXCEPT !.used = @ + 1]
      /\ UNCHANGED <<readonly, busy, call, grants, unfit>>

(* There is no table where one must be.  A walk that has collected frames  *)
(* goes on, in the first frame of memory ("astray").                       *)
Missing ==
  /\ Goes /\ walk.level > ReqLevel(walk.kind) /\ Entry(walk.level) = Absent /\ walk.kind # "tables"
  /\ IF walk.kind = "untable" /\ walk.used > 0 THEN walk' = [walk EXCEPT !.pc = "astray"] ELSE Return(walk, -1)
  /\ UNCHANGED <<tables, busy, call, grants, unfit>>
-------------------------------------------------------------------------------
(* PGMGR_CB_DO_REQUEST and PGMGR_CB_NEXT_ENTRY.  Behind the last entry of  *)
(* a table the walk goes up; when it empties tables, also at its end.      *)
Onward(w) == [w EXCEPT !.pc = "loop", !.off = @ + Step[ReqLevel(w.kind)]]

(* Faulty: only behind the last entry.                                     *)
Leaves_Behind(l) == IndexOf(Behind, l) < IndexOf(Here, l)

Leaves(l) ==
  \/ IndexOf(Behind, l) < IndexOf(Here, l)
  \/ walk.kind = "untable" /\ walk.off + Step[l] >= walk.len
Moved(w, l) == IF Leaves(l) THEN [w EXCEPT !.pc = "up"] ELSE Onward(w)

(* Faulty: the run grows to the left from where it is.                     *)
With_Fixed(f) == [walk EXCEPT !.used = @ + 1, !.first = IF walk.used = 0 THEN f ELSE @]

(* The frame of an entry joins those collected, if it adjoins them, and    *)
(* the entry is cleared.                                                   *)
Adjoins(f) == walk.used = 0 \/ f = walk.first + walk.used \/ f + 1 = walk.first
With(f) == [walk EXCEPT !.used = @ + 1, !.first = IF walk.used = 0 \/ f + 1 = @ THEN f ELSE @]
Cleared(l) ==
  /\ mem' = [mem EXCEPT ![Table(l)][IndexOf(Here, l)] = Absent]
  /\ readonly' = readonly \ {<<Table(l), IndexOf(Here, l)>>}

(* Faulty: no look at the table's entries.                                 *)
Empty_Unseen(f) == f # Absent

(* pgmgr_level_entry_is_empty; the first frame of memory is not.           *)
Empty(f) == f # Absent /\ mem[f] = Clear

Request(l) == Goes /\ l = ReqLevel(walk.kind) /\ walk.level = l

Build ==
  /\ Request(2) /\ walk.kind = "tables"
  /\ IF Entry(2) = Absent THEN mem' = NewTable(2) /\ walk' = Moved([walk EXCEPT !.used = @ + 1], 2)
                          ELSE mem' = mem /\ walk' = Moved(walk, 2)
  /\ UNCHANGED <<readonly, busy, call, grants, unfit>>

(* A page that is present is passed over.  Its owner writes to a new one.  *)
Fill ==
  /\ Request(1) /\ walk.kind \in {"pages", "map"}
  /\ IF Entry(1) = Absent
     THEN /\ mem' = [f \in DOMAIN mem |-> IF f = NextFrame THEN Dirty
                                           ELSE IF f = Table(1) THEN [mem[f] EXCEPT ![IndexOf(Here, 1)] = NextFrame]
                                           ELSE mem[f]]
          /\ walk' = Moved([walk EXCEPT !.used = @ + 1], 1)
     ELSE mem' = mem /\ walk' = Moved(walk, 1)
  /\ UNCHANGED <<readonly, busy, call, grants, unfit>>

Wanted == CASE walk.kind = "unpage"  -> Entry(1) # Absent
            [] walk.kind = "unmap"   -> Entry(1) # Absent
            [] walk.kind = "untable" -> Empty(Entry(2))
            [] OTHER -> FALSE

Drop(l) ==
  /\ Request(l) /\ Wanted /\ Adjoins(Entry(l))
  /\ Cleared(l) /\ walk' = Moved(With(Entry(l)), l)
  /\ UNCHANGED <<busy, call, grants, unfit>>

(* PGMGR_CB_BREAK: what has been collected goes first.                     *)
Break(l) ==
  /\ Request(l) /\ Wanted /\ ~Adjoins(Entry(l))
  /\ Return(walk, 1)
  /\ UNCHANGED <<tables, busy, call, grants, unfit>>

Pass(l) ==
  /\ Request(l) /\ walk.kind \in {"unpage", "unmap", "untable"} /\ ~Wanted
  /\ walk' = Moved(walk, l)
  /\ UNCHANGED <<tables, busy, call, grants, unfit>>

Protect ==
  /\ Request(1) /\ walk.kind = "attr"
  /\ readonly' = IF Entry(1) # Absent THEN readonly \cup {<<Table(1), IndexOf(Here, 1)>>} ELSE readonly
  /\ walk' = Moved(walk, 1)
  /\ UNCHANGED <<mem, busy, call, grants, unfit>>
-------------------------------------------------------------------------------
(* The way up, a level at a time (PGMGR_CB_LEVEL_GO_UP), as far as a table *)
(* where the next address has an entry, or up to the root.  A table that   *)
(* is left empty is dropped.  When the walk is left two levels up, it does *)
(* not find the table below that it has dropped, and fails.                *)
Up == walk.level + 1
Arrived(l) ==
  \/ l = MaxLevel
  \/ IndexOf(Behind, l) > IndexOf(Here, l) /\ mem[Table(l)][IndexOf(Behind, l)] # Absent
Raised(w) == IF Arrived(Up) THEN Onward([w EXCEPT !.level = Up]) ELSE [w EXCEPT !.level = Up]

Spent == walk.kind = "untable" /\ Empty(Entry(Up))

Rise ==
  /\ walk.pc = "up" /\ ~Spent
  /\ walk' = Raised(walk)
  /\ UNCHANGED <<tables, busy, call, grants, unfit>>

RiseAndDrop ==
  /\ walk.pc = "up" /\ Spent /\ Adjoins(Entry(Up))
  /\ Cleared(Up) /\ walk' = Raised(With(Entry(Up)))
  /\ UNCHANGED <<busy, call, grants, unfit>>

RiseAndBreak ==
  /\ walk.pc = "up" /\ Spent /\ ~Adjoins(Entry(Up))
  /\ Return([walk EXCEPT !.level = Up], 1)
  /\ unfit' = (unfit \/ Up > ReqLevel(walk.kind) + 1)
  /\ UNCHANGED <<tables, busy, call, grants>>
-------------------------------------------------------------------------------
(* The return to _pfmgr_alloc, which marks what has been used unless the   *)
(* walk has failed, to _pfmgr_free, or to a loop in pgmgr.c; and on with   *)
(* the walk, or to its end.                                                *)
Handled == walk.first .. walk.first + walk.used - 1

Back ==
  /\ walk.pc = "return"
  /\ busy' = IF walk.st < 0 THEN busy
             ELSE IF walk.kind \in {"tables", "pages"} THEN busy \cup Handled
             ELSE IF walk.kind \in {"untable", "unpage"} THEN busy \ Handled
             ELSE busy
  /\ walk' = [walk EXCEPT !.pc = IF walk.st > 0 THEN "enter" ELSE "end"]
  /\ UNCHANGED <<tables, call, grants, unfit>>

(* An empty range is never walked, and error keeps its first value.        *)
Failed == walk.st < 0 \/ walk.len = 0
-------------------------------------------------------------------------------
(* mm/vm.c: which walks a call makes.  A bound: once unfit, none begins.   *)
PagesOf(r) == r.base .. r.base + r.len - 1
Used == UNION {PagesOf(g) : g \in grants}

Called(kind, first, r) ==
  /\ call.kind = "none" /\ ~unfit
  /\ call' = [kind |-> kind, stage |-> "do", base |-> r.base, len |-> r.len]
  /\ walk' = Begun(first, r.base, r.len)
  /\ UNCHANGED <<tables, busy, unfit>>

Available(r) == PagesOf(r) \cap Used = {} /\ Cardinality(grants) < MaxGrants

VmAlloc(r) == Available(r) /\ Called("alloc", "tables", r) /\ UNCHANGED grants
VmMap(r)   == Available(r) /\ Called("map", "tables", r) /\ UNCHANGED grants
VmFree(g)  == g.kind = "alloc" /\ Called("free", "unpage", g) /\ grants' = grants \ {g}
VmUnmap(g) == g.kind = "map" /\ Called("unmap", "unmap", g) /\ grants' = grants \ {g}

(* Part of a range becomes read-only: the range, or its last page.         *)
Parts(g) == {[base |-> a, len |-> g.base + g.len - a] : a \in {g.base, g.base + g.len - 1}}
VmChangeAttr(g, r) ==
  /\ g.kind = "alloc" /\ r \in Parts(g) /\ ~(PagesOf(r) \subseteq g.readonly)
  /\ Called("attr", "attr", r)
  /\ grants' = (grants \ {g}) \cup {[g EXCEPT !.readonly = @ \cup PagesOf(r)]}

(* The next walk of the call, or the end of the call.  Mapping does not    *)
(* fail once the tables are there, and takes no frames.                    *)
Then(kind, stage, len) ==
  /\ walk' = Begun(kind, call.base, len)
  /\ call' = [call EXCEPT !.stage = stage]
  /\ UNCHANGED <<tables, busy, grants>>

Finished(more) ==
  /\ walk' = NoWalk /\ call' = NoCall /\ grants' = grants \cup more
  /\ UNCHANGED <<tables, busy>>

Halted == /\ walk' = [walk EXCEPT !.pc = "halt"]
          /\ UNCHANGED <<tables, busy, call, grants, unfit>>

Granted == {[base |-> call.base, len |-> call.len, kind |-> call.kind, readonly |-> {}]}
Ended(kind, stage) == walk.pc = "end" /\ walk.kind = kind /\ call.stage = stage

TablesBuilt == /\ Ended("tables", "do") /\ ~Failed /\ UNCHANGED unfit
               /\ Then(IF call.kind = "map" THEN "map" ELSE "pages", "do", call.len)
TablesNotBuilt == /\ Ended("tables", "do") /\ Failed /\ unfit' = TRUE
                  /\ Then("untable", "partial", walk.off)
PagesFilled == /\ (Ended("pages", "do") \/ Ended("map", "do")) /\ ~Failed /\ UNCHANGED unfit
               /\ Finished(Granted)
PagesNotFilled == /\ Ended("pages", "do") /\ Failed /\ UNCHANGED unfit
                  /\ Then("unpage", "undo", walk.off)
PagesUndone == /\ Ended("unpage", "undo") /\ ~Failed /\ UNCHANGED unfit
               /\ Then("untable", "undo", call.len)
AllUndone == /\ \/ Ended("untable", "undo") /\ ~Failed
                \/ Ended("untable", "partial")
             /\ UNCHANGED unfit /\ Finished({})
UndoFails == /\ (Ended("unpage", "undo") \/ Ended("untable", "undo")) /\ Failed
             /\ Halted
PagesDropped == /\ (Ended("unpage", "do") \/ Ended("unmap", "do")) /\ ~Failed /\ UNCHANGED unfit
                /\ Then("untable", "do", call.len)
TablesDropped == Ended("untable", "do") /\ UNCHANGED unfit /\ Finished({})
Protected == Ended("attr", "do") /\ ~Failed /\ UNCHANGED unfit /\ Finished({})

(* A call holds the lock of the context and goes on.                       *)
Walk ==
  \/ (\E f \in Frame : EnterWith(f)) \/ NoFrames \/ Enter
  \/ Done \/ OutOfFrames \/ Descend \/ Missing
  \/ Build \/ Fill \/ Protect \/ (\E l \in {1, 2} : Drop(l) \/ Break(l) \/ Pass(l))
  \/ Rise \/ RiseAndDrop \/ RiseAndBreak \/ Back
Vm ==
  \/ TablesBuilt \/ TablesNotBuilt \/ PagesFilled \/ PagesNotFilled \/ PagesUndone
  \/ AllUndone \/ UndoFails \/ PagesDropped \/ TablesDropped \/ Protected

Next ==
  \/ Walk \/ Vm
  \/ \E r \in Ranges : VmAlloc(r) \/ VmMap(r)
  \/ \E g \in grants : VmFree(g) \/ VmUnmap(g) \/ \E r \in Parts(g) : VmChangeAttr(g, r)

Spec == Init /\ [][Next]_vars
FairSpec == Spec /\ WF_vars(Walk \/ Vm)
-------------------------------------------------------------------------------
(* The tables of each level, from the root down, and their entries.        *)
TablesAt[l \in Levels] ==
  IF l = MaxLevel THEN {Root}
  ELSE {mem[t][i] : t \in TablesAt[l + 1], i \in Index} \ {Absent}
Entries == UNION {TablesAt[l] \X Index : l \in Levels}
Refs(f) == Cardinality({e \in Entries : mem[e[1]][e[2]] = f})

(* What a processor finds at a page.                                       *)
Found[l \in 0 .. MaxLevel] ==
  [p \in Pages |-> IF l = MaxLevel THEN Root
                   ELSE LET t == Found[l + 1][p] IN IF t = Absent THEN Absent ELSE mem[t][IndexOf(p, l + 1)]]
At(p) == Found[0][p]

Writable(p) == <<Found[1][p], IndexOf(p, 1)>> \notin readonly

(* A frame is marked exactly if one entry of the tables refers to it, and  *)
(* none is referred to twice; under way, those apart that the walk has     *)
(* been given and has used, or has collected and not yet returned.  So no  *)
(* frame is lost or handed out twice, however scattered the frames are and *)
(* wherever the walk is left (pgmgr.c:380-430, pfmgr.c:1040).              *)
UnderWay(kinds) == IF walk.kind \in kinds /\ walk.pc \in {"loop", "up", "return"} THEN Handled ELSE {}

FramesExact == walk.pc # "astray" => \A f \in Frame :
  Refs(f) = IF f \in (busy \ UnderWay({"untable", "unpage"})) \cup UnderWay({"tables", "pages"}) THEN 1 ELSE 0

(* A processor finds every page that is allocated in a frame, every page   *)
(* that is mapped at its place on the device, each with its attributes,    *)
(* and no other page outside the range that is being changed.              *)
Backed == \A p \in Pages :
  /\ \A g \in grants : p \in PagesOf(g) =>
       /\ IF g.kind = "map" THEN At(p) = Device + p - g.base ELSE At(p) \in Frame
       /\ p \notin PagesOf(call) => (Writable(p) <=> p \notin g.readonly)
  /\ p \notin Used \cup PagesOf(call) => At(p) = Absent

(* Between calls no table is empty: what a call has built and no longer    *)
(* needs is dropped with its last page, at every level (pgmgr.c:371).      *)
NoEmptyTable == (call.kind = "none" /\ ~unfit) =>
  \A l \in 1 .. MaxLevel - 1 : \A t \in TablesAt[l] : ~Empty(t)

(* What has been built can be released: the callers, which stop for good   *)
(* otherwise, stop only when not a single page was to be had (vm.c:545).   *)
ReleaseWorks == ~unfit =>
  /\ walk.pc # "astray"
  /\ walk.pc = "halt" => walk.len = 0
  /\ walk.pc = "end" /\ walk.kind \in {"untable", "unpage", "unmap"} /\ walk.len > 0 => walk.st = 0

(* Every call comes to an end: a walk that is left makes progress when it  *)
(* is entered again.                                                       *)
Ends == walk.pc # "none" ~> walk.pc \in {"none", "halt", "astray"}
===============================================================================
