-------------------------------- MODULE VmSpace --------------------------------
(* mm/vm_space.c and the slots of mm/vm_extent.c, for the kernel's context *)
(* (nobody makes another one).  The lists take their memory from the space *)
(* they describe: a new slot is a page of the free list, which becomes an  *)
(* extent of the allocated list.                                           *)
(*                                                                         *)
(* A space is a record of the two lists and the page table.  An operation  *)
(* is an operator from a space to a space, a status, and whether it has    *)
(* gone wrong ("mishap") in one of the three ways of the code below.  ok   *)
(* says for which list a page can be had when a slot is needed.            *)
EXTENDS VmExtent

CONSTANTS
  FreePerSlot, AllocPerSlot,  \* free_per_slot, alloc_per_slot
  NoPage                      \* the page is not present

(* A slot is a page and holds many extents: at least the two regions in    *)
(* the first free one, and in an allocated one its own page and another.   *)
ASSUME SlotAssumption == FreePerSlot \in Nat \ {0, 1} /\ AllocPerSlot \in Nat \ {0, 1}

HasRoom(q, e) == e.len = 0 \/ Roomy(q) # {} \/ Joinable(q, e)
Header(at, size) == [at |-> at, size |-> size, busy |-> <<>>]
-------------------------------------------------------------------------------
(* A slot is the last page of the extent it is taken from.                 *)
SlotPage(e) == e.base + e.len - 1
Slot(e) == [base |-> SlotPage(e), len |-> 1, prot |-> {"W"},
            flags |-> {"ALLOCATED", "PERMANENT", "HIGH", "LOCKED"}]

WithHeader(q, list, to, page) ==
  IF list # to THEN q
  ELSE Append(q, Header(page, IF list = "free" THEN FreePerSlot ELSE AllocPerSlot))

(* Faulty: the slot's page is not noted as allocated.                      *)
TakeSlot_Unnoted(s, list, r) ==
  [free  |-> Insert(WithHeader(r.q, "free", list, SlotPage(r.ext)), [r.ext EXCEPT !.len = @ - 1]).q,
   alloc |-> WithHeader(s.alloc, "alloc", list, SlotPage(r.ext)),
   tab   |-> [s.tab EXCEPT ![SlotPage(r.ext)] = {"W"}]]

TakeSlot(s, list, r) ==
  [free  |-> Insert(WithHeader(r.q, "free", list, SlotPage(r.ext)), [r.ext EXCEPT !.len = @ - 1]).q,
   alloc |-> Insert(WithHeader(s.alloc, "alloc", list, SlotPage(r.ext)), Slot(r.ext)).q,
   tab   |-> [s.tab EXCEPT ![SlotPage(r.ext)] = {"W"}]]

(* vm_extent_alloc_tracking, where r is the free extent that fits best.    *)
Untouched(s, r) == [s EXCEPT !.free = Insert(r.q, r.ext).q]

TrackIn(s, list, ok, r) ==
  IF r.st # "OK" THEN [st |-> "NOMEM", s |-> s]
  ELSE IF list = "free" /\ ~HasRoom(s.alloc, Slot(r.ext))
  THEN [st |-> "NOENT", s |-> Untouched(s, r)]
  ELSE IF ~ok[list] THEN [st |-> "FAIL", s |-> Untouched(s, r)]
  ELSE [st |-> "OK", s |-> TakeSlot(s, list, r)]

AllocTracking(s, list, ok) ==
  TrackIn(s, list, ok, Extract(s.free, [base |-> BaseAuto, len |-> 1, flags |-> {"HIGH"}, prot |-> {}]))

(* vm_extent_alloc_slot: if there is nowhere to note the slot's own page,  *)
(* a slot for the allocated list comes first.                              *)
SlotAfter(two, list, ok) == IF two.st # "OK" THEN two ELSE AllocTracking(two.s, list, ok)
SlotOr(one, list, ok) ==
  IF one.st # "NOENT" THEN one ELSE SlotAfter(AllocTracking(one.s, "alloc", ok), list, ok)
AllocSlot(s, list, ok) == SlotOr(AllocTracking(s, list, ok), list, ok)

(* vm_space_undo: the parts come out of their lists and go back as one.    *)
(* It refuses when a split without a left part has moved the right one.    *)
RightPart(q, right) == IF right.len > 0 THEN Extract(q, right) ELSE [q |-> q, ext |-> right]
Rejoined(m, l, r) == Insert(r.q, [l.ext EXCEPT !.len = @ + m.ext.len + r.ext.len])
Reunite(m, l, c) == [from |-> m.q, into |-> Rejoined(m, l, RightPart(l.q, c.right))]

Undo(from, to, c) ==
  IF c.left.base + c.left.len > c.mid.base
     \/ (c.right.len > 0 /\ c.mid.base + c.mid.len > c.right.base)
  THEN [from |-> from, into |-> [st |-> "FAIL", q |-> to]]
  ELSE Reunite(Extract(from, c.mid), Extract(to, c.left), c)

(* The three parts of an extent, the middle being what is asked for.       *)
Parts(p, mid) == [left |-> p.left, mid |-> mid, right |-> p.right]
Cut(e, mid) == Parts(Split(e, mid.base, mid.len), mid)
-------------------------------------------------------------------------------
(* vm_space_alloc, from its end.  What has been allocated is noted, where  *)
(* a slot may be needed; a failure is undone, where the undo may refuse    *)
(* (mishap).                                                               *)
Refused(t, u, wrong) ==
  [addr |-> BaseAuto, s |-> [t EXCEPT !.alloc = u.from, !.free = u.into.q], mishap |-> wrong \/ u.into.st # "OK"]
AllocUndone(t, c, wrong) == Refused(t, Undo(t.alloc, t.free, c), wrong)

Noted(t, c, i, wrong) ==
  IF i.st = "OK" THEN [addr |-> c.mid.base, s |-> [t EXCEPT !.alloc = i.q], mishap |-> wrong]
  ELSE AllocUndone(t, c, wrong)
NoteInSlot(slot, c, wrong) == Noted(slot.s, c, Insert(slot.s.alloc, c.mid), wrong)

NoteTaken(t, c, wrong, ok) ==
  IF HasRoom(t.alloc, c.mid) THEN Noted(t, c, Insert(t.alloc, c.mid), wrong)
  ELSE NoteInSlot(AllocSlot(t, "alloc", ok), c, wrong)

(* The right part stays free.  Without room for it a slot is added, and    *)
(* then the left part is inserted once more, in its place (mishap).        *)
InSlot(more, c) ==
  IF more.st = "OK" THEN [more EXCEPT !.s.free = Insert(@, c.left).q] ELSE more
KeptRight(k, c, wrong, ok) == IF k.st = "OK" THEN NoteTaken(k.s, c, wrong, ok) ELSE AllocUndone(k.s, c, FALSE)

KeepRight(t, c, ok) ==
  IF HasRoom(t.free, c.right)
  THEN NoteTaken([t EXCEPT !.free = Insert(@, c.right).q], c, FALSE, ok)
  ELSE KeptRight(InSlot(AllocSlot(t, "free", ok), c), c, TRUE, ok)

Wanted(addr, flags) ==
  IF addr = BaseAuto /\ flags \cap {"LOW", "HIGH"} = {} THEN flags \cup {"HIGH"} ELSE flags
Middle(e, addr, len, flags, prot) ==
  [base |-> IF addr = BaseAuto THEN e.base ELSE addr, len |-> len,
   flags |-> (flags \ {"LOW", "HIGH"}) \cup Region(e), prot |-> prot]

KeepLeft(s, q, c, ok) == KeepRight([s EXCEPT !.free = Insert(q, c.left).q], c, ok)
AllocFrom(s, r, addr, len, flags, prot, ok) ==
  IF r.st # "OK" THEN [addr |-> BaseAuto, s |-> s, mishap |-> FALSE]
  ELSE KeepLeft(s, r.q, Cut(r.ext, Middle(r.ext, addr, len, flags, prot)), ok)

SpaceAlloc(s, addr, len, flags, prot, ok) ==
  AllocFrom(s, Extract(s.free, [base |-> addr, len |-> len, prot |-> {},
                                flags |-> Wanted(addr, flags) \cap {"LOW", "HIGH"}]),
            addr, len, flags, prot, ok)
-------------------------------------------------------------------------------
(* vm_space_free, from its end as well: the middle becomes free.  Mishap:  *)
(* a failure that was undone is reported as success.                       *)
FreeResult(st, t, e, wrong) == [st |-> st, s |-> t, ext |-> e, mishap |-> wrong]
Withdrawn(t, u, e) == FreeResult(u.into.st, [t EXCEPT !.free = u.from, !.alloc = u.into.q], e, TRUE)
FreeUndone(t, c, e) == Withdrawn(t, Undo(t.free, t.alloc, c), e)

FreeInSlot(slot, c, e) ==
  IF slot.st = "OK" THEN FreeResult("OK", [slot.s EXCEPT !.free = Insert(@, c.mid).q], e, FALSE)
  ELSE FreeUndone(slot.s, c, e)

NoteFree(t, c, e, ok) ==
  IF HasRoom(t.free, c.mid) THEN FreeResult("OK", [t EXCEPT !.free = Insert(@, c.mid).q], e, FALSE)
  ELSE FreeInSlot(AllocSlot(t, "free", ok), c, e)

(* Faulty: the rest is dropped when there is no room for it.               *)
KeepRest_Drops(t, c, e, ok) == NoteFree([t EXCEPT !.alloc = Insert(@, c.right).q], c, e, ok)

(* The rest of the extent stays allocated.                                 *)
RestInSlot(more, c) ==
  IF more.st = "OK" THEN [more EXCEPT !.s.alloc = Insert(@, c.right).q] ELSE more
KeptRest(k, c, e, ok) == IF k.st = "OK" THEN NoteFree(k.s, c, e, ok) ELSE FreeUndone(k.s, c, e)

KeepRest(t, c, e, ok) ==
  IF HasRoom(t.alloc, c.right) THEN NoteFree([t EXCEPT !.alloc = Insert(@, c.right).q], c, e, ok)
  ELSE KeptRest(RestInSlot(AllocSlot(t, "alloc", ok), c), c, e, ok)

Freed(e, addr, len) == [base |-> addr, len |-> len, flags |-> Region(e), prot |-> {}]
KeepFirst(s, q, c, e, ok) == KeepRest([s EXCEPT !.alloc = Insert(q, c.left).q], c, e, ok)
FreeFrom(s, r, addr, len, ok) ==
  IF r.st # "OK" THEN FreeResult("FAIL", s, r.ext, FALSE)
  ELSE IF "LOCKED" \in r.ext.flags
  THEN FreeResult("FAIL", [s EXCEPT !.alloc = Insert(r.q, r.ext).q], r.ext, FALSE)
  ELSE KeepFirst(s, r.q, Cut(r.ext, Freed(r.ext, addr, len)), r.ext, ok)

SpaceFree(s, addr, len, ok) ==
  FreeFrom(s, Extract(s.alloc, [base |-> addr, len |-> len, flags |-> {}, prot |-> {}]), addr, len, ok)
===============================================================================
