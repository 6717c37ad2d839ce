----------------------------------- MODULE Vm -----------------------------------
(* mm/vm.c: the kernel's address space.  Every operation runs under the    *)
(* lock of the context from its beginning to its end, so it is one step;   *)
(* what it asks of the page frames and the page tables may be refused at   *)
(* every place where the code asks.                                        *)
EXTENDS VmSpace

CONSTANTS
  High, Low,    \* the pages of the two regions
  MaxGrants,    \* bound: the grants that exist at a time
  MaxLen        \* bound: the pages of a grant

Pages == High \cup Low

ASSUME PageAssumption ==
  /\ High \subseteq Nat /\ Low \subseteq Nat /\ High \cap Low = {}
  /\ \E a, b \in High : a < b /\ High = a .. b
  /\ \E a, b \in Low : Low = a .. b
  /\ MaxGrants \in Nat \ {0} /\ MaxLen \in Nat \ {0}

VARIABLES
  space,    \* the lists and the page table
  grants,   \* what callers hold: the results of vm_alloc and vm_map
  halted,   \* where a caller has stopped for good, with the lock or without
  mishap    \* history: one of the mishaps of VmSpace has happened

vars == <<space, grants, halted, mishap>>

FirstHigh == CHOOSE p \in High : \A q \in High : p <= q
FirstLow == CHOOSE p \in Low : \A q \in Low : p <= q

(* vm_ctx_init and vm_setup_protected_regions: the two first headers are   *)
(* the first pages of the high region.                                     *)
Reserve(s, page) ==
  SpaceAlloc(s, page, 1, {"PERMANENT", "ALLOCATED", "LOCKED"}, {"W"},
             [free |-> TRUE, alloc |-> TRUE]).s

Bare ==
  LET high == [base |-> FirstHigh, len |-> Cardinality(High), flags |-> {"HIGH"}, prot |-> {}]
      low  == [base |-> FirstLow, len |-> Cardinality(Low), flags |-> {"LOW"}, prot |-> {}]
      one  == Insert(<<Header(FirstHigh, FreePerSlot)>>, high).q
  IN  [free  |-> Insert(one, low).q, alloc |-> <<Header(FirstHigh + 1, AllocPerSlot)>>,
       tab   |-> [p \in Pages |-> IF p - FirstHigh \in {0, 1} THEN {"W"} ELSE NoPage]]

Init ==
  /\ space = Reserve(Reserve(Bare, FirstHigh), FirstHigh + 1)
  /\ grants = {}
  /\ halted = "no"
  /\ mishap = FALSE
-------------------------------------------------------------------------------
Span(base, len) == base .. base + len - 1
Filled(s, S, prot) == [s EXCEPT !.tab = [p \in Pages |-> IF p \in S THEN prot ELSE @[p]]]

(* Whether, during a call, a page can be had for a new slot of each list.  *)
Supply == [free : BOOLEAN, alloc : BOOLEAN]

Grant(base, len, type) == [base |-> base, len |-> len, type |-> type, whole |-> TRUE]
CanCall == halted = "no"

(* What vm_alloc and vm_map do with the addresses they have found: give    *)
(* them back if something else is refused, or grant them.                  *)
None(a) ==
  /\ a.addr = BaseAuto
  /\ space' = a.s /\ mishap' = (mishap \/ a.mishap) /\ UNCHANGED <<grants, halted>>

GiveBack(f, a) ==
  /\ a.addr # BaseAuto
  /\ space' = f.s /\ mishap' = (mishap \/ a.mishap \/ f.mishap) /\ UNCHANGED <<grants, halted>>

GrantIt(a, len, type) ==
  /\ a.addr # BaseAuto
  /\ space' = Filled(a.s, Span(a.addr, len), {"W"})
  /\ grants' = grants \cup {Grant(a.addr, len, type)}
  /\ mishap' = (mishap \/ a.mishap) /\ UNCHANGED halted

(* No page at all: the empty range cannot be released, and the caller of   *)
(* vm_alloc halts with the lock.                                           *)
HaltWithout(a) ==
  /\ a.addr # BaseAuto
  /\ space' = a.s /\ halted' = "pages" /\ mishap' = (mishap \/ a.mishap) /\ UNCHANGED grants

(* vm_alloc: page tables or some of the pages may be refused, or all.      *)
AllocWith(a, len, ok) ==
  \/ None(a) \/ HaltWithout(a) \/ GrantIt(a, len, "ALLOCATED")
  \/ GiveBack(SpaceFree(a.s, a.addr, len, ok), a)
VmAlloc(len, region) == \E ok \in Supply :
  /\ CanCall /\ Cardinality(grants) < MaxGrants
  /\ AllocWith(SpaceAlloc(space, BaseAuto, len, region \cup {"ALLOCATED"}, {"W"}, ok), len, ok)

(* vm_map, where the caller may choose the address; page tables may be     *)
(* refused.                                                                *)
MapWith(a, len, ok) ==
  None(a) \/ GrantIt(a, len, "MAPPED") \/ GiveBack(SpaceFree(a.s, a.addr, len, ok), a)
VmMap(addr, len) == \E ok \in Supply :
  /\ CanCall /\ Cardinality(grants) < MaxGrants
  /\ MapWith(SpaceAlloc(space, addr, len, {"MAPPED"}, {"W"}, ok), len, ok)

(* vm_free and vm_unmap.  A range that cannot be freed stops the caller of *)
(* vm_unmap.                                                               *)
TakeBack(f, g) ==
  /\ f.st = "OK"
  /\ space' = Filled(f.s, Span(g.base, g.len), NoPage)
  /\ grants' = grants \ {g}
  /\ mishap' = (mishap \/ f.mishap) /\ UNCHANGED halted

Refuse(f, stop) ==
  /\ f.st # "OK"
  /\ space' = f.s /\ halted' = stop
  /\ mishap' = (mishap \/ f.mishap) /\ UNCHANGED grants

FreeWith(f, g) == TakeBack(f, g) \/ Refuse(f, "no")
VmFree(g) == \E ok \in Supply :
  CanCall /\ g.type = "ALLOCATED" /\ FreeWith(SpaceFree(space, g.base, g.len, ok), g)

UnmapWith(f, g) == TakeBack(f, g) \/ Refuse(f, "unmap")
VmUnmap(g) == \E ok \in Supply :
  CanCall /\ g.type = "MAPPED" /\ UnmapWith(SpaceFree(space, g.base, g.len, ok), g)

(* Faulty: the attributes of the page table are left as they were.         *)
ChangeTo_ListOnly(a, g, at, len, prot) ==
  space' = a.s /\ grants' = (grants \ {g}) \cup {[g EXCEPT !.whole = FALSE]}

ChangeTo(a, g, at, len, prot) ==
  /\ space' = Filled(a.s, Span(at, len), prot)
  /\ grants' = (grants \ {g}) \cup {[g EXCEPT !.whole = FALSE]}

(* vm_change_attr, which clears the attribute W (those to be set have no   *)
(* effect): the part is freed and allocated again.  If that fails it is    *)
(* allocated as it was, whose success is taken for the failure: the caller *)
(* halts, or else returns, in both cases with the lock.                    *)
Retried(f, a, b) ==
  /\ space' = b.s /\ halted' = IF b.addr # BaseAuto THEN "attr" ELSE "lock"
  /\ mishap' = (mishap \/ f.mishap \/ a.mishap \/ b.mishap) /\ UNCHANGED grants

AgainWith(f, a, g, at, len, ok) ==
  \/ /\ a.addr # BaseAuto
     /\ ChangeTo(a, g, at, len, f.ext.prot \ {"W"})
     /\ mishap' = (mishap \/ f.mishap \/ a.mishap) /\ UNCHANGED halted
  \/ /\ a.addr = BaseAuto
     /\ Retried(f, a, SpaceAlloc(a.s, at, len, f.ext.flags, f.ext.prot, ok))

ChangeWith(f, g, at, len, ok) ==
  \/ Refuse(f, "no")
  \/ /\ f.st = "OK"
     /\ AgainWith(f, SpaceAlloc(f.s, at, len, f.ext.flags, f.ext.prot \ {"W"}, ok), g, at, len, ok)

VmChangeAttr(g, at, len) == \E ok \in Supply :
  /\ CanCall /\ g.type = "ALLOCATED" /\ Span(at, len) \subseteq Span(g.base, g.len)
  /\ ChangeWith(SpaceFree(space, at, len, ok), g, at, len, ok)
-------------------------------------------------------------------------------
Next ==
  \/ \E len \in 1 .. MaxLen, region \in {{}, {"LOW"}} : VmAlloc(len, region)
  \/ \E len \in 1 .. MaxLen, addr \in {BaseAuto} \cup Low : VmMap(addr, len)
  \/ \E g \in grants : VmFree(g) \/ VmUnmap(g)
  \/ \E g \in grants, at \in High, len \in 1 .. MaxLen - 1 : VmChangeAttr(g, at, len)

Spec == Init /\ [][Next]_vars
-------------------------------------------------------------------------------
Extents(q) == UNION {{q[h].busy[i] : i \in DOMAIN q[h].busy} : h \in DOMAIN q}
Locations(q) == {<<at, At(q, at)>> : at \in Places(q)}
Headers == {space.free[h].at : h \in DOMAIN space.free} \cup {space.alloc[h].at : h \in DOMAIN space.alloc}

ListOK(q, size) == \A h \in DOMAIN q :
  /\ q[h].size = size /\ Len(q[h].busy) <= size
  /\ \A i \in DOMAIN q[h].busy :
       /\ q[h].busy[i].len > 0 /\ Cardinality(Region(q[h].busy[i])) = 1
       /\ PagesOf(q[h].busy[i]) \subseteq (IF "HIGH" \in q[h].busy[i].flags THEN High ELSE Low)

(* Every page lies in one extent, of one of the two lists: nothing is lost *)
(* or handed out twice by splitting, joining and moving extents between    *)
(* lists that grow while they are changed (vm_space.c:137-249).  Headers   *)
(* hold no more than they have room for, and every extent is a piece of    *)
(* the region it names (vm_extent.c:480 and 510).                          *)
Tiling == ~mishap =>
  /\ ListOK(space.free, FreePerSlot) /\ ListOK(space.alloc, AllocPerSlot)
  /\ \A p \in Pages :
       Cardinality({l \in Locations(space.free) : p \in PagesOf(l[2])})
         + Cardinality({l \in Locations(space.alloc) : p \in PagesOf(l[2])}) = 1

(* The lists lie in the space they describe: each of their pages is noted  *)
(* as locked, so that nobody is given it or can free it, and is present    *)
(* (vm_extent.c:30, vm.c:155).                                             *)
TrackersTracked == ~mishap => \A p \in Headers :
  /\ \E e \in Extents(space.alloc) : p \in PagesOf(e) /\ "LOCKED" \in e.flags
  /\ space.tab[p] = {"W"}
  /\ \A g \in grants : p \notin Span(g.base, g.len)

(* Between two calls the page table holds the pages of the allocated       *)
(* extents, with their attributes, and no others (vm.c:540, vm.c:807).     *)
PagesExact == (~mishap /\ halted = "no") => \A p \in Pages :
  space.tab[p] = IF \E e \in Extents(space.alloc) : p \in PagesOf(e)
                 THEN (CHOOSE e \in Extents(space.alloc) : p \in PagesOf(e)).prot
                 ELSE NoPage

(* A grant whose attributes nobody changed lies in one extent that is not  *)
(* locked, so its holder can give it back as a whole whatever it was       *)
(* joined with or split from, and vm_unmap never stops (vm.c:872).         *)
HeldInOne == ~mishap =>
  /\ halted # "unmap"
  /\ halted = "no" => \A g \in grants : g.whole => \E e \in Extents(space.alloc) :
       Span(g.base, g.len) \subseteq PagesOf(e) /\ "LOCKED" \notin e.flags

(* Who asks is given pages nobody holds, and gives back what it was given. *)
Holders == [p \in Pages |-> Cardinality({g \in grants : p \in Span(g.base, g.len)})]
Promised == INSTANCE Frames WITH Frame <- Pages, Allowed <- Pages, out <- Holders
ImplementsFrames == Promised!Init /\ [][Promised!Next \/ mishap']_Holders
===============================================================================
