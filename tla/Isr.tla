---------------------------------- MODULE Isr ----------------------------------
(* kernel/isr.c: the service routines of one vector, and those that every  *)
(* vector ends with (eoi), installed, dispatched and removed on several    *)
(* CPUs.  Each of the two lists is under a reader/writer lock, whose word  *)
(* is here access by access, as RwSpinlock has it: isr_dispatcher reads,   *)
(* isr_install and isr_uninstall write with the interrupts masked.  What   *)
(* isr_dispatcher does at its end is in Sched.                             *)
EXTENDS Integers, Sequences, FiniteSets

CONSTANTS
  Cpus,
  Routines,      \* the struct isr that drivers install
  EoiRoutines,   \* those installed with is_eoi
  Boot,          \* of each list: what is installed when this begins, newest first
  Drivers,       \* bound: the routines that are installed and removed
  None,
  MAXV           \* UINT32_MAX, more than there are CPUs

Lists == {"handlers", "eoi"}
ListOf(r) == IF r \in EoiRoutines THEN "eoi" ELSE "handlers"

Elements(s) == {s[i] : i \in DOMAIN s}
Distinct(s) == \A i, j \in DOMAIN s : s[i] = s[j] => i = j

ASSUME IsrAssumption ==
  /\ Boot \in [Lists -> Seq(Routines)] /\ None \notin Routines /\ Drivers \subseteq Routines
  /\ \A l \in Lists : Distinct(Boot[l]) /\ \A r \in Elements(Boot[l]) : ListOf(r) = l
  /\ IsFiniteSet(Cpus) /\ MAXV \in Nat /\ Cardinality(Cpus) < MAXV

VARIABLES
  list,       \* handlers[index].head and eoi.head
  stale,      \* node.next of a routine that is not in its list
  word,       \* of each list: lock.lock
  irr,        \* the CPUs on which the vector is pending
  disp,       \* of each CPU: its place, the list it is at, and the routine
  gone,       \* history: the routines that isr_uninstall has taken out and let go of
  torn        \* history: a writer came in between the two accesses of a reader

isrVars == <<list, stale, word, irr, disp, gone, torn>>

At(c, pc) == disp[c].pc = pc
Outside == [pc |-> "thread", l |-> "handlers", at |-> None]

IsrInit ==
  /\ list = Boot
  /\ stale = [r \in Routines |-> None]
  /\ word = [l \in Lists |-> MAXV]
  /\ irr = {} /\ gone = {} /\ torn = FALSE
  /\ disp = [c \in Cpus |-> Outside]

Goes(c, pc) == disp' = [disp EXCEPT ![c].pc = pc]

First(s) == IF s = <<>> THEN None ELSE Head(s)

(* linked_list_remove                                                      *)
Without(s, r) ==
  LET i == CHOOSE i \in DOMAIN s : s[i] = r
  IN  [j \in 1 .. Len(s) - 1 |-> IF j < i THEN s[j] ELSE s[j + 1]]

(* linked_list_next: a removed node still has the pointer it had.          *)
After(s, r) ==
  LET i == CHOOSE i \in DOMAIN s : s[i] = r
  IN  IF i = Len(s) THEN None ELSE s[i + 1]

Follows(l, r) == IF r \in Elements(list[l]) THEN After(list[l], r) ELSE stale[r]
-------------------------------------------------------------------------------
(* Writers.  Two callers never work at the same routine.                   *)
Writing(c) == disp[c].pc \in {"install", "uninstall", "installed", "removed"}
Caller(c, r) == At(c, "thread") /\ \A d \in Cpus : Writing(d) => disp[d].at # r

(* isr_install with a slot of the caller's, to the exchange for the lock:  *)
(* the slot is cleared, and the interrupts are masked.                     *)
Install(c, r) ==
  /\ Caller(c, r) /\ r \notin Elements(list[ListOf(r)])
  /\ disp' = [disp EXCEPT ![c] = [pc |-> "install", l |-> ListOf(r), at |-> r]]
  /\ stale' = [stale EXCEPT ![r] = None]
  /\ gone' = gone \ {r}
  /\ UNCHANGED <<list, word, irr, torn>>

(* isr_uninstall, to the exchange for the lock of the routine's list.      *)
Uninstall(c, r) ==
  /\ Caller(c, r) /\ r \in Elements(list[ListOf(r)])
  /\ disp' = [disp EXCEPT ![c] = [pc |-> "uninstall", l |-> ListOf(r), at |-> r]]
  /\ UNCHANGED <<list, stale, word, irr, gone, torn>>

(* Faulty: a lock that lets a writer in beside the readers.                *)
WriteTake_AmongReaders(c) ==
  LET l == disp[c].l  r == disp[c].at
  IN  /\ word[l] # 0
      /\ word' = [word EXCEPT ![l] = 0]
      /\ \/ /\ At(c, "install") /\ Goes(c, "installed")
            /\ list' = [list EXCEPT ![l] = <<r>> \o @]
            /\ UNCHANGED stale
         \/ /\ At(c, "uninstall") /\ Goes(c, "removed")
            /\ list' = [list EXCEPT ![l] = Without(@, r)]
            /\ stale' = [stale EXCEPT ![r] = After(list[l], r)]
      /\ UNCHANGED <<irr, gone, torn>>

(* The exchange that succeeds, and the change; the newest routine goes     *)
(* first.                                                                  *)
WriteTake(c) ==
  LET l == disp[c].l  r == disp[c].at
  IN  /\ word[l] = MAXV
      /\ word' = [word EXCEPT ![l] = 0]
      /\ \/ /\ At(c, "install") /\ Goes(c, "installed")
            /\ list' = [list EXCEPT ![l] = <<r>> \o @]
            /\ UNCHANGED stale
         \/ /\ At(c, "uninstall") /\ Goes(c, "removed")
            /\ list' = [list EXCEPT ![l] = Without(@, r)]
            /\ stale' = [stale EXCEPT ![r] = After(list[l], r)]
      /\ UNCHANGED <<irr, gone, torn>>

(* The exchange that gives the lock back, whose outcome nobody looks at,   *)
(* and the return.                                                         *)
WriteDrop(c) ==
  /\ disp[c].pc \in {"installed", "removed"}
  /\ word' = [word EXCEPT ![disp[c].l] = IF @ = 0 THEN MAXV ELSE @]
  /\ gone' = IF At(c, "removed") THEN gone \cup {disp[c].at} ELSE gone
  /\ disp' = [disp EXCEPT ![c] = Outside]
  /\ UNCHANGED <<list, stale, irr, torn>>
-------------------------------------------------------------------------------
(* Readers.  The stub runs with the interrupts masked, so that the vector  *)
(* may become pending again, once, while it is being served.               *)
Inside == {"walk", "run", "get", "read", "make", "add"}

Enter(l) == [pc |-> "load", l |-> l, at |-> None]
Exit(l)  == IF l = "handlers" THEN Enter("eoi") ELSE Outside

Interrupt(c) ==
  /\ c \in irr /\ At(c, "thread")
  /\ irr' = irr \ {c}
  /\ disp' = [disp EXCEPT ![c] = Enter("handlers")]
  /\ UNCHANGED <<list, stale, word, gone, torn>>

(* spinlock_read_lock: the load that ends the wait ...                     *)
ReadSeen(c) ==
  /\ At(c, "load") /\ word[disp[c].l] # 0
  /\ Goes(c, "sub")
  /\ UNCHANGED <<list, stale, word, irr, gone, torn>>

(* ... and the subtraction, which wraps at 0; then the first routine.      *)
ReadTake(c) ==
  LET l == disp[c].l
  IN  /\ At(c, "sub")
      /\ word' = [word EXCEPT ![l] = IF @ = 0 THEN MAXV ELSE @ - 1]
      /\ torn' = (torn \/ word[l] = 0)
      /\ disp' = [disp EXCEPT ![c] = [pc |-> "walk", l |-> l, at |-> First(list[l])]]
      /\ UNCHANGED <<list, stale, irr, gone>>

(* The call of a routine ...                                               *)
Call(c, to) ==
  /\ At(c, "walk") /\ disp[c].at # None
  /\ Goes(c, to)

(* ... and its return: 0 ends the walk, else it goes on from here.         *)
Return(c, from, status) ==
  /\ At(c, from)
  /\ disp' = [disp EXCEPT ![c] = [pc |-> "walk", l |-> @.l,
                                  at |-> IF status = 0 THEN None ELSE Follows(@.l, @.at)]]

(* spinlock_read_unlock: its load, with nothing to add at MAXV ...         *)
ReadLeave(c) ==
  /\ At(c, "walk") /\ disp[c].at = None
  /\ IF word[disp[c].l] < MAXV THEN Goes(c, "add")
     ELSE disp' = [disp EXCEPT ![c] = Exit(@.l)]
  /\ UNCHANGED <<list, stale, word, irr, gone, torn>>

(* ... and its addition.                                                   *)
ReadDrop(c) ==
  /\ At(c, "add")
  /\ word' = [word EXCEPT ![disp[c].l] = IF @ = MAXV THEN 0 ELSE @ + 1]
  /\ disp' = [disp EXCEPT ![c] = Exit(@.l)]
  /\ UNCHANGED <<list, stale, irr, gone, torn>>

Reads(c)   == Interrupt(c) \/ ReadSeen(c) \/ ReadTake(c) \/ ReadLeave(c) \/ ReadDrop(c)
Changes(c) == WriteTake(c) \/ WriteDrop(c)
-------------------------------------------------------------------------------
(* After isr_uninstall has returned its routine does not run any more, on  *)
(* whatever CPU: its memory is the caller's again.  So it is as long as no *)
(* writer has come in between a dispatcher's load and its subtraction.     *)
RunsOnlyInstalled ==
  ~torn => \A c \in Cpus : disp[c].pc \in Inside => disp[c].at \notin gone
===============================================================================
