------------------------------ MODULE RwSpinlock ------------------------------
(***************************************************************************)
(* kernel/spinlock.c, the reader/writer spinlocks: struct spinlock_rw.     *)
(* The word is MAXV when free, 0 while written, MAXV - n with n readers.   *)
(*                                                                         *)
(* A reader waits for a word other than 0 and subtracts 1 from it in a     *)
(* second atomic access; when it leaves it adds 1 if the word is not MAXV, *)
(* again in two accesses.  A writer exchanges MAXV for 0 and 0 for MAXV.   *)
(*                                                                         *)
(* The contexts are those of Spinlock.  Threads use the _int variants,     *)
(* service routines spinlock_read_lock with the interrupts masked by the   *)
(* gate, as isr_dispatcher does.  SpinlockProofs is about both modules, so *)
(* no definition here has the name of one there.                           *)
(***************************************************************************)
EXTENDS Contexts

CONSTANT MAXV   \* UINT32_MAX, more than there are contexts

ASSUME RwAssumption ==
  /\ IsFiniteSet(Cpus) /\ MAXV \in Nat
  /\ 2 * Cardinality(Cpus) < MAXV

VARIABLES
  rwlock,   \* s->lock
  saved,    \* saved[c]: *flag as the thread of c stored it
  wrapped   \* history: a reader subtracted from 0, so the word wrapped to MAXV

rwVars == <<rwlock, ifl, inIsr, pc, saved, wrapped>>

RwInit ==
  /\ rwlock = MAXV
  /\ ifl = [c \in Cpus |-> TRUE]
  /\ inIsr = [c \in Cpus |-> FALSE]
  /\ pc = [x \in Ctx |-> "idle"]
  /\ saved = [c \in Cpus |-> FALSE]
  /\ wrapped = FALSE

(* Where a context goes when it has let the lock go: back to its caller,   *)
(* over cpu_int_unlock for a thread that found the interrupts enabled.     *)
Done(x) == IF x[2] = "thread" /\ saved[x[1]] THEN "unmask" ELSE "idle"

Dec(v) == (v - 1) % (MAXV + 1)
Inc(v) == (v + 1) % (MAXV + 1)

-------------------------------------------------------------------------------
(* *flag = cpu_int_check(); cpu_int_lock(): the start of the _int variants *)
Save(x, to) ==
  /\ x[2] = "thread" /\ Goto(x, "idle", to)
  /\ saved' = [saved EXCEPT ![x[1]] = ifl[x[1]]]
  /\ UNCHANGED <<rwlock, ifl, inIsr, wrapped>>

ReadLockInt(x)  == Save(x, "readMask")
WriteLockInt(x) == Save(x, "writeMask")

(* Faulty: the interrupts stay enabled.                                    *)
RwMask_None(x, from, to) ==
  Goto(x, from, to) /\ UNCHANGED <<rwlock, ifl, inIsr, saved, wrapped>>

RwMask(x, from, to) ==
  /\ Goto(x, from, to)
  /\ ifl' = [ifl EXCEPT ![x[1]] = FALSE]
  /\ UNCHANGED <<rwlock, inIsr, saved, wrapped>>

ReadMask(x)  == RwMask(x, "readMask", "readWait")
WriteMask(x) == RwMask(x, "writeMask", "writeWait")

(* spinlock_read_lock, called by a service routine.                        *)
ReadLock(x) ==
  /\ x[2] = "isr" /\ Goto(x, "idle", "readWait")
  /\ UNCHANGED <<rwlock, ifl, inIsr, saved, wrapped>>

(* The load that ends the wait of a reader ...                             *)
ReadSeen(x) ==
  /\ rwlock # 0 /\ Goto(x, "readWait", "sub")
  /\ UNCHANGED <<rwlock, ifl, inIsr, saved, wrapped>>

(* ... and the subtraction that follows it.                                *)
ReadTake(x) ==
  /\ Goto(x, "sub", "reading")
  /\ rwlock' = Dec(rwlock)
  /\ wrapped' = (wrapped \/ rwlock = 0)
  /\ UNCHANGED <<ifl, inIsr, saved>>

(* Faulty: a writer only looks whether another writer is in.               *)
WriteTake_OverReaders(x) ==
  /\ rwlock # 0 /\ Goto(x, "writeWait", "writing")
  /\ rwlock' = 0
  /\ UNCHANGED <<ifl, inIsr, saved, wrapped>>

(* The exchange of MAXV for 0 that succeeds.                               *)
WriteTake(x) ==
  /\ rwlock = MAXV /\ Goto(x, "writeWait", "writing")
  /\ rwlock' = 0
  /\ UNCHANGED <<ifl, inIsr, saved, wrapped>>

(* The load of spinlock_read_unlock, with nothing to add at MAXV ...       *)
ReadLeave(x) ==
  /\ Goto(x, "reading", IF rwlock < MAXV THEN "add" ELSE Done(x))
  /\ UNCHANGED <<rwlock, ifl, inIsr, saved, wrapped>>

(* ... and its addition.                                                   *)
ReadDrop(x) ==
  /\ Goto(x, "add", Done(x))
  /\ rwlock' = Inc(rwlock)
  /\ UNCHANGED <<ifl, inIsr, saved, wrapped>>

(* Faulty: the writer leaves one unit short of free.                       *)
WriteDrop_Short(x) ==
  /\ Goto(x, "writing", Done(x))
  /\ rwlock' = IF rwlock = 0 THEN MAXV - 1 ELSE rwlock
  /\ UNCHANGED <<ifl, inIsr, saved, wrapped>>

(* The exchange of 0 for MAXV, whose outcome nobody looks at.              *)
WriteDrop(x) ==
  /\ Goto(x, "writing", Done(x))
  /\ rwlock' = IF rwlock = 0 THEN MAXV ELSE rwlock
  /\ UNCHANGED <<ifl, inIsr, saved, wrapped>>

RwUnmask(x) ==
  /\ Goto(x, "unmask", "idle")
  /\ ifl' = [ifl EXCEPT ![x[1]] = TRUE]
  /\ UNCHANGED <<rwlock, inIsr, saved, wrapped>>

-------------------------------------------------------------------------------
RwInterrupt(c) == Enter(c) /\ UNCHANGED <<rwlock, pc, saved, wrapped>>

RwIsrReturn(c) ==
  Leave(c) /\ pc[<<c, "isr">>] = "idle" /\ UNCHANGED <<rwlock, pc, saved, wrapped>>

(* What a context does next once it has started, waiting apart.            *)
RwStep(x) ==
  \/ ReadMask(x) \/ WriteMask(x) \/ ReadTake(x)
  \/ ReadLeave(x) \/ ReadDrop(x) \/ WriteDrop(x) \/ RwUnmask(x)

RwNext ==
  \/ \E x \in Ctx :
        RwStep(x) \/ ReadLockInt(x) \/ WriteLockInt(x) \/ ReadLock(x) \/ ReadSeen(x) \/ WriteTake(x)
  \/ \E c \in Cpus : RwInterrupt(c) \/ RwIsrReturn(c)

(* As in Spinlock: the code of a context advances between two interrupts,  *)
(* service routines return, and no order among the waiting is promised.    *)
Fairness ==
  /\ \A x \in Ctx : SF_rwVars(RwStep(x))
  /\ \A c \in Cpus : SF_rwVars(RwIsrReturn(c))

RwSpec == RwInit /\ [][RwNext]_rwVars
FairSpec == RwSpec /\ Fairness

-------------------------------------------------------------------------------
RwTypeOK ==
  /\ rwlock \in 0 .. MAXV
  /\ ifl \in [Cpus -> BOOLEAN]
  /\ inIsr \in [Cpus -> BOOLEAN]
  /\ pc \in [Ctx -> {"idle", "readMask", "writeMask", "readWait", "writeWait",
                     "sub", "reading", "writing", "add", "unmask"}]
  /\ saved \in [Cpus -> BOOLEAN]
  /\ wrapped \in BOOLEAN

Readers == {x \in Ctx : pc[x] \in {"reading", "add"}}
Writers == {x \in Ctx : pc[x] = "writing"}

(* A writer is alone in its critical section.                              *)
ReaderWriterExclusion ==
  \A w \in Writers : Readers = {} /\ Writers = {w}

(* As long as no reader has subtracted from 0, that is, unless a writer    *)
(* came in between the two accesses of a reader, the lock excludes ...     *)
ExclusionUnlessWrapped == ~wrapped => ReaderWriterExclusion

(* ... and the word counts exactly who is in: it is free again when all    *)
(* have left, however the two-access takes and drops of readers interleave *)
(* with each other and with the exchanges of writers.                      *)
WordCounts ==
  ~wrapped => rwlock = IF Writers # {} THEN 0 ELSE MAXV - Cardinality(Readers)

(* Unless the word wraps, a reader that waits sees the lock free of        *)
(* writers in the end: the writer's CPU gets on with it.                   *)
WritersLeave ==
  []~wrapped => \A x \in Ctx : pc[x] = "readWait" ~> (pc[x] # "readWait" \/ rwlock # 0)
===============================================================================
