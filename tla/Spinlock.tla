------------------------------- MODULE Spinlock -------------------------------
(***************************************************************************)
(* kernel/spinlock.c, the plain spinlocks: struct spinlock and the _int    *)
(* variants that also mask the interrupts of the calling CPU.              *)
(*                                                                         *)
(* The contexts are the thread of a CPU and the service routine that may   *)
(* interrupt it.  One action is one access to the lock word or to the      *)
(* interrupt flag; spinning is waiting for the compare-exchange to be able *)
(* to succeed.  The callers are free: they take locks in any order, also   *)
(* one that they hold, and release those they hold in any order.  What the *)
(* kernel's own callers do is in Sections.                                 *)
(***************************************************************************)
EXTENDS Contexts

CONSTANTS
  Locks,   \* the locks
  NoLock   \* what want[x] is out of a lock call

ASSUME SpinlockAssumption == NoLock \notin Locks

VARIABLES
  word,    \* word[l]: s->lock, 1 while taken
  want,    \* want[x]: the lock the call is about
  held,    \* held[x]: the locks x has taken and not released
  flag     \* flag[x][l]: *flag as x's lock call on l stored it

vars == <<word, ifl, inIsr, pc, want, held, flag>>

Init ==
  /\ word = [l \in Locks |-> 0]
  /\ ifl = [c \in Cpus |-> TRUE]
  /\ inIsr = [c \in Cpus |-> FALSE]
  /\ pc = [x \in Ctx |-> "run"]
  /\ want = [x \in Ctx |-> NoLock]
  /\ held = [x \in Ctx |-> {}]
  /\ flag = [x \in Ctx |-> [l \in Locks |-> FALSE]]

-------------------------------------------------------------------------------
(* The first step of a lock call, with what the call stores as the flag.   *)
Call(x, l, saved, to) ==
  /\ Goto(x, "run", to)
  /\ want' = [want EXCEPT ![x] = l]
  /\ flag' = [flag EXCEPT ![x] = [@ EXCEPT ![l] = saved]]
  /\ UNCHANGED <<word, ifl, inIsr, held>>

(* spinlock_lock and spinlock_try_lock leave the interrupts alone; the     *)
(* _int variants begin with *flag = cpu_int_check().                       *)
Lock(x, l)       == Call(x, l, FALSE, "spin")
TryLock(x, l)    == Call(x, l, FALSE, "try")
LockInt(x, l)    == Call(x, l, ifl[x[1]], "mask")
TryLockInt(x, l) == Call(x, l, ifl[x[1]], "tryMask")

(* Faulty: the interrupts stay as they are in the lock call.               *)
Mask_None(x, from, to) ==
  Goto(x, from, to) /\ UNCHANGED <<word, ifl, inIsr, want, held, flag>>

(* cpu_int_lock, the second line of the _int variants.                     *)
Mask(x, from, to) ==
  /\ Goto(x, from, to)
  /\ ifl' = [ifl EXCEPT ![x[1]] = FALSE]
  /\ UNCHANGED <<word, inIsr, want, held, flag>>

LockIntMask(x)    == Mask(x, "mask", "spin")
TryLockIntMask(x) == Mask(x, "tryMask", "tryInt")

(* The compare-exchange of 0 by 1 that succeeds.                           *)
Acquire(x) ==
  /\ Running(x)
  /\ pc[x] \in {"spin", "try", "tryInt"}
  /\ word[want[x]] = 0
  /\ word' = [word EXCEPT ![want[x]] = 1]
  /\ held' = [held EXCEPT ![x] = @ \cup {want[x]}]
  /\ pc' = [pc EXCEPT ![x] = "run"]
  /\ want' = [want EXCEPT ![x] = NoLock]
  /\ UNCHANGED <<ifl, inIsr, flag>>

(* ... and the one of a try that fails: spinlock_try_lock_int then sets    *)
(* the interrupt flag, whatever it had found in it.                        *)
TryFail(x) ==
  /\ Running(x)
  /\ pc[x] \in {"try", "tryInt"}
  /\ word[want[x]] = 1
  /\ ifl' = IF pc[x] = "tryInt" THEN [ifl EXCEPT ![x[1]] = TRUE] ELSE ifl
  /\ pc' = [pc EXCEPT ![x] = "run"]
  /\ want' = [want EXCEPT ![x] = NoLock]
  /\ UNCHANGED <<word, inIsr, held, flag>>

(* Faulty: interrupts are enabled without looking at the saved flag.       *)
Unlock_IgnoresFlag(x, l) ==
  /\ Goto(x, "run", "unmask")
  /\ l \in held[x]
  /\ word' = [word EXCEPT ![l] = 0]
  /\ held' = [held EXCEPT ![x] = @ \ {l}]
  /\ flag' = [flag EXCEPT ![x] = [@ EXCEPT ![l] = FALSE]]
  /\ UNCHANGED <<ifl, inIsr, want>>

(* spinlock_unlock, and spinlock_unlock_int up to its compare-exchange of  *)
(* 1 by 0.  The caller's flag is of no use any more.                       *)
Unlock(x, l) ==
  /\ Goto(x, "run", IF flag[x][l] THEN "unmask" ELSE "run")
  /\ l \in held[x]
  /\ word' = [word EXCEPT ![l] = IF @ = 1 THEN 0 ELSE @]
  /\ held' = [held EXCEPT ![x] = @ \ {l}]
  /\ flag' = [flag EXCEPT ![x] = [@ EXCEPT ![l] = FALSE]]
  /\ UNCHANGED <<ifl, inIsr, want>>

(* if(flag) cpu_int_unlock(), the end of spinlock_unlock_int.              *)
Unmask(x) ==
  /\ Goto(x, "unmask", "run")
  /\ ifl' = [ifl EXCEPT ![x[1]] = TRUE]
  /\ UNCHANGED <<word, inIsr, want, held, flag>>

-------------------------------------------------------------------------------
(* What runs around the lock calls: cpu_int_lock and cpu_int_unlock by     *)
(* themselves, interrupts, and the return from them.                       *)
SetFlag(x, on) ==
  /\ Goto(x, "run", "run")
  /\ ifl' = [ifl EXCEPT ![x[1]] = on]
  /\ UNCHANGED <<word, inIsr, want, held, flag>>

Interrupt(c) == Enter(c) /\ UNCHANGED <<word, pc, want, held, flag>>

IsrReturn(c) ==
  Leave(c) /\ pc[<<c, "isr">>] = "run" /\ UNCHANGED <<word, pc, want, held, flag>>

TryEnds(x) == pc[x] \in {"try", "tryInt"} /\ (Acquire(x) \/ TryFail(x))

(* What a context does next once it is in a call, spinning apart.          *)
Step(x) == LockIntMask(x) \/ TryLockIntMask(x) \/ TryEnds(x) \/ Unmask(x)

Next ==
  \/ \E x \in Ctx : Step(x) \/ Acquire(x) \/ \E on \in BOOLEAN : SetFlag(x, on)
  \/ \E x \in Ctx, l \in Locks :
        Lock(x, l) \/ TryLock(x, l) \/ LockInt(x, l) \/ TryLockInt(x, l) \/ Unlock(x, l)
  \/ \E c \in Cpus : Interrupt(c) \/ IsrReturn(c)

Spec == Init /\ [][Next]_vars

-------------------------------------------------------------------------------
TypeOK ==
  /\ word \in [Locks -> {0, 1}]
  /\ ifl \in [Cpus -> BOOLEAN]
  /\ inIsr \in [Cpus -> BOOLEAN]
  /\ pc \in [Ctx -> {"run", "mask", "spin", "tryMask", "tryInt", "try", "unmask"}]
  /\ want \in [Ctx -> Locks \cup {NoLock}]
  /\ \A x \in Ctx : want[x] = NoLock <=> pc[x] \in {"run", "unmask"}
  /\ held \in [Ctx -> SUBSET Locks]
  /\ flag \in [Ctx -> [Locks -> BOOLEAN]]

(* No lock is held by two contexts, and its word says whether one holds    *)
(* it: the compare-exchanges of spinlock.c are enough, with no use made of *)
(* the interrupt flag, whatever is called when.                            *)
MutualExclusion ==
  \A l \in Locks :
     /\ \A x, y \in Ctx : l \in held[x] /\ l \in held[y] => x = y
     /\ word[l] = 1 <=> \E x \in Ctx : l \in held[x]

===============================================================================
