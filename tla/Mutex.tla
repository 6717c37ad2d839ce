--------------------------------- MODULE Mutex ---------------------------------
(***************************************************************************)
(* kernel/mutex.c on top of the scheduler: one mutex, its pend queue, and  *)
(* threads that acquire it, with a timeout or for ever, and release it.    *)
(*                                                                         *)
(* As in Semaphore a section under mtx->lock is one action.  A release     *)
(* hands the mutex over: it stores the first waiter as the owner, and the  *)
(* waiter finds itself to be the owner when it runs again.  The pend queue *)
(* is kept at pointer level, as the insertion by priority is no operation  *)
(* on sequences.                                                           *)
(***************************************************************************)
EXTENDS Sched

CONSTANTS
  PendQ,      \* the head of mtx->pendq
  Recursive,  \* mtx->opts & MUTEX_RECUSRIVE
  Fifo,       \* mtx->opts & MUTEX_FIFO
  MaxNest     \* how often an owner acquires the mutex again

ASSUME MutexAssumption ==
  /\ PendQ \in Lists \ Units
  /\ Recursive \in BOOLEAN /\ Fifo \in BOOLEAN /\ MaxNest \in Nat
  /\ MaxNest > 0 => Recursive

VARIABLES
  owner,    \* mtx->owner
  rlevel,   \* mtx->rlevel
  pend,     \* the pend_nodes and mtx->pendq
  timed,    \* timed[t]: the wait_ms of t's acquire is not WAIT_FOREVER
  held      \* history: held[t], the acquires of t less its releases

mutexVars == <<owner, rlevel, pend, timed, held>>
vars      == <<schedVars, mutexVars>>

Init ==
  /\ SchedInit
  /\ owner = NULL /\ rlevel = 0
  /\ pend = EmptyHeap
  /\ timed = [t \in Threads |-> FALSE]
  /\ held = [t \in Threads |-> 0]

-------------------------------------------------------------------------------
OnlyMoves == UNCHANGED <<unitVars, unit, flags, cpuLeft, timer, heap, clean>>

Queue == Forward(pend, PendQ, Cardinality(Threads))

(* Faulty: an owner other than the caller is not waited for.               *)
Own_Any(t) ==
  /\ owner' = t /\ rlevel' = 1
  /\ held' = [held EXCEPT ![t] = @ + 1]
  /\ Goto(t, "run")

(* The two compare-exchanges of mtx_acquire: the mutex was free, or is     *)
(* the caller's, by an earlier acquire or by the release that woke it.     *)
Own(t) ==
  /\ \/ owner = NULL /\ owner' = t /\ rlevel' = 1
     \/ owner = t /\ UNCHANGED owner /\ rlevel' = IF Recursive THEN rlevel + 1 ELSE rlevel
  /\ held' = [held EXCEPT ![t] = @ + 1]
  /\ Goto(t, "run")

Foreign(t) == owner \notin {NULL, t}

(* Where a waiter goes: last, or before the first waiter of a larger prio. *)
Enqueued(h, t) ==
  LET q == Forward(h, PendQ, Cardinality(Threads))
      larger == {i \in DOMAIN q : Prio[q[i]] > Prio[t]}
  IN  IF Fifo \/ larger = {} THEN AddTail(h, PendQ, t)
      ELSE AddBefore(h, PendQ, q[CHOOSE i \in larger : \A j \in larger : i <= j], t)

(* mtx_acquire: at once ...                                                *)
Acquire(t) ==
  /\ At(t, "run") /\ held[t] <= MaxNest
  /\ Own(t)
  /\ OnlyMoves /\ UNCHANGED <<pend, timed>>

(* ... or up to the release of mtx->lock before the sleep.                 *)
Pend(t, forever) ==
  /\ At(t, "run") /\ held[t] <= MaxNest /\ Foreign(t)
  /\ pend' = Enqueued(pend, t)
  /\ timed' = [timed EXCEPT ![t] = ~forever]
  /\ Goto(t, "pended")
  /\ OnlyMoves /\ UNCHANGED <<owner, rlevel, held>>

MtxSleep(t)    == At(t, "pended") /\ SleepPrep(t, timed[t], "mtxSlept") /\ UNCHANGED mutexVars
MtxSchedule(t) == Calls(t, "mtxSlept", "mtxAsleep") /\ UNCHANGED mutexVars
MtxWoken(t)    == SleepEnd(t, "mtxAsleep", "relock") /\ UNCHANGED mutexVars

(* Faulty: a waiter looks at its timeout before it looks for the mutex.    *)
Relock_TimeoutFirst(t) ==
  LET left == Remove(pend, PendQ, t)
  IN  /\ At(t, "relock")
      /\ \/ ~timed[t] /\ Own(t) /\ pend' = left
         \/ /\ timed[t]
            /\ pend' = left /\ Goto(t, "run")
            /\ UNCHANGED <<owner, rlevel, held>>
         \/ /\ Foreign(t) /\ ~timed[t]
            /\ pend' = Enqueued(left, t) /\ Goto(t, "pended")
            /\ UNCHANGED <<owner, rlevel, held>>
      /\ OnlyMoves /\ UNCHANGED timed

(* Faulty: the waiter that goes on stays in the pend queue.                *)
Relock_StaysPended(t) ==
  /\ At(t, "relock")
  /\ \/ Own(t) /\ UNCHANGED pend
     \/ /\ Foreign(t)
        /\ IF timed[t] THEN Goto(t, "run") /\ UNCHANGED pend
           ELSE Goto(t, "pended") /\ pend' = Enqueued(Remove(pend, PendQ, t), t)
        /\ UNCHANGED <<owner, rlevel, held>>
  /\ OnlyMoves /\ UNCHANGED timed

(* After the sleep: off the pend queue, and then acquired, timed out or    *)
(* waiting again.                                                          *)
Relock(t) ==
  LET left == Remove(pend, PendQ, t)
  IN  /\ At(t, "relock")
      /\ \/ Own(t) /\ pend' = left
         \/ /\ Foreign(t) /\ timed[t]
            /\ pend' = left /\ Goto(t, "run")
            /\ UNCHANGED <<owner, rlevel, held>>
         \/ /\ Foreign(t) /\ ~timed[t]
            /\ pend' = Enqueued(left, t) /\ Goto(t, "pended")
            /\ UNCHANGED <<owner, rlevel, held>>
      /\ OnlyMoves /\ UNCHANGED timed

(* The first waiter becomes the owner and is woken.                        *)
HandOver(t) ==
  IF Queue = <<>> THEN owner' = NULL /\ UNCHANGED <<flags, heap, clean>>
  ELSE owner' = Head(Queue) /\ Wakes(Head(Queue))

(* mtx_release by the owner: the mutex is given up, and only then is the   *)
(* recursion level looked at.                                              *)
Release(t) ==
  /\ At(t, "run") /\ owner = t
  /\ held' = [held EXCEPT ![t] = IF @ > 0 THEN @ - 1 ELSE 0]
  /\ rlevel' = IF Recursive THEN rlevel - 1 ELSE rlevel
  /\ IF Recursive /\ rlevel' > 0
     THEN owner' = NULL /\ UNCHANGED <<flags, heap, clean>>
     ELSE HandOver(t)
  /\ UNCHANGED <<unitVars, unit, cpuLeft, pc, timer, pend, timed>>

(* What t does next once it has started to wait.                           *)
Waits(t) == MtxSleep(t) \/ MtxSchedule(t) \/ MtxWoken(t) \/ Relock(t)

(* Threads call the mutex, and compute or yield in between.                *)
Next ==
  \/ \E u \in Units : UnitNext(u) /\ UNCHANGED mutexVars
  \/ \E t \in Threads :
        \/ Acquire(t) \/ Release(t) \/ Waits(t)
        \/ \E forever \in BOOLEAN : Pend(t, forever)
        \/ Yield(t) /\ UNCHANGED mutexVars

Spec == Init /\ [][Next]_vars

-------------------------------------------------------------------------------
Waiting == {"pended", "mtxSlept", "mtxAsleep", "relock"}
Waiters == {t \in Threads : pc[t] \in Waiting}

(* Who has acquired the mutex and not released it owns it, so no two       *)
(* threads have; through timeouts, early wakes and the run queues these    *)
(* tangle.                                                                 *)
Exclusion == \A t \in Threads : held[t] > 0 => owner = t

(* The mutex is never left with an owner that does not know: who owns it   *)
(* without having acquired it is still in its wait, and will find out,     *)
(* even if its timeout comes at the same time.  While every wake finds its *)
(* thread asleep it is on its way: ready, or with a timer.                 *)
OwnerKnows ==
  owner # NULL /\ held[owner] = 0 =>
    /\ owner \in Waiters
    /\ clean => pc[owner] = "relock" \/ Ready(owner) \/ timer[owner]

(* The pend queue is a well formed list, without repetition, of exactly    *)
(* the threads that wait, and nobody waits for a mutex that is free.       *)
PendqExact ==
  LET q == Forward(pend, PendQ, Cardinality(Threads) + 1)
  IN  /\ IsList(pend, PendQ, q)
      /\ {q[i] : i \in DOMAIN q} = Waiters
      /\ Len(q) = Cardinality(Waiters)
      /\ owner = NULL => q = <<>>
===============================================================================
