------------------------------- MODULE Semaphore -------------------------------
(***************************************************************************)
(* kernel/semaphore.c on top of the scheduler: one semaphore, its pend     *)
(* queue, and threads that acquire it, with a timeout or for ever, and     *)
(* release it.                                                             *)
(*                                                                         *)
(* A section under sem->lock, with the sched_wake_thread inside it, is one *)
(* action.  A thread that has to wait puts itself on the pend queue and    *)
(* unlocks; clears READY and arms its timer in sched_sleep; leaves the CPU *)
(* in schedule(); and once it runs again dequeues its timer, locks and     *)
(* takes itself off the pend queue.  The pend queue is a sequence: its     *)
(* calls of linked_list.c are legal ones, for which LinkedListOps shows    *)
(* that lists are sequences.                                               *)
(***************************************************************************)
EXTENDS Sched

CONSTANTS
  InitCount,   \* init_val of sem_init
  MaxCount,    \* max_count
  Signals      \* whether threads release what they have not acquired

ASSUME SemAssumption ==
  /\ InitCount \in Nat /\ MaxCount \in Nat /\ InitCount <= MaxCount
  /\ Signals \in BOOLEAN

VARIABLES
  count,   \* sem->count
  pendq,   \* sem->pendq, first thread first
  timed,   \* timed[t]: the wait_ms of t's acquire is not WAIT_FOREVER
  held     \* history: held[t], how many units t has acquired and not released

semVars == <<count, pendq, timed, held>>
vars    == <<schedVars, semVars>>

Init ==
  /\ SchedInit
  /\ count = InitCount
  /\ pendq = <<>>
  /\ timed = [t \in Threads |-> FALSE]
  /\ held = [t \in Threads |-> 0]

-------------------------------------------------------------------------------
(* linked_list_remove of t, which is on q.                                 *)
Without(q, t) ==
  LET i == CHOOSE i \in DOMAIN q : q[i] = t
  IN  [j \in 1 .. Len(q) - 1 |-> IF j < i THEN q[j] ELSE q[j + 1]]

(* The history; of no interest where units are signals.                    *)
Counts(t, k) == held' = IF Signals THEN held ELSE [held EXCEPT ![t] = @ + k]

(* Returns with one unit of the semaphore.                                 *)
Take(t) ==
  /\ count > 0
  /\ count' = count - 1
  /\ Counts(t, 1)
  /\ Goto(t, "run")

(* The rest of a step by which t only moves on in its call.                *)
OnlyMoves == UNCHANGED <<unitVars, unit, flags, cpuLeft, timer, heap, clean>>

(* sem_acquire: at once ...                                                *)
Acquire(t) ==
  /\ At(t, "run")
  /\ Take(t)
  /\ OnlyMoves /\ UNCHANGED <<pendq, timed>>

(* ... or up to the release of sem->lock before the sleep.                 *)
Pend(t, forever) ==
  /\ At(t, "run") /\ count = 0
  /\ pendq' = Append(pendq, t)
  /\ timed' = [timed EXCEPT ![t] = ~forever]
  /\ Goto(t, "pended")
  /\ OnlyMoves /\ UNCHANGED <<count, held>>

SemSleep(t)    == At(t, "pended") /\ SleepPrep(t, timed[t], "semSlept") /\ UNCHANGED semVars
SemSchedule(t) == Calls(t, "semSlept", "semAsleep") /\ UNCHANGED semVars
SemWoken(t)    == SleepEnd(t, "semAsleep", "relock") /\ UNCHANGED semVars

(* Faulty: a waiter that times out stays on the pend queue.                *)
Relock_StaysPended(t) ==
  /\ At(t, "relock")
  /\ \/ Take(t) /\ pendq' = Without(pendq, t)
     \/ /\ count = 0 /\ timed[t]
        /\ Goto(t, "run")
        /\ UNCHANGED <<count, held, pendq>>
     \/ /\ count = 0 /\ ~timed[t]
        /\ pendq' = Append(Without(pendq, t), t)
        /\ Goto(t, "pended")
        /\ UNCHANGED <<count, held>>
  /\ OnlyMoves /\ UNCHANGED timed

(* After the sleep: off the pend queue, and then acquired, timed out or    *)
(* waiting again, now as the last.                                         *)
Relock(t) ==
  /\ At(t, "relock")
  /\ \/ Take(t) /\ pendq' = Without(pendq, t)
     \/ /\ count = 0 /\ timed[t]
        /\ pendq' = Without(pendq, t)
        /\ Goto(t, "run")
        /\ UNCHANGED <<count, held>>
     \/ /\ count = 0 /\ ~timed[t]
        /\ pendq' = Append(Without(pendq, t), t)
        /\ Goto(t, "pended")
        /\ UNCHANGED <<count, held>>
  /\ OnlyMoves /\ UNCHANGED timed

(* Faulty: the unit is handed over to the woken thread, which then takes   *)
(* another one.                                                            *)
Release_Uncounted(t) ==
  /\ At(t, "run") /\ (Signals \/ held[t] > 0)
  /\ Counts(t, -1)
  /\ IF pendq = <<>>
     THEN /\ count' = IF count < MaxCount THEN count + 1 ELSE count
          /\ UNCHANGED <<flags, heap, clean>>
     ELSE Wakes(Head(pendq)) /\ UNCHANGED count
  /\ UNCHANGED <<unitVars, unit, cpuLeft, pc, timer, pendq, timed>>

(* Faulty: nobody is woken.                                                *)
Release_NoWake(t) ==
  /\ At(t, "run") /\ (Signals \/ held[t] > 0)
  /\ Counts(t, -1)
  /\ count' = IF count < MaxCount THEN count + 1 ELSE count
  /\ UNCHANGED <<unitVars, threadVars, heap, clean, pendq, timed>>

(* sem_release: wakes the first waiter, which stays on the pend queue      *)
(* until it runs.                                                          *)
Release(t) ==
  /\ At(t, "run") /\ (Signals \/ held[t] > 0)
  /\ Counts(t, -1)
  /\ count' = IF count < MaxCount THEN count + 1 ELSE count
  /\ IF pendq = <<>> THEN UNCHANGED <<flags, heap, clean>> ELSE Wakes(Head(pendq))
  /\ UNCHANGED <<unitVars, unit, cpuLeft, pc, timer, pendq, timed>>

(* What t does next once it has started to wait.                           *)
Waits(t) == SemSleep(t) \/ SemSchedule(t) \/ SemWoken(t) \/ Relock(t)

(* Threads call the semaphore, and compute or yield in between.            *)
Next ==
  \/ \E u \in Units : UnitNext(u) /\ UNCHANGED semVars
  \/ \E t \in Threads :
        \/ Acquire(t) \/ Release(t) \/ Waits(t)
        \/ \E forever \in BOOLEAN : Pend(t, forever)
        \/ Yield(t) /\ UNCHANGED semVars

Fairness ==
  /\ \A u \in Units : /\ WF_vars(UnitInit(u) /\ UNCHANGED semVars)
                      /\ WF_vars(FirstSchedule(u) /\ UNCHANGED semVars)
                      /\ WF_vars((StartPin(u) \/ StartEnq(u)) /\ UNCHANGED semVars)
                      /\ SF_vars(Tick(u) /\ UNCHANGED semVars)
                      /\ WF_vars(IsrEnd(u) /\ UNCHANGED semVars)
  /\ \A t \in Threads : /\ SF_vars((\E u \in Units : TimerIsr(u, t)) /\ UNCHANGED semVars)
                        /\ SF_vars(Waits(t))

Spec == Init /\ [][Next]_vars
FairSpec == Spec /\ Fairness

-------------------------------------------------------------------------------
Waiting == {"pended", "semSlept", "semAsleep", "relock"}

TypeOK ==
  /\ count \in 0 .. MaxCount
  /\ pendq \in Seq(Threads)
  /\ timed \in [Threads -> BOOLEAN]
  /\ held \in [Threads -> Nat]
  /\ \A t \in Threads : pc[t] \in {"new", "starting", "run"} \cup Waiting

(* The pend queue holds each thread that is in a wait once, and no other,  *)
(* whether it was woken, timed out, or has not even gone to sleep yet.     *)
PendqExact ==
  /\ {pendq[i] : i \in DOMAIN pendq} = {t \in Threads : pc[t] \in Waiting}
  /\ \A i, j \in DOMAIN pendq : pendq[i] = pendq[j] => i = j

(* The units of the semaphore that threads have.                           *)
Taken == UNION {{t} \X (1 .. held[t]) : t \in Threads}

(* Where threads release only what they have acquired, no unit is lost or  *)
(* made up, through timeouts, early wakes and the run queues these tangle; *)
(* with a MaxCount of 1, that is mutual exclusion.                         *)
Conservation == ~Signals => count + Cardinality(Taken) = InitCount

(* t is going to look at the semaphore again: it was woken, or has or will *)
(* get a timer that wakes it.                                              *)
Stirring(t) ==
  \/ timer[t]
  \/ pc[t] = "pended" /\ timed[t]
  \/ pc[t] # "pended" /\ Ready(t)

(* Someone on the pend queue of a free semaphore does.                     *)
NoStrandedWaiter ==
  count > 0 /\ pendq # <<>> => \E i \in DOMAIN pendq : Stirring(pendq[i])

(* ... while every wake finds its thread asleep.                           *)
WokenWhenFree == clean => NoStrandedWaiter

(* While every wake finds its thread asleep, a waiter has its unit, or its *)
(* timeout, or the units went to others.                                   *)
WaitersServed ==
  []clean => \A t \in Threads :
     pc[t] \in Waiting /\ count > 0 ~> (pc[t] \notin Waiting \/ count = 0)
===============================================================================
