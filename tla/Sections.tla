------------------------------- MODULE Sections -------------------------------
(***************************************************************************)
(* The sections that the kernel makes of its spinlocks: scheduler,         *)
(* semaphores, mutexes and timers, on threads and in service routines.     *)
(* Each lock, release and look at the interrupt flag of a function is a    *)
(* step, with the calls of Spinlock; what is done under the locks is in    *)
(* the modules of the parts.                                               *)
(*                                                                         *)
(* Left out are the locks of memory management, which service routines do  *)
(* not take and under which no other lock here is taken, and those that    *)
(* are taken with interrupts masked and under which no lock is taken       *)
(* (ipi_cb_lock, th_lst_lock; the reader/writer locks are in RwSpinlock).  *)
(***************************************************************************)
EXTENDS Spinlock

CONSTANTS
  Threads,
  Home,      \* the unit on whose CPU a thread is started: th->unit
  Objects,   \* the semaphores and mutexes
  None

KernelLocks ==
  ({"unit"} \X Cpus) \cup ({"thread"} \X Threads) \cup ({"object"} \X Objects)
  \cup {<<"active", None>>, <<"pend", None>>}

ASSUME SectionsAssumption ==
  Locks = KernelLocks /\ Home \in [Threads -> Cpus] /\ None \notin Threads \cup Objects

VARIABLES
  at,      \* where a context is: before which line
  th,      \* the thread that its section is about
  ob,      \* the semaphore or mutex that it is about
  own,     \* iflag in sched_thread_self, int_sts in timer_dequeue
  phase,   \* of each thread: "new", "starting", or "live", which can be woken
  intent   \* history: the interrupt flag as the thread of a CPU set it itself

secVars == <<vars, at, th, ob, own, phase, intent>>

Rest(x) == IF x[2] = "thread" THEN "thread" ELSE "service"

SecInit ==
  /\ Init
  /\ at = [x \in Ctx |-> Rest(x)]
  /\ th = [x \in Ctx |-> None] /\ ob = [x \in Ctx |-> None]
  /\ own = [x \in Ctx |-> FALSE]
  /\ phase = [t \in Threads |-> "new"]
  /\ intent = [c \in Cpus |-> TRUE]

LockOf(x, name) ==
  CASE name = "own"    -> <<"unit", x[1]>>
    [] name = "unit"   -> <<"unit", Home[th[x]]>>
    [] name = "thread" -> <<"thread", th[x]>>
    [] name = "object" -> <<"object", ob[x]>>
    [] OTHER           -> <<name, None>>
-------------------------------------------------------------------------------
(* The functions, as rows: before which line, what is done, to which lock, *)
(* and before which line that leads.                                       *)

(* sched_thread_self masks the interrupts around its use of unit->lock,    *)
(* or finds no unit.                                                       *)
ThreadSelf(a, b, c, d, e, f) ==
  {<<a, "check", "", b>>, <<b, "mask", "", c>>, <<c, "lock", "own", d>>,
   <<d, "unlock", "own", e>>, <<e, "restore", "", f>>, <<c, "restore", "", f>>}

(* sched_wake_thread releases the lock that it took first first.           *)
WakeThread(a, b, c, d, e) ==
  {<<a, "lock", "unit", b>>, <<b, "lockInt", "thread", c>>,
   <<c, "unlock", "unit", d>>, <<d, "unlock", "thread", e>>}

(* sem_acquire, sem_release, mtx_acquire, mtx_release: under the object's  *)
(* lock they may ask who they are, and wake a waiter.                      *)
ObjectCall ==
  {<<"thread", "pickObject", "", "obj">>, <<"obj", "lockInt", "object", "in">>}
  \cup ThreadSelf("in", "in1", "in2", "in3", "in4", "known")
  \cup {<<"in", "pickLive", "", "wake">>, <<"known", "pickLive", "", "wake">>}
  \cup WakeThread("wake", "wake1", "wake2", "wake3", "out")
  \cup {<<a, "unlock", "object", "thread">> : a \in {"in", "known", "out"}}

(* sched_sleep, with a timer or for ever; the end of a thread is as the    *)
(* latter.                                                                 *)
Sleep ==
  {<<"thread", "pickSelf", "", "sleep">>, <<"sleep", "lockInt", "thread", "sleep1">>,
   <<"sleep1", "lockInt", "pend", "sleep2">>, <<"sleep2", "unlock", "pend", "sleep3">>,
   <<"sleep1", "unlock", "thread", "thread">>, <<"sleep3", "unlock", "thread", "thread">>}

(* sched_start_thread: pinned, and then enqueued.                          *)
StartThread ==
  {<<"thread", "pickNew", "", "start">>, <<"start", "lockInt", "thread", "start1">>,
   <<"start1", "lockInt", "unit", "start2">>, <<"start2", "unlock", "unit", "start3">>,
   <<"start3", "lock", "unit", "start4">>, <<"start4", "enqueue", "", "start5">>,
   <<"start5", "unlock", "unit", "start6">>, <<"start6", "unlock", "thread", "thread">>}

(* timer_dequeue, which looks into the one queue and then into the other.  *)
TimerDequeue ==
  {<<"thread", "check", "", "deq1">>, <<"deq1", "mask", "", "deq2">>,
   <<"deq2", "lock", "active", "deq3">>, <<"deq3", "unlock", "active", "deq4">>,
   <<"deq4", "lock", "pend", "deq5">>, <<"deq5", "unlock", "pend", "deq6">>,
   <<"deq4", "restore", "", "thread">>, <<"deq6", "restore", "", "thread">>}

(* sched_main, called from a thread or at the end of an interrupt; and     *)
(* timer_set_system_timer.                                                 *)
Schedule(rest, a) ==
  {<<rest, "lockInt", "own", a>>, <<a, "unlock", "own", rest>>}

SetTimer == {<<"thread", "lockInt", "active", "set">>, <<"set", "unlock", "active", "thread">>}

(* sched_tick.                                                             *)
SchedTick == {<<"service", "lock", "own", "tick">>, <<"tick", "unlock", "own", "service">>}

(* Faulty: the queues are locked together from the start.                  *)
TimerCallback_BothLocked ==
  {<<"service", "lock", "active", "queue0">>, <<"queue0", "lock", "pend", "queue">>,
   <<"queue", "pickLive", "", "due">>}
  \cup WakeThread("due", "due1", "due2", "due3", "queue")
  \cup {<<"queue", "unlock", "pend", "queue2">>, <<"queue2", "unlock", "active", "service">>}

(* timer_queue_callback wakes those whose time has come.                   *)
TimerCallback ==
  {<<"service", "lock", "active", "queue">>, <<"queue", "pickLive", "", "due">>}
  \cup WakeThread("due", "due1", "due2", "due3", "queue")
  \cup {<<"queue", "lock", "pend", "queue1">>, <<"queue1", "unlock", "pend", "queue2">>,
        <<"queue2", "unlock", "active", "service">>}

Program ==
  UNION {ThreadSelf("thread", "self1", "self2", "self3", "self4", "thread"), ObjectCall, Sleep,
         StartThread, TimerDequeue, Schedule("thread", "main"), SetTimer,
         SchedTick, Schedule("service", "resched"), TimerCallback}
-------------------------------------------------------------------------------
(* The steps.  A context goes from row to row when it is out of the calls  *)
(* of spinlock.c, and out of interrupts that it is under.                  *)
Goes(x, r) == at[x] = r[1] /\ at' = [at EXCEPT ![x] = r[4]]

Take(x, r) ==
  /\ Goes(x, r)
  /\ \/ r[2] = "lock" /\ Lock(x, LockOf(x, r[3]))
     \/ r[2] = "lockInt" /\ LockInt(x, LockOf(x, r[3]))
  /\ UNCHANGED <<th, ob, own, phase, intent>>

(* With the last release of a section its arguments are gone.              *)
Release(x, r) ==
  /\ r[2] = "unlock" /\ Goes(x, r) /\ Unlock(x, LockOf(x, r[3]))
  /\ IF r[4] = Rest(x) THEN th' = [th EXCEPT ![x] = None] /\ ob' = [ob EXCEPT ![x] = None]
     ELSE UNCHANGED <<th, ob>>
  /\ UNCHANGED <<own, phase, intent>>

(* cpu_int_check, cpu_int_lock and cpu_int_unlock outside of spinlock.c.   *)
Check(x, r) ==
  /\ r[2] = "check" /\ Goes(x, r) /\ Goto(x, "run", "run")
  /\ own' = [own EXCEPT ![x] = ifl[x[1]]]
  /\ UNCHANGED <<vars, th, ob, phase, intent>>

MaskIfOwn(x, r) ==
  /\ r[2] = "mask" /\ Goes(x, r)
  /\ IF own[x] THEN SetFlag(x, FALSE) ELSE Goto(x, "run", "run") /\ UNCHANGED vars
  /\ UNCHANGED <<th, ob, own, phase, intent>>

Restore(x, r) ==
  /\ r[2] = "restore" /\ Goes(x, r)
  /\ IF own[x] THEN SetFlag(x, TRUE) ELSE Goto(x, "run", "run") /\ UNCHANGED vars
  /\ own' = [own EXCEPT ![x] = FALSE]
  /\ UNCHANGED <<th, ob, phase, intent>>

(* What a section is about.  A thread sleeps on its own unit; those that   *)
(* are woken have run before; and a thread is started once.                *)
Pick(x, r) ==
  /\ Goes(x, r) /\ Goto(x, "run", "run")
  /\ \/ r[2] = "pickObject" /\ (\E o \in Objects : ob' = [ob EXCEPT ![x] = o])
                            /\ UNCHANGED <<th, phase>>
     \/ \E t \in Threads :
          /\ \/ r[2] = "pickSelf" /\ phase[t] = "live" /\ Home[t] = x[1] /\ UNCHANGED phase
             \/ r[2] = "pickLive" /\ phase[t] = "live" /\ UNCHANGED phase
             \/ r[2] = "pickNew" /\ phase[t] = "new" /\ phase' = [phase EXCEPT ![t] = "starting"]
          /\ th' = [th EXCEPT ![x] = t] /\ UNCHANGED ob
  /\ UNCHANGED <<vars, own, intent>>

(* sched_enq: from here on the thread can run, sleep, and be woken.        *)
Enqueue(x, r) ==
  /\ r[2] = "enqueue" /\ Goes(x, r) /\ Goto(x, "run", "run")
  /\ phase' = [phase EXCEPT ![th[x]] = "live"]
  /\ UNCHANGED <<vars, th, ob, own, intent>>

Do(x, r) ==
  \/ Take(x, r) \/ Release(x, r) \/ Check(x, r) \/ MaskIfOwn(x, r) \/ Restore(x, r)
  \/ Pick(x, r) \/ Enqueue(x, r)

(* The rest of a lock call.                                                *)
Proceed(x) ==
  /\ LockIntMask(x) \/ Acquire(x) \/ Unmask(x)
  /\ UNCHANGED <<at, th, ob, own, phase, intent>>

(* A thread that is in no section may mask and unmask its CPU.             *)
SetIntent(c, on) ==
  /\ at[<<c, "thread">>] = "thread" /\ SetFlag(<<c, "thread">>, on)
  /\ intent' = [intent EXCEPT ![c] = on]
  /\ UNCHANGED <<at, th, ob, own, phase>>

SecNext ==
  \/ \E x \in Ctx : Proceed(x) \/ \E r \in Program : Do(x, r)
  \/ \E c \in Cpus :
       \/ \E on \in BOOLEAN : SetIntent(c, on)
       \/ /\ Interrupt(c) \/ (IsrReturn(c) /\ at[<<c, "isr">>] = "service")
          /\ UNCHANGED <<at, th, ob, own, phase, intent>>

SecSpec == SecInit /\ [][SecNext]_secVars
-------------------------------------------------------------------------------
(* A service routine never waits for a lock that the thread it interrupted *)
(* holds: nobody could release it.  This is what the _int variants are     *)
(* for, and the masking around unit->lock in sched_thread_self; it takes   *)
(* their order, and that no release under an outer lock unmasks.           *)
NoSelfDeadlock ==
  \A c \in Cpus : inIsr[c] /\ pc[<<c, "isr">>] = "spin"
                    => want[<<c, "isr">>] \notin held[<<c, "thread">>]

(* Whoever holds a lock has its CPU masked, from the first lock of a       *)
(* section to the last release, whatever the order of the releases; and a  *)
(* thread that is out of its sections finds its interrupts as it had set   *)
(* them itself.                                                            *)
InterruptsRestored ==
  \A c \in Cpus, k \in {"thread", "isr"} :
    /\ held[<<c, k>>] # {} => ~ifl[c]
    /\ ~inIsr[c] /\ at[<<c, "thread">>] = "thread" /\ pc[<<c, "thread">>] = "run"
         => ifl[c] = intent[c]

(* What x cannot go on without: the lock it spins on, the end of the       *)
(* routine that interrupts it.                                             *)
WaitsFor(x, y) ==
  \/ pc[x] = "spin" /\ want[x] \in held[y]
  \/ x[2] = "thread" /\ inIsr[x[1]] /\ y = <<x[1], "isr">>

(* No contexts wait for each other, in a circle of whatever length: though *)
(* sched_start_thread takes th->lock and then unit->lock, and              *)
(* sched_wake_thread unit->lock and then th->lock, and though a timer's    *)
(* callback wakes under the lock of a queue that sleepers go into.         *)
NoDeadlock ==
  \A S \in (SUBSET Ctx) \ {{}} : \E x \in S : \A y \in S : ~WaitsFor(x, y)
===============================================================================
