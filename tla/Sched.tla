--------------------------------- MODULE Sched ---------------------------------
(***************************************************************************)
(* kernel/sched: the execution units (one per CPU), the basic policy's run *)
(* queues and the idle policy behind it, thread start, sleep, wake, tick,  *)
(* preemption and exit.                                                    *)
(*                                                                         *)
(* A section under unit->lock or th->lock is one action: Spinlock shows    *)
(* that these exclude one another.  Between two sections of a call come    *)
(* steps of other CPUs, and interrupts on the same one.                    *)
(*                                                                         *)
(* The run queues are lists of linked_list.c, at pointer level: sched_node *)
(* of a thread is put at the head of a queue whether it is on it or not.   *)
(* The idle thread of unit u is written u.                                 *)
(***************************************************************************)
EXTENDS LinkedList, FiniteSets

CONSTANTS
  Units,      \* the execution units, numbers that are no threads
  Threads,    \* the threads other than the idle ones
  Bsp,        \* the unit of the bootstrap processor
  Main,       \* kmain_sys_init, started by sched_unit_init on Bsp
  Prio,       \* Prio[t]: th->prio, the ticks a thread may run when selected
  MaxPreempt  \* bound on unit->preempt_lock

ASSUME SchedAssumption ==
  /\ Units \subseteq Lists /\ Nodes = Threads
  /\ Units \cap Threads = {} /\ NULL \notin Units
  /\ IsFiniteSet(Threads) /\ Cardinality(Threads) < CountMod
  /\ Bsp \in Units /\ Main \in Threads
  /\ Prio \in [Threads -> Nat] /\ MaxPreempt \in Nat

VARIABLES
  units,     \* the list of initialised units
  heap,      \* the run queues and the sched_nodes
  cur,       \* cur[u]: unit->current
  preempt,   \* preempt[u]: unit->preempt_lock
  irq,       \* irq[u]: a handler has run on u and isr_dispatcher is to end
  start,     \* start[u]: the thread u is starting and its unit, or <<>>
  unit,      \* unit[t]: th->unit
  flags,     \* flags[x]: th->flags
  cpuLeft,   \* cpuLeft[x]: th->cpu_left
  pc,        \* pc[t]: where thread t is in the calls it makes
  timer,     \* timer[t]: the timer of t's sleep is queued
  clean      \* history: every wake has found its thread off its run queue

unitVars   == <<units, cur, preempt, irq, start>>
threadVars == <<unit, flags, cpuLeft, pc, timer>>
schedVars  == <<unitVars, threadVars, heap, clean>>

All == Threads \cup Units

SchedInit ==
  /\ units = <<>>
  /\ heap = EmptyHeap
  /\ cur = [u \in Units |-> NULL]
  /\ preempt = [u \in Units |-> 0]
  /\ irq = [u \in Units |-> FALSE]
  /\ start = [u \in Units |-> <<>>]
  /\ unit = [t \in Threads |-> NULL]
  /\ flags = [x \in All |-> {"READY"}]
  /\ cpuLeft = [x \in All |-> 0]
  /\ pc = [t \in Threads |-> "new"]
  /\ timer = [t \in Threads |-> FALSE]
  /\ clean = TRUE

-------------------------------------------------------------------------------
(* CPU u has its interrupts enabled and is in no handler.                  *)
Open(u) == cur[u] # NULL /\ ~irq[u] /\ start[u] = <<>>

(* t runs its own code, at `at`.                                           *)
At(t, at) == unit[t] # NULL /\ cur[unit[t]] = t /\ Open(unit[t]) /\ pc[t] = at

Goto(t, to) == pc' = [pc EXCEPT ![t] = to]

OnQueue(h, u, t) ==
  LET q == Forward(h, u, Cardinality(Threads)) IN \E i \in DOMAIN q : q[i] = t

Ready(t) == "READY" \in flags[t]

(* Faulty: put_prev leaves the thread where it is in the queue.            *)
QueueWithout_Stays(u, prev) ==
  IF prev \notin Threads \/ Ready(prev) THEN heap ELSE Remove(heap, u, prev)

(* Faulty: the thread that goes to sleep is queued again like any other.   *)
QueueWithout_Unblocked(u, prev) ==
  IF prev \notin Threads THEN heap ELSE AddHead(Remove(heap, u, prev), u, prev)

(* sched_block_thread or basic_put_prev_thread for the thread that leaves  *)
(* the CPU; those of the idle policy do nothing.                           *)
QueueWithout(u, prev) ==
  IF prev \notin Threads THEN heap
  ELSE IF Ready(prev) THEN AddHead(Remove(heap, u, prev), u, prev)
  ELSE Remove(heap, u, prev)

(* sched_pick_next: the last thread of the basic policy, else the idle one *)
Pick(h, u) == IF Last(h, u) = NULL THEN u ELSE Last(h, u)

Quantum(x) == IF x \in Threads THEN Prio[x] ELSE 0

(* sched_main on u.                                                        *)
Switch(u) ==
  IF preempt[u] > 0 THEN UNCHANGED <<heap, cur, cpuLeft>>
  ELSE LET next == Pick(QueueWithout(u, cur[u]), u)
       IN  /\ heap' = QueueWithout(u, cur[u])
           /\ cpuLeft' = [cpuLeft EXCEPT ![next] = Quantum(next)]
           /\ cur' = [cur EXCEPT ![u] = next]

-------------------------------------------------------------------------------
(* Bringing units up and starting threads.                                 *)

(* Main starts the other processors once the bootstrap one schedules; one  *)
(* of them may take its time to come here.                                 *)
UnitInit(u) ==
  /\ \A i \in DOMAIN units : units[i] # u
  /\ u = Bsp \/ cur[Bsp] # NULL
  /\ units' = Append(units, u)
  /\ UNCHANGED <<cur, preempt, irq, start, threadVars, heap, clean>>

(* The schedule() that ends sched_unit_init, on Bsp after the start of     *)
(* Main.                                                                   *)
FirstSchedule(u) ==
  /\ \E i \in DOMAIN units : units[i] = u
  /\ cur[u] = NULL /\ start[u] = <<>>
  /\ u = Bsp => pc[Main] = "run"
  /\ Switch(u)
  /\ UNCHANGED <<units, preempt, irq, start, unit, flags, pc, timer, clean>>

Pinned(u) == {t \in Threads : unit[t] = u}

(* sched_find_least_used_unit: the first unit of the list with the fewest  *)
(* threads, counted without the locks of the units.                        *)
LeastUsed ==
  LET least(i) == \A j \in DOMAIN units :
        Cardinality(Pinned(units[i])) <= Cardinality(Pinned(units[j]))
  IN  units[CHOOSE i \in DOMAIN units : least(i) /\ \A j \in DOMAIN units : least(j) => i <= j]

(* The code on u that calls sched_start_thread: the initialisation of Bsp  *)
(* for Main, a running thread for the others.                              *)
MayStart(u, t) ==
  /\ pc[t] = "new" /\ start[u] = <<>>
  /\ IF t = Main THEN u = Bsp /\ cur[u] = NULL /\ units # <<>>
     ELSE cur[u] \in Threads /\ At(cur[u], "run")

StartPick(u, t) ==
  /\ MayStart(u, t)
  /\ start' = [start EXCEPT ![u] = <<t, LeastUsed>>]
  /\ Goto(t, "starting")
  /\ UNCHANGED <<units, cur, preempt, irq, unit, flags, cpuLeft, timer, heap, clean>>

StartPin(u) ==
  /\ start[u] # <<>> /\ unit[start[u][1]] = NULL
  /\ unit' = [unit EXCEPT ![start[u][1]] = start[u][2]]
  /\ UNCHANGED <<unitVars, flags, cpuLeft, pc, timer, heap, clean>>

(* Faulty: the thread is queued on the unit that starts it.                *)
StartEnq_Here(u) ==
  /\ start[u] # <<>> /\ unit[start[u][1]] # NULL
  /\ heap' = AddHead(heap, u, start[u][1])
  /\ Goto(start[u][1], "run")
  /\ start' = [start EXCEPT ![u] = <<>>]
  /\ UNCHANGED <<units, cur, preempt, irq, unit, flags, cpuLeft, timer, clean>>

StartEnq(u) ==
  /\ start[u] # <<>> /\ unit[start[u][1]] # NULL
  /\ heap' = AddHead(heap, unit[start[u][1]], start[u][1])
  /\ Goto(start[u][1], "run")
  /\ start' = [start EXCEPT ![u] = <<>>]
  /\ UNCHANGED <<units, cur, preempt, irq, unit, flags, cpuLeft, timer, clean>>

-------------------------------------------------------------------------------
(* Interrupts.                                                             *)

(* The timer of u ticks: the policy counts cpu_left down, and at 0 asks    *)
(* for a task switch.                                                      *)
Tick(u) ==
  /\ Open(u)
  /\ irq' = [irq EXCEPT ![u] = TRUE]
  /\ \/ /\ cpuLeft[cur[u]] > 0
        /\ cpuLeft' = [cpuLeft EXCEPT ![cur[u]] = @ - 1]
        /\ UNCHANGED flags
     \/ /\ cpuLeft[cur[u]] = 0
        /\ flags' = IF preempt[u] > 0 THEN flags
                    ELSE [flags EXCEPT ![cur[u]] = @ \cup {"NEED_RESCHEDULE"}]
        /\ UNCHANGED cpuLeft
  /\ UNCHANGED <<units, cur, preempt, start, unit, pc, timer, heap, clean>>

(* Faulty: the woken thread is queued and not marked ready.                *)
Wakes_Unready(t) ==
  /\ heap' = AddHead(heap, unit[t], t)
  /\ clean' = (clean /\ ~OnQueue(heap, unit[t], t))
  /\ UNCHANGED flags

(* sched_wake_thread, whoever calls it.                                    *)
Wakes(t) ==
  /\ flags' = [flags EXCEPT ![t] = @ \cup {"READY"}]
  /\ heap' = AddHead(heap, unit[t], t)
  /\ clean' = (clean /\ ~OnQueue(heap, unit[t], t))

(* sched_timer_wake_thread: the one-shot timer of t expires on CPU u.      *)
TimerIsr(u, t) ==
  /\ Open(u) /\ timer[t]
  /\ timer' = [timer EXCEPT ![t] = FALSE]
  /\ irq' = [irq EXCEPT ![u] = TRUE]
  /\ Wakes(t)
  /\ UNCHANGED <<units, cur, preempt, start, unit, cpuLeft, pc>>

(* The end of isr_dispatcher: schedule() if sched_need_resched says so.    *)
(* NEED_RESCHEDULE is never cleared.                                       *)
IsrEnd(u) ==
  /\ irq[u]
  /\ irq' = [irq EXCEPT ![u] = FALSE]
  /\ IF "NEED_RESCHEDULE" \in flags[cur[u]] THEN Switch(u) ELSE UNCHANGED <<heap, cur, cpuLeft>>
  /\ UNCHANGED <<units, preempt, start, unit, flags, pc, timer, clean>>

-------------------------------------------------------------------------------
(* What threads call.                                                      *)

(* sched_sleep up to the release of th->lock: not ready, and a timer       *)
(* queued unless it waits for ever.  `to` is where the caller sleeps.      *)
SleepPrep(t, timed, to) ==
  /\ flags' = [flags EXCEPT ![t] = @ \ {"READY"}]
  /\ timer' = [timer EXCEPT ![t] = timed]
  /\ Goto(t, to)
  /\ UNCHANGED <<unitVars, unit, cpuLeft, heap, clean>>

(* The schedule() of sched_sleep, and of sched_yield.                      *)
Calls(t, from, to) ==
  /\ At(t, from)
  /\ Goto(t, to)
  /\ Switch(unit[t])
  /\ UNCHANGED <<units, preempt, irq, start, unit, flags, timer, clean>>

(* timer_dequeue, when the sleeper runs again.                             *)
SleepEnd(t, from, to) ==
  /\ At(t, from)
  /\ timer' = [timer EXCEPT ![t] = FALSE]
  /\ Goto(t, to)
  /\ UNCHANGED <<unitVars, unit, flags, cpuLeft, heap, clean>>

Sleep(t)         == At(t, "run") /\ SleepPrep(t, TRUE, "slept")
SleepSchedule(t) == Calls(t, "slept", "asleep")
SleepReturn(t)   == SleepEnd(t, "asleep", "run")
Yield(t)         == Calls(t, "run", "run")

(* sched_thread_exit: marked dead, then a yield like any other.            *)
Exit(t) ==
  /\ At(t, "run") /\ "DEAD" \notin flags[t]
  /\ flags' = [flags EXCEPT ![t] = @ \cup {"DEAD"}]
  /\ Goto(t, "exiting")
  /\ UNCHANGED <<unitVars, unit, cpuLeft, timer, heap, clean>>

ExitYield(t) == Calls(t, "exiting", "run")

(* The entry function returns: sched_thread_entry_point marks the thread   *)
(* dead and loops.                                                         *)
EntryReturns(t) ==
  /\ At(t, "run")
  /\ flags' = [flags EXCEPT ![t] = @ \cup {"DEAD"}]
  /\ Goto(t, "ended")
  /\ UNCHANGED <<unitVars, unit, cpuLeft, timer, heap, clean>>

DisablePreempt(t) ==
  /\ At(t, "run") /\ preempt[unit[t]] < MaxPreempt
  /\ preempt' = [preempt EXCEPT ![unit[t]] = @ + 1]
  /\ UNCHANGED <<units, cur, irq, start, threadVars, heap, clean>>

EnablePreempt(t) ==
  /\ At(t, "run") /\ preempt[unit[t]] > 0
  /\ preempt' = [preempt EXCEPT ![unit[t]] = @ - 1]
  /\ UNCHANGED <<units, cur, irq, start, threadVars, heap, clean>>

-------------------------------------------------------------------------------
UnitNext(u) ==
  \/ UnitInit(u) \/ FirstSchedule(u) \/ StartPin(u) \/ StartEnq(u) \/ Tick(u) \/ IsrEnd(u)
  \/ \E t \in Threads : StartPick(u, t) \/ TimerIsr(u, t)

CallNext(t) == SleepSchedule(t) \/ SleepReturn(t) \/ ExitYield(t)

ThreadNext(t) ==
  \/ CallNext(t) \/ Sleep(t) \/ Yield(t) \/ Exit(t) \/ EntryReturns(t)
  \/ DisablePreempt(t) \/ EnablePreempt(t)

SchedNext == (\E u \in Units : UnitNext(u)) \/ (\E t \in Threads : ThreadNext(t))

(* Timers tick and expire, handlers end, and code that is in a call goes   *)
(* on when it has the CPU often enough: ticks cannot keep it from moving   *)
(* for ever.                                                               *)
SchedFairness ==
  /\ \A u \in Units : /\ WF_schedVars(UnitInit(u)) /\ WF_schedVars(FirstSchedule(u))
                      /\ WF_schedVars(StartPin(u) \/ StartEnq(u))
                      /\ SF_schedVars(Tick(u)) /\ WF_schedVars(IsrEnd(u))
  /\ \A t \in Threads : /\ SF_schedVars(\E u \in Units : TimerIsr(u, t))
                        /\ SF_schedVars(CallNext(t))

(* While the queues are exact, the links of a thread that is on none are   *)
(* written before they are read: two states that differ in them alone      *)
(* behave alike.                                                           *)
LiveLinks(field) ==
  IF clean THEN [t \in {x \in Threads : unit[x] # NULL /\ OnQueue(heap, unit[x], x)} |-> field[t]]
  ELSE field

SchedView == <<unitVars, threadVars, LiveLinks(heap.next), LiveLinks(heap.prev),
               heap.head, heap.tail, heap.count, clean>>

SchedSpec == SchedInit /\ [][SchedNext]_schedVars
SchedFairSpec == SchedSpec /\ SchedFairness

-------------------------------------------------------------------------------
SchedTypeOK ==
  /\ units \in Seq(Units) /\ heap \in Heap
  /\ \A u \in Units : cur[u] \in Threads \cup {u, NULL}
  /\ preempt \in [Units -> 0 .. MaxPreempt]
  /\ irq \in [Units -> BOOLEAN]
  /\ start \in [Units -> {<<>>} \cup (Threads \X Units)]
  /\ unit \in [Threads -> Units \cup {NULL}]
  /\ flags \in [All -> SUBSET {"READY", "DEAD", "NEED_RESCHEDULE"}]
  /\ cpuLeft \in [All -> Nat]
  /\ pc \in [Threads -> {"new", "starting", "run", "slept", "asleep", "exiting", "ended"}]
  /\ timer \in [Threads -> BOOLEAN] /\ clean \in BOOLEAN

(* The threads the queue of u should hold: those that can run, and the one *)
(* that still does.                                                        *)
Runnable(u) == {t \in Pinned(u) : pc[t] # "starting" /\ (Ready(t) \/ cur[u] = t)}

(* While every wake finds its thread asleep, the queue of a unit is a well *)
(* formed list, without repetition, of exactly the threads that should be  *)
(* on it.  Sleeps, ticks, timers and starts of several CPUs take part.     *)
QueueExact ==
  clean => \A u \in Units :
    LET q == Forward(heap, u, Cardinality(Threads) + 1)
    IN  /\ IsList(heap, u, q)
        /\ {q[i] : i \in DOMAIN q} = Runnable(u)
        /\ Len(q) = Cardinality(Runnable(u))

(* A thread runs on its own unit and so never on two, even once early      *)
(* wakes have tangled the queues.                                          *)
OwnUnit ==
  \A u \in Units : /\ cur[u] \in Threads => unit[cur[u]] = u
                   /\ \A v \in Units : cur[u] = cur[v] /\ cur[u] # NULL => u = v

(* A thread that sleeps for a time is never forgotten: it is ready, or its *)
(* timer is still there to wake it, however early it was woken before.     *)
SleepersHaveTimers ==
  \A t \in Threads : pc[t] \in {"slept", "asleep"} => Ready(t) \/ timer[t]

(* A started thread that is ready, or has a timer to make it so, gets its  *)
(* unit, whatever the others do: none has to yield for it.  That is so     *)
(* while every wake finds its thread asleep and preemption is left         *)
(* enabled.                                                                *)
NoStarvation ==
  [](clean /\ \A u \in Units : preempt[u] = 0) => \A t \in Threads :
     pc[t] \notin {"new", "starting"} /\ (Ready(t) \/ timer[t])
        ~> (unit[t] # NULL /\ cur[unit[t]] = t)
===============================================================================
