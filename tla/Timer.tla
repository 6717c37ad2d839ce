--------------------------------- MODULE Timer ---------------------------------
(* kernel/timer.c: the queue of armed timers, the one that timers wait in  *)
(* until the next tick, and the callback that runs in the service routine  *)
(* of the device.  A timer lies in the stack frame of whoever arms it, its *)
(* owner: sched_sleep, which takes it out again before it returns, or      *)
(* apic_timer_init, which only waits for its callback.                     *)
(*                                                                         *)
(* The callback holds lock_active_q from its beginning to its end, and     *)
(* lock_pend_q while it empties that queue; every other section under one  *)
(* of the locks is a step.  A queue is a set: the order of expiry among    *)
(* the timers of one tick is left open.                                    *)
EXTENDS Integers, FiniteSets

CONSTANTS
  Sleepers,   \* the timers of sched_sleep
  Pollers,    \* the timers of apic_timer_init
  Remote,     \* those that are armed on a CPU which does not run the callback
  Periodic,   \* timers armed with TIMER_PERIODIC
  Second,     \* nanoseconds of a second
  Step,       \* the resolution of the device
  Need,       \* of each timer: to_sleep
  NoTimer        \* no timer

Timers == Sleepers \cup Pollers \cup Periodic

TimeSpec == [seconds : Nat, nanosec : 0 .. Second - 1]

ASSUME TimerAssumption ==
  /\ NoTimer \notin Timers /\ Remote \subseteq Pollers
  /\ Sleepers \cap Pollers = {} /\ Periodic \cap (Sleepers \cup Pollers) = {}
  /\ Second \in Nat \ {0} /\ Step \in TimeSpec /\ Need \in [Timers -> TimeSpec]

VARIABLES
  active, pending,  \* active_q, pend_q
  processed,        \* the timers with TIMER_PROCESSED
  cursor,           \* of each timer: cursor
  isr,              \* the callback: its place, the timer it is at, those still to come
  owner,            \* of each timer: where its owner is
  fired,            \* history: the callback of the timer has been called since it was armed
  age,              \* history: the ticks that have ended since then, or since it was called
  missed            \* history: the timers moved while timer_dequeue was between the queues

timerVars == <<active, pending, processed, cursor, isr, owner, fired, age, missed>>
queues == <<active, pending>>

ZeroTime == [seconds |-> 0, nanosec |-> 0]
Idle == [pc |-> "idle", at |-> NoTimer, todo |-> {}]

TimerInit ==
  /\ active = {} /\ pending = {} /\ processed = {}
  /\ cursor = [t \in Timers |-> ZeroTime]
  /\ isr = Idle
  /\ owner = [t \in Timers |-> "out"]
  /\ fired = [t \in Timers |-> FALSE]
  /\ age = [t \in Timers |-> 0]
  /\ missed = {}
-------------------------------------------------------------------------------
(* timer_increment                                                         *)
Incremented(c, s) ==
  LET n == c.nanosec + s.nanosec
  IN  [seconds |-> c.seconds + s.seconds + (IF n >= Second THEN 1 ELSE 0),
       nanosec |-> IF n >= Second THEN n - Second ELSE n]

(* Faulty: the seconds do not come first.                                  *)
Expired_AnyOrder(target, c) ==
  target.seconds <= c.seconds /\ target.nanosec <= c.nanosec

(* timer_expired                                                           *)
Expired(target, c) ==
  \/ target.seconds < c.seconds
  \/ target.seconds = c.seconds /\ target.nanosec <= c.nanosec

(* timer_enqeue_static clears the timer first.  A poller arms its timer    *)
(* once; nobody arms a timer that is queued, as long as dequeuing works.   *)
TimerEnqueue(t) ==
  /\ owner[t] = "out" /\ t \notin active \cup pending
  /\ t \in Pollers => ~fired[t]
  /\ cursor' = [cursor EXCEPT ![t] = ZeroTime]
  /\ processed' = processed \ {t}
  /\ pending' = pending \cup {t}
  /\ owner' = [owner EXCEPT ![t] = "armed"]
  /\ fired' = [fired EXCEPT ![t] = FALSE]
  /\ age' = [age EXCEPT ![t] = 0]
  /\ missed' = missed \ {t}
  /\ UNCHANGED <<active, isr>>
-------------------------------------------------------------------------------
(* timer_queue_callback: the walk over active_q, which nobody else changes *)
(* meanwhile, and then the move of what is pending.                        *)
TickBegin ==
  /\ isr.pc = "idle"
  /\ isr' = [pc |-> "walk", at |-> NoTimer, todo |-> active]
  /\ UNCHANGED <<queues, processed, cursor, owner, fired, age, missed>>

Advance(t) ==
  LET c == Incremented(cursor[t], Step)
  IN  /\ isr.pc = "walk" /\ t \in isr.todo
      /\ cursor' = [cursor EXCEPT ![t] = c]
      /\ isr' = [pc |-> IF Expired(Need[t], c) THEN "call" ELSE "walk",
                 at |-> t, todo |-> isr.todo \ {t}]
      /\ UNCHANGED <<queues, processed, owner, fired, age, missed>>

(* The callback of the timer, which wakes the sleeper or sets its flag.    *)
TimerCall ==
  /\ isr.pc = "call"
  /\ fired' = [fired EXCEPT ![isr.at] = TRUE]
  /\ IF isr.at \in Periodic
     THEN /\ cursor' = [cursor EXCEPT ![isr.at] = ZeroTime]
          /\ age' = [age EXCEPT ![isr.at] = 0]
          /\ isr' = [isr EXCEPT !.pc = "walk"]
     ELSE isr' = [isr EXCEPT !.pc = "unlink"] /\ UNCHANGED <<cursor, age>>
  /\ UNCHANGED <<queues, processed, owner, missed>>

Unlink ==
  /\ isr.pc = "unlink"
  /\ active' = active \ {isr.at}
  /\ processed' = processed \cup {isr.at}
  /\ isr' = [isr EXCEPT !.pc = "walk"]
  /\ UNCHANGED <<pending, cursor, owner, fired, age, missed>>

(* Faulty: what is pending waits until nothing is active.                  *)
TickEnd_WhenIdle ==
  /\ isr.pc = "walk" /\ isr.todo = {}
  /\ active' = IF active = {} THEN pending ELSE active
  /\ pending' = IF active = {} THEN {} ELSE pending
  /\ age' = [t \in Timers |-> IF t \in active THEN age[t] + 1 ELSE age[t]]
  /\ isr' = Idle
  /\ UNCHANGED <<processed, cursor, owner, fired, missed>>

(* linked_list_concat, under both locks.                                   *)
TickEnd ==
  /\ isr.pc = "walk" /\ isr.todo = {}
  /\ active' = active \cup pending
  /\ pending' = {}
  /\ age' = [t \in Timers |-> IF t \in active \cup pending THEN age[t] + 1 ELSE age[t]]
  /\ missed' = missed \cup {t \in pending : owner[t] = "pending"}
  /\ isr' = Idle
  /\ UNCHANGED <<processed, cursor, owner, fired>>
-------------------------------------------------------------------------------
(* timer_dequeue: TIMER_PROCESSED is read without a lock, then each queue  *)
(* is searched under its own.  sched_sleep calls it whenever it has been   *)
(* woken, by the timer or by somebody else.                                *)
Goto(t, from, to) == owner[t] = from /\ owner' = [owner EXCEPT ![t] = to]

Dequeue(t) ==
  /\ t \in Sleepers
  /\ Goto(t, "armed", IF t \in processed THEN "out" ELSE "active")
  /\ UNCHANGED <<queues, processed, cursor, isr, fired, age, missed>>

(* Faulty: only active_q is searched.                                      *)
DequeueActive_Only(t) ==
  /\ isr.pc = "idle" /\ Goto(t, "active", "out")
  /\ active' = active \ {t}
  /\ UNCHANGED <<pending, processed, cursor, isr, fired, age, missed>>

DequeueActive(t) ==
  /\ isr.pc = "idle" /\ Goto(t, "active", IF t \in active THEN "out" ELSE "pending")
  /\ active' = active \ {t}
  /\ UNCHANGED <<pending, processed, cursor, isr, fired, age, missed>>

DequeuePending(t) ==
  /\ Goto(t, "pending", "out")
  /\ pending' = pending \ {t}
  /\ UNCHANGED <<active, processed, cursor, isr, fired, age, missed>>

(* apic_timer_init returns when its flag is set.  On the CPU that runs the *)
(* callback it does not see the flag before the callback is over.          *)
PollEnds(t) ==
  /\ t \in Pollers /\ fired[t] /\ (t \in Remote \/ isr.pc = "idle")
  /\ Goto(t, "armed", "out")
  /\ UNCHANGED <<queues, processed, cursor, isr, fired, age, missed>>
-------------------------------------------------------------------------------
Callback == TickBegin \/ (\E t \in Timers : Advance(t)) \/ TimerCall \/ Unlink \/ TickEnd

TimerNext ==
  \/ TickBegin \/ TimerCall \/ Unlink \/ TickEnd
  \/ \E t \in Timers : \/ TimerEnqueue(t) \/ Advance(t) \/ Dequeue(t)
                       \/ DequeueActive(t) \/ DequeuePending(t) \/ PollEnds(t)

(* The device ticks, and its service routine runs to its end.              *)
TimerSpec == TimerInit /\ [][TimerNext]_timerVars
TimerFairSpec == TimerSpec /\ WF_timerVars(Callback)
-------------------------------------------------------------------------------
TimerTypeOK ==
  /\ active \subseteq Timers /\ pending \subseteq Timers /\ processed \subseteq Timers
  /\ cursor \in [Timers -> TimeSpec]
  /\ isr \in [pc : {"idle", "walk", "call", "unlink"}, at : Timers \cup {NoTimer}, todo : SUBSET Timers]
  /\ owner \in [Timers -> {"out", "armed", "active", "pending"}]
  /\ fired \in [Timers -> BOOLEAN] /\ age \in [Timers -> Nat] /\ missed \subseteq Timers

(* When an owner's stack frame is gone its timer is in no queue, and the   *)
(* callback is not about to touch it.  Two races of the code are apart: a  *)
(* timer that the tick moves while timer_dequeue is between the queues,    *)
(* and a poller on another CPU, which leaves when its flag is set although *)
(* the callback has yet to take its timer out of the queue.                *)
QueuedTimersOwned ==
  \A t \in Timers :
    owner[t] = "out" /\ t \in active \cup pending =>
      t \in missed \/ (t \in Remote /\ isr.pc = "unlink" /\ isr.at = t)

(* A timer that is called is due, and was not due a tick earlier: carries  *)
(* from nanoseconds to seconds, the order of the comparison, and the tick  *)
(* that a timer spends in pend_q, all enter here.  One that is not         *)
(* periodic is called once each time it is armed.                          *)
Time(c) == c.seconds * Second + c.nanosec

OnTime ==
  isr.pc = "call" =>
    LET t == isr.at
    IN  /\ age[t] * Time(Step) >= Time(Need[t])
        /\ (age[t] - 1) * Time(Step) < Time(Need[t])
        /\ t \notin Periodic => ~fired[t]

(* An armed timer is called, or its owner takes it back.                   *)
Rings == \A t \in Timers : owner[t] = "armed" ~> fired[t] \/ owner[t] # "armed"
===============================================================================
