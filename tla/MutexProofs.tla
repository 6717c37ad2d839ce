------------------------------ MODULE MutexProofs ------------------------------
(***************************************************************************)
(* A mutex that is not acquired recursively, for any number of units and   *)
(* threads, with timeouts and hand-overs, and whatever early wakes have    *)
(* made of the run queues: it excludes, FIFO or by priority; its pend      *)
(* queue holds exactly the threads that wait, and who is handed the mutex  *)
(* finds out, when nobody is inserted before another.                      *)
(*                                                                         *)
(* Exclusion is not inductive: a waiter that is woken acquires without a   *)
(* look at what it already holds.  It holds nothing, because it began to   *)
(* wait for a mutex that somebody else owned.  A release hands the mutex   *)
(* to the first of the pend queue, so that the others need the list to be  *)
(* well formed, and the recursion level to be that of one acquire.         *)
(***************************************************************************)
EXTENDS Mutex, SchedProofs

HeldInv ==
  /\ held \in [Threads -> Nat]
  /\ DOMAIN pc = Threads
  /\ Exclusion
  /\ \A t \in Threads : held[t] <= 1
  /\ \A t \in Waiters : held[t] = 0

LEMMA HeldInit == Init => HeldInv
<1> SUFFICES ASSUME Init PROVE HeldInv OBVIOUS
<1>1. /\ held = [t \in Threads |-> 0]
      /\ pc = [t \in Threads |-> "new"]
  BY DEF Init, SchedInit
<1> QED BY <1>1 DEF HeldInv, Exclusion, Waiters, Waiting

(* A step by which nobody acquires or releases and nobody begins to wait.  *)
LEMMA HeldKept ==
  ASSUME HeldInv, UNCHANGED mutexVars, DOMAIN pc' = Threads,
         \A t \in Threads : pc'[t] \in Waiting => pc[t] \in Waiting
  PROVE  HeldInv'
<1>1. UNCHANGED <<owner, held>> BY DEF mutexVars
<1>2. Exclusion' BY <1>1 DEF HeldInv, Exclusion
<1>3. Waiters' \subseteq Waiters BY DEF Waiters
<1> QED BY <1>1, <1>2, <1>3 DEF HeldInv

(* The scheduler on its own: starts and yields.                            *)
LEMMA HeldUnit ==
  ASSUME HeldInv, NEW u \in Units, UnitNext(u), UNCHANGED mutexVars
  PROVE  HeldInv'
<1>1. DOMAIN pc = Threads BY DEF HeldInv
<1>2. CASE \/ UnitInit(u) \/ FirstSchedule(u) \/ StartPin(u) \/ Tick(u) \/ IsrEnd(u)
           \/ \E t \in Threads : TimerIsr(u, t)
  <2>1. pc' = pc
    BY <1>2 DEF UnitInit, FirstSchedule, StartPin, Tick, IsrEnd, TimerIsr, threadVars
  <2> QED BY <2>1, <1>1, HeldKept
<1>3. CASE StartEnq(u) \/ \E t \in Threads : StartPick(u, t)
  <2>1. PICK at \in {"run", "starting"} : \E x : pc' = [pc EXCEPT ![x] = at]
    BY <1>3 DEF StartEnq, StartPick, Goto
  <2>2. DOMAIN pc' = Threads BY <2>1, <1>1
  <2>3. \A t \in Threads : pc'[t] \in Waiting => pc[t] \in Waiting
    BY <2>1, <1>1 DEF Waiting
  <2> QED BY <2>2, <2>3, HeldKept
<1> QED BY <1>2, <1>3 DEF UnitNext

(* The steps of a thread that moves on, between two places where it waits  *)
(* or two where it does not.                                               *)
LEMMA HeldMove ==
  ASSUME HeldInv, NEW t \in Threads,
         Yield(t) \/ MtxSleep(t) \/ MtxSchedule(t) \/ MtxWoken(t), UNCHANGED mutexVars
  PROVE  HeldInv'
<1>1. DOMAIN pc = Threads BY DEF HeldInv
<1>2. \/ pc[t] = "run" /\ pc' = [pc EXCEPT ![t] = "run"]
      \/ pc[t] \in Waiting /\ \E to : pc' = [pc EXCEPT ![t] = to]
  BY DEF Yield, MtxSleep, MtxSchedule, MtxWoken, Calls, SleepPrep, SleepEnd, At, Goto, Waiting
<1>3. DOMAIN pc' = Threads BY <1>1, <1>2
<1>4. \A x \in Threads : pc'[x] \in Waiting => pc[x] \in Waiting
  BY <1>1, <1>2 DEF Waiting
<1> QED BY <1>3, <1>4, HeldKept

(* t becomes or stays the owner; it must not hold the mutex yet.           *)
LEMMA HeldOwn ==
  ASSUME HeldInv, NEW t \in Threads, held[t] = 0, Own(t)
  PROVE  HeldInv'
<1> USE SchedAssumption, ListAssumption
<1>1. /\ owner \in {NULL, t} /\ owner' = t
      /\ held' = [held EXCEPT ![t] = held[t] + 1]
      /\ pc' = [pc EXCEPT ![t] = "run"]
  BY DEF Own, Goto
<1>2. NULL \notin Threads OBVIOUS
<1>3. \A x \in Threads : x # t => held[x] = 0
  BY <1>1, <1>2 DEF HeldInv, Exclusion
<1>4. held' \in [Threads -> Nat] /\ held'[t] = 1 /\ \A x \in Threads : x # t => held'[x] = 0
  BY <1>1, <1>3 DEF HeldInv
<1>5. DOMAIN pc' = Threads BY <1>1 DEF HeldInv
<1>6. pc'[t] = "run" BY <1>1 DEF HeldInv
<1>7. \A x \in Waiters' : held'[x] = 0 BY <1>4, <1>6 DEF Waiters, Waiting
<1>8. Exclusion' BY <1>1, <1>4 DEF Exclusion
<1> QED BY <1>4, <1>5, <1>7, <1>8 DEF HeldInv

(* t does not get the mutex: it begins to wait, waits again, or gives up.  *)
LEMMA HeldForeign ==
  ASSUME HeldInv, NEW t \in Threads, Foreign(t), UNCHANGED <<owner, held>>,
         NEW to, pc' = [pc EXCEPT ![t] = to]
  PROVE  HeldInv'
<1>1. held[t] = 0 BY DEF Foreign, HeldInv, Exclusion
<1>2. Waiters' \subseteq Waiters \cup {t} BY DEF HeldInv, Waiters
<1>3. Exclusion' BY DEF HeldInv, Exclusion
<1> QED BY <1>1, <1>2, <1>3 DEF HeldInv

LEMMA HeldAcquire ==
  ASSUME MaxNest = 0, HeldInv, NEW t \in Threads,
         Acquire(t) \/ Relock(t) \/ \E forever \in BOOLEAN : Pend(t, forever)
  PROVE  HeldInv'
<1>1. CASE Acquire(t)
  <2>1. held[t] = 0 BY <1>1 DEF Acquire, HeldInv
  <2> QED BY <1>1, <2>1, HeldOwn DEF Acquire
<1>2. CASE Relock(t)
  <2>1. held[t] = 0 BY <1>2 DEF Relock, At, HeldInv, Waiters, Waiting
  <2>2. CASE Own(t) BY <2>1, <2>2, HeldOwn
  <2>3. CASE ~Own(t)
    <3>1. Foreign(t) /\ UNCHANGED <<owner, held>> /\ \E to : pc' = [pc EXCEPT ![t] = to]
      BY <1>2, <2>3 DEF Relock, Goto
    <3> QED BY <3>1, HeldForeign
  <2> QED BY <2>2, <2>3
<1>3. CASE \E forever \in BOOLEAN : Pend(t, forever)
  <2>1. Foreign(t) /\ UNCHANGED <<owner, held>> /\ pc' = [pc EXCEPT ![t] = "pended"]
    BY <1>3 DEF Pend, Goto
  <2> QED BY <2>1, HeldForeign
<1> QED BY <1>1, <1>2, <1>3

(* The owner gives up its only acquire, so that it does not matter whom    *)
(* the mutex goes to.                                                      *)
LEMMA HeldRelease ==
  ASSUME HeldInv, NEW t \in Threads, Release(t)
  PROVE  HeldInv'
<1>1. owner = t /\ held' = [held EXCEPT ![t] = IF held[t] > 0 THEN held[t] - 1 ELSE 0] /\ pc' = pc
  BY DEF Release
<1>2. \A x \in Threads : held'[x] = 0 /\ held'[x] \in Nat BY <1>1 DEF HeldInv, Exclusion
<1>3. held' \in [Threads -> Nat] BY <1>1, <1>2 DEF HeldInv
<1>4. Exclusion' BY <1>2 DEF Exclusion
<1>5. Waiters' \subseteq Threads BY DEF Waiters
<1> QED BY <1>1, <1>2, <1>3, <1>4, <1>5 DEF HeldInv

LEMMA HeldStep == MaxNest = 0 /\ HeldInv /\ [Next]_vars => HeldInv'
<1> SUFFICES ASSUME MaxNest = 0, HeldInv, [Next]_vars PROVE HeldInv' OBVIOUS
<1>1. CASE \E u \in Units : UnitNext(u) /\ UNCHANGED mutexVars BY <1>1, HeldUnit
<1>2. ASSUME NEW t \in Threads,
             \/ Acquire(t) \/ Release(t) \/ Waits(t)
             \/ \E forever \in BOOLEAN : Pend(t, forever)
             \/ Yield(t) /\ UNCHANGED mutexVars
      PROVE HeldInv'
  <2>1. CASE Acquire(t) \/ Relock(t) \/ \E forever \in BOOLEAN : Pend(t, forever)
    BY <2>1, HeldAcquire
  <2>2. CASE Release(t) BY <2>2, HeldRelease
  <2>3. CASE (Yield(t) /\ UNCHANGED mutexVars) \/ MtxSleep(t) \/ MtxSchedule(t) \/ MtxWoken(t)
    <3>1. UNCHANGED mutexVars BY <2>3 DEF MtxSleep, MtxSchedule, MtxWoken
    <3> QED BY <2>3, <3>1, HeldMove
  <2> QED BY <1>2, <2>1, <2>2, <2>3 DEF Waits
<1>3. CASE UNCHANGED vars
  <2>1. UNCHANGED mutexVars /\ pc' = pc BY <1>3 DEF vars, schedVars, threadVars
  <2>2. DOMAIN pc' = Threads BY <2>1 DEF HeldInv
  <2> QED BY <2>1, <2>2, HeldKept
<1> QED BY <1>1, <1>2, <1>3 DEF Next

(* Who has acquired the mutex and not released it owns it, so no two       *)
(* threads have, unless owners acquire it again: mtx_acquire and           *)
(* mtx_release with timeouts, hand-overs and early wakes.                  *)
THEOREM ExclusionHolds == MaxNest = 0 => (Spec => []Exclusion)
<1> SUFFICES ASSUME MaxNest = 0 PROVE Spec => []Exclusion OBVIOUS
<1>1. HeldInv /\ [Next]_vars => HeldInv' BY HeldStep
<1>2. HeldInv => Exclusion BY DEF HeldInv
<1> QED BY <1>1, <1>2, HeldInit, PTL DEF Spec

-------------------------------------------------------------------------------
(* The pend queue as long as insertions by priority come last.             *)
ComesLast == Fifo \/ \A s, t \in Threads : Prio[s] <= Prio[t]

(* A well formed list of exactly the waiters, and none of a free mutex.    *)
Pended ==
  /\ pend \in Heap /\ ListOf(pend, PendQ, Waiters)
  /\ owner = NULL => Waiters = {}

(* The recursion level counts the acquires of the owner.                   *)
Level ==
  /\ timed \in [Threads -> BOOLEAN]
  /\ owner \in Threads \cup {NULL}
  /\ Recursive => rlevel = IF owner = NULL THEN 0 ELSE held[owner]

(* Who was handed the mutex was asleep when it was woken.                  *)
Handed ==
  owner # NULL /\ held[owner] = 0 =>
    owner \in Waiters /\ (clean => Ready(owner) /\ pc[owner] # "pended")

MtxInv ==
  /\ HeldInv /\ StartInv /\ QueueInv /\ AwakeInv("mtxSlept", "mtxAsleep")
  /\ Pended /\ Level /\ Handed

LEMMA MtxInit == Init => MtxInv
<1> SUFFICES ASSUME Init PROVE MtxInv OBVIOUS
<1> USE SchedAssumption, ListAssumption, MutexAssumption
<1>1. SchedInit /\ HeldInv /\ StartInv /\ QueueInv BY HeldInit, StartInit, QueueInit DEF Init
<1>2. AwakeInv("mtxSlept", "mtxAsleep") BY <1>1 DEF SchedInit, AwakeInv, Ready, All
<1>3. Waiters = {} BY <1>1 DEF SchedInit, Waiters, Waiting
<1>4. Pended BY <1>3, EmptyList DEF Init, Pended
<1>5. Level /\ Handed BY DEF Init, Level, Handed
<1> QED BY <1>1, <1>2, <1>4, <1>5 DEF MtxInv

(* The pend queue, as the code walks it.                                   *)
LEMMA QueueOf ==
  ASSUME NEW h, NEW S, ListOf(h, PendQ, S), NEW q, q = Forward(h, PendQ, Cardinality(Threads))
  PROVE  /\ q \in Seq(Threads) /\ {q[i] : i \in DOMAIN q} = S
         /\ q = <<>> <=> S = {}
         /\ q # <<>> => Head(q) \in S
<1>1. Cardinality(Threads) \in Nat BY FS_CardinalityType, SchedAssumption
<1>2. q \in Seq(Nodes) /\ {q[i] : i \in DOMAIN q} = S BY <1>1, ReadList
<1>3. q # <<>> => Head(q) = q[1] /\ 1 \in DOMAIN q BY <1>2, EmptySeq
<1> QED BY <1>2, <1>3, SchedAssumption

LEMMA EnqueuedLast ==
  ASSUME ComesLast, NEW h \in Heap, NEW S, ListOf(h, PendQ, S), NEW t \in Threads \ S
  PROVE  Enqueued(h, t) \in Heap /\ ListOf(Enqueued(h, t), PendQ, S \cup {t})
<1> USE SchedAssumption, MutexAssumption
<1> DEFINE q == Forward(h, PendQ, Cardinality(Threads))
           larger == {i \in DOMAIN q : Prio[q[i]] > Prio[t]}
<1>1. q \in Seq(Threads) BY QueueOf
<1>2. Fifo \/ larger = {}
  <2>1. CASE ~Fifo
    <3>1. ASSUME NEW i \in DOMAIN q PROVE ~(Prio[q[i]] > Prio[t])
      <4>1. q[i] \in Threads BY <1>1
      <4> HIDE DEF q
      <4>2. Prio[q[i]] <= Prio[t] /\ Prio[q[i]] \in Nat /\ Prio[t] \in Nat BY <2>1, <4>1 DEF ComesLast
      <4> QED BY <4>2
    <3> QED BY <3>1
  <2> QED BY <2>1
<1>3. Enqueued(h, t) = AddTail(h, PendQ, t)
  <2> HIDE DEF q
  <2> QED BY <1>2 DEF Enqueued, q
<1> QED BY <1>3, AddTailList

(* Waiters come and go.                                                    *)
LEMMA WaitersMove ==
  ASSUME DOMAIN pc = Threads, NEW t \in Threads, NEW to, pc' = [pc EXCEPT ![t] = to]
  PROVE  Waiters' = IF to \in Waiting THEN Waiters \cup {t} ELSE Waiters \ {t}
BY DEF Waiters

(* Those who leave mutex and pend queue alone.                             *)
LEMMA PendedKept ==
  ASSUME Pended, Level, UNCHANGED mutexVars, Waiters' = Waiters
  PROVE  Pended' /\ Level'
BY DEF Pended, Level, mutexVars

LEMMA HandedKept ==
  ASSUME Handed, UNCHANGED mutexVars, Waiters' = Waiters, clean' => clean,
         clean /\ Handed /\ owner \in Waiters /\ Ready(owner) /\ pc[owner] # "pended"
           => "READY" \in flags'[owner] /\ pc'[owner] # "pended"
  PROVE  Handed'
BY DEF Handed, mutexVars, Ready

(* What the calls of the mutex do to the run queues.                       *)
LEMMA MtxQueue ==
  ASSUME MtxInv, NEW t \in Threads,
         \/ Acquire(t) \/ Relock(t) \/ MtxWoken(t)
         \/ \E forever \in BOOLEAN : Pend(t, forever)
  PROVE  QueueInv' /\ AwakeInv("mtxSlept", "mtxAsleep")'
<1> DEFINE slept == "mtxSlept"  asleep == "mtxAsleep"
<1>1. /\ unit[t] # NULL /\ cur[unit[t]] = t /\ pc[t] \in {"run", "relock", "mtxAsleep"}
      /\ \E to \in {"run", "pended", "relock"} : pc' = [pc EXCEPT ![t] = to]
      /\ UNCHANGED <<units, cur, preempt, irq, start, unit, flags, heap, clean>>
      /\ timer' = timer \/ timer' = [timer EXCEPT ![t] = FALSE]
  BY DEF Acquire, Relock, MtxWoken, Pend, SleepEnd, Own, Goto, At, OnlyMoves, unitVars
<1>2. Started(t) BY <1>1 DEF Started
<1>3. QueueInv' BY <1>1, <1>2, QueueMoves DEF MtxInv
<1>4. ASSUME clean, NEW x \in Threads PROVE pc'[x] = pc[x] \/ Ready(x)
  <2>1. unit[t] \in Units BY <1>1, <1>4, SchedAssumption DEF MtxInv, QueueInv, Shape
  <2>2. Ready(t) BY <1>1, <1>4, <2>1 DEF MtxInv, AwakeInv
  <2> QED BY <1>1, <1>4, <2>2 DEF MtxInv, StartInv
<1>5. AwakeInv(slept, asleep)' BY <1>1, <1>4, AwakeKept DEF MtxInv, Ready
<1> QED BY <1>3, <1>5

LEMMA MtxQueueSleep ==
  ASSUME MtxInv, NEW t \in Threads,
         MtxSleep(t) \/ MtxSchedule(t) \/ Yield(t)
  PROVE  QueueInv' /\ AwakeInv("mtxSlept", "mtxAsleep")'
<1>1. CASE MtxSleep(t)
  <2>1. /\ unit[t] # NULL /\ cur[unit[t]] = t /\ timed[t] \in BOOLEAN
        /\ SleepPrep(t, timed[t], "mtxSlept")
    BY <1>1 DEF MtxSleep, At, MtxInv, Level
  <2> QED BY <2>1, QueueSleep, AwakeSleep DEF MtxInv
<1>2. CASE MtxSchedule(t) \/ Yield(t)
  <2>1. PICK from \in {"run", "mtxSlept"}, to \in {"run", "mtxAsleep"} :
          Calls(t, from, to) /\ (from = "run" <=> to = "run")
    BY <1>2 DEF MtxSchedule, Yield
  <2>2. QueueInv' BY <2>1, QueueCalls DEF MtxInv
  <2>3. /\ pc[t] = from /\ cur[unit[t]] = t /\ unit[t] # NULL /\ Switch(unit[t])
        /\ UNCHANGED <<preempt, flags, clean>> /\ pc' = [pc EXCEPT ![t] = to]
    BY <2>1 DEF Calls, At, Goto
  <2>4. CASE ~clean BY <2>2, <2>3, <2>4 DEF MtxInv, AwakeInv
  <2>5. CASE clean
    <3>1. unit[t] \in Units BY <2>3, <2>5, SchedAssumption DEF MtxInv, QueueInv, Shape
    <3>2. \A x \in Threads : \/ pc'[x] = pc[x] \/ Ready(x)
                             \/ pc[x] = "mtxSlept" /\ pc'[x] = "mtxAsleep" /\ cur[unit[t]] = x
      BY <2>1, <2>3 DEF MtxInv, StartInv
    <3>3. AwakeInv("mtxSlept", "mtxAsleep")'
      BY <2>3, <3>1, <3>2, AwakeSwitch DEF MtxInv
    <3> QED BY <2>2, <3>3
  <2> QED BY <2>2, <2>4, <2>5
<1> QED BY <1>1, <1>2

(* The owner's only acquire: nothing is left of it but the hand-over.      *)
LEMMA ReleaseHandsOver ==
  ASSUME MtxInv, NEW t \in Threads, Release(t)
  PROVE  /\ t \notin Waiters /\ HandOver(t) /\ held' = [held EXCEPT ![t] = 0]
         /\ Recursive => rlevel' = 0
         /\ UNCHANGED <<units, cur, preempt, irq, start, unit, pc, timer, pend, timed>>
<1> USE SchedAssumption, ListAssumption
<1>1. pc[t] = "run" /\ owner = t /\ t # NULL BY DEF Release, At
<1>2. t \notin Waiters BY <1>1 DEF Waiters, Waiting
<1>3. held[t] = 1
  <2>1. held[t] # 0 BY <1>1, <1>2 DEF MtxInv, Handed
  <2>2. held[t] \in Nat /\ held[t] <= 1 BY DEF MtxInv, HeldInv
  <2> QED BY <2>1, <2>2
<1>4. Recursive => rlevel = 1 BY <1>1, <1>3 DEF MtxInv, Level
<1>5. /\ held' = [held EXCEPT ![t] = IF held[t] > 0 THEN held[t] - 1 ELSE 0]
      /\ rlevel' = IF Recursive THEN rlevel - 1 ELSE rlevel
  BY DEF Release
<1>6. held' = [held EXCEPT ![t] = 0] /\ (Recursive => rlevel' = 0) BY <1>3, <1>4, <1>5
<1>7. HandOver(t) BY <1>6 DEF Release
<1> QED BY <1>2, <1>6, <1>7 DEF Release, unitVars

LEMMA MtxRelease ==
  ASSUME MtxInv, NEW t \in Threads, Release(t)
  PROVE  /\ StartInv' /\ QueueInv' /\ AwakeInv("mtxSlept", "mtxAsleep")'
         /\ Pended' /\ Level' /\ Handed'
<1> USE SchedAssumption, ListAssumption
<1>1. /\ t \notin Waiters /\ HandOver(t) /\ held' = [held EXCEPT ![t] = 0]
      /\ Recursive => rlevel' = 0
      /\ UNCHANGED <<units, cur, preempt, irq, start, unit, pc, timer, pend, timed>>
  BY ReleaseHandsOver
<1>2. clean => Shape BY DEF MtxInv, QueueInv
<1>3. Waiters' = Waiters /\ StartInv' BY <1>1 DEF Waiters, MtxInv, StartInv, Starting
<1>4. /\ Queue = <<>> <=> Waiters = {}
      /\ Queue # <<>> => Head(Queue) \in Waiters
  BY QueueOf DEF MtxInv, Pended, Queue
<1>5. CASE Queue = <<>>
  <2>1. owner' = NULL /\ UNCHANGED <<flags, heap, clean>> BY <1>1, <1>5 DEF HandOver
  <2>2. QueueInv' BY <1>1, <1>2, <2>1, QueueKept DEF MtxInv, Shape, Ready
  <2>3. AwakeInv("mtxSlept", "mtxAsleep")' BY <1>1, <2>1, AwakeKept DEF MtxInv, Ready
  <2>4. Pended' BY <1>1, <1>3, <1>4, <1>5 DEF MtxInv, Pended
  <2>5. Level' /\ Handed' BY <1>1, <2>1 DEF MtxInv, Level, Handed
  <2> QED BY <1>3, <2>2, <2>3, <2>4, <2>5
<1>6. CASE Queue # <<>>
  <2>1. PICK w \in Waiters : owner' = w /\ Wakes(w) BY <1>1, <1>4, <1>6 DEF HandOver
  <2>2. w \in Threads /\ w # NULL /\ w # t /\ Started(w)
    BY <1>1, <2>1 DEF Waiters, Waiting, Started
  <2>3. QueueInv' BY <1>1, <1>2, <2>1, <2>2, QueueWakes DEF MtxInv, Shape
  <2>4. AwakeInv("mtxSlept", "mtxAsleep")' BY <1>1, <2>1, <2>2, AwakeWakes DEF MtxInv
  <2>5. Pended' BY <1>1, <1>3, <2>1, <2>2 DEF MtxInv, Pended
  <2>6. held'[w] = 0 BY <1>1, <2>1, <2>2 DEF MtxInv, HeldInv
  <2>7. Level' BY <1>1, <2>1, <2>2, <2>6 DEF MtxInv, Level
  <2>8. ASSUME clean' PROVE "READY" \in flags'[w] /\ pc[w] \in {"mtxSlept", "mtxAsleep"}
    <3>1. clean /\ pc[w] \in {"mtxSlept", "mtxAsleep"}
      BY <2>1, <2>2, <2>8, WakesSleeper DEF MtxInv
    <3>2. w \in DOMAIN flags BY <1>2, <2>2, <3>1 DEF Shape, All
    <3> QED BY <2>1, <3>1, <3>2 DEF Wakes
  <2>9. Handed' BY <1>1, <1>3, <2>1, <2>8 DEF Handed, Ready
  <2> QED BY <1>3, <2>3, <2>4, <2>5, <2>7, <2>9
<1> QED BY <1>5, <1>6

(* t gets the mutex, or finds itself to be its owner.                      *)
LEMMA OwnLevel ==
  ASSUME MtxInv, NEW t \in Threads, held[t] = 0, Own(t), timed' = timed
  PROVE  Level' /\ Handed' /\ owner' # NULL
<1> USE SchedAssumption, ListAssumption
<1>1. /\ owner' = t /\ held' = [held EXCEPT ![t] = held[t] + 1]
      /\ \/ owner = NULL /\ rlevel' = 1
         \/ owner = t /\ rlevel' = IF Recursive THEN rlevel + 1 ELSE rlevel
  BY DEF Own
<1>2. held'[t] = 1 /\ t # NULL BY <1>1 DEF MtxInv, HeldInv
<1>3. owner = t /\ Recursive => rlevel = 0 BY <1>2 DEF MtxInv, Level
<1>4. Level' BY <1>1, <1>2, <1>3 DEF MtxInv, Level
<1> QED BY <1>1, <1>2, <1>4 DEF Handed

(* t does not get the mutex, which is somebody else's.                     *)
LEMMA ForeignLevel ==
  ASSUME MtxInv, NEW t \in Threads, Foreign(t), UNCHANGED <<owner, rlevel, held, flags, clean>>,
         NEW to, pc' = [pc EXCEPT ![t] = to],
         timed' \in [Threads -> BOOLEAN]
  PROVE  Level' /\ Handed' /\ owner' # NULL
<1>1. owner # NULL /\ owner # t /\ owner \in Threads BY DEF Foreign, MtxInv, Level
<1>2. Level' BY DEF MtxInv, Level
<1>3. pc'[owner] = pc[owner] BY <1>1 DEF MtxInv, StartInv
<1>4. Handed' BY <1>1, <1>3 DEF MtxInv, Handed, Ready, Waiters
<1> QED BY <1>1, <1>2, <1>4

LEMMA MtxAcquire ==
  ASSUME MtxInv, MaxNest = 0, NEW t \in Threads, Acquire(t)
  PROVE  StartInv' /\ Pended' /\ Level' /\ Handed'
<1>1. /\ pc[t] = "run" /\ held[t] = 0 /\ Own(t) /\ pc' = [pc EXCEPT ![t] = "run"]
      /\ UNCHANGED <<pend, timed, start>>
  BY DEF Acquire, At, Own, Goto, OnlyMoves, unitVars, MtxInv, HeldInv
<1>2. StartInv' BY <1>1, StartMoves DEF MtxInv
<1>3. Level' /\ Handed' /\ owner' # NULL BY <1>1, OwnLevel
<1>4. Waiters' = Waiters
  <2>1. t \notin Waiters /\ "run" \notin Waiting BY <1>1 DEF Waiters, Waiting
  <2>2. DOMAIN pc = Threads BY DEF MtxInv, StartInv
  <2>3. Waiters' = Waiters \ {t} BY <1>1, <2>1, <2>2, WaitersMove
  <2> QED BY <2>1, <2>3
<1>5. Pended' BY <1>1, <1>3, <1>4 DEF MtxInv, Pended
<1> QED BY <1>2, <1>3, <1>5

LEMMA MtxPend ==
  ASSUME MtxInv, ComesLast, NEW t \in Threads, NEW forever \in BOOLEAN, Pend(t, forever)
  PROVE  StartInv' /\ Pended' /\ Level' /\ Handed'
<1>1. /\ pc[t] = "run" /\ Foreign(t) /\ pend' = Enqueued(pend, t)
      /\ timed' = [timed EXCEPT ![t] = ~forever] /\ pc' = [pc EXCEPT ![t] = "pended"]
      /\ UNCHANGED <<owner, rlevel, held, flags, clean, start>>
  BY DEF Pend, At, Goto, OnlyMoves, unitVars
<1>2. StartInv' BY <1>1, StartMoves DEF MtxInv
<1>3. timed' \in [Threads -> BOOLEAN] BY <1>1 DEF MtxInv, Level
<1>4. Level' /\ Handed' /\ owner' # NULL BY <1>1, <1>3, ForeignLevel
<1>5. t \notin Waiters /\ "pended" \in Waiting BY <1>1 DEF Waiters, Waiting
<1>6. Waiters' = Waiters \cup {t} BY <1>1, <1>5, WaitersMove DEF MtxInv, StartInv
<1>7. pend' \in Heap /\ ListOf(pend', PendQ, Waiters \cup {t})
  BY <1>1, <1>5, EnqueuedLast DEF MtxInv, Pended
<1>8. Pended' BY <1>4, <1>6, <1>7 DEF Pended
<1> QED BY <1>2, <1>4, <1>8

LEMMA MtxRelock ==
  ASSUME MtxInv, ComesLast, NEW t \in Threads, Relock(t)
  PROVE  StartInv' /\ Pended' /\ Level' /\ Handed'
<1> USE MutexAssumption, SchedAssumption
<1>1. /\ pc[t] = "relock" /\ t \in Waiters /\ held[t] = 0
      /\ UNCHANGED <<timed, start, flags, clean>>
  BY DEF Relock, At, OnlyMoves, unitVars, Waiters, Waiting, MtxInv, HeldInv
<1> DEFINE left == Remove(pend, PendQ, t)
<1>2. left \in Heap /\ ListOf(left, PendQ, Waiters \ {t})
  BY <1>1, RemoveList DEF MtxInv, Pended
<1>3. /\ timed' \in [Threads -> BOOLEAN] /\ DOMAIN pc = Threads
      /\ "run" \notin Waiting /\ "pended" \in Waiting
  BY <1>1 DEF MtxInv, Level, StartInv, Waiting
<1>4. /\ \/ Own(t) /\ pend' = left
         \/ Foreign(t) /\ pend' = left /\ Goto(t, "run") /\ UNCHANGED <<owner, rlevel, held>>
         \/ /\ Foreign(t) /\ pend' = Enqueued(left, t) /\ Goto(t, "pended")
            /\ UNCHANGED <<owner, rlevel, held>>
  BY DEF Relock
<1> HIDE DEF left
<1>5. ASSUME Own(t) \/ (Foreign(t) /\ Goto(t, "run") /\ UNCHANGED <<owner, rlevel, held>>),
             pend' = left
      PROVE  StartInv' /\ Pended' /\ Level' /\ Handed'
  <2>1. pc' = [pc EXCEPT ![t] = "run"] BY <1>5 DEF Own, Goto
  <2>2. StartInv' BY <1>1, <2>1, StartMoves DEF MtxInv
  <2>3. Level' /\ Handed' /\ owner' # NULL BY <1>1, <1>3, <1>5, <2>1, OwnLevel, ForeignLevel
  <2>4. Waiters' = Waiters \ {t} BY <1>3, <2>1, WaitersMove
  <2>5. Pended' BY <1>2, <1>5, <2>3, <2>4 DEF Pended
  <2> QED BY <2>2, <2>3, <2>5
<1>6. ASSUME Foreign(t), Goto(t, "pended"), UNCHANGED <<owner, rlevel, held>>,
             pend' = Enqueued(left, t)
      PROVE  StartInv' /\ Pended' /\ Level' /\ Handed'
  <2>1. pc' = [pc EXCEPT ![t] = "pended"] BY <1>6 DEF Goto
  <2>2. StartInv' BY <1>1, <2>1, StartMoves DEF MtxInv
  <2>3. Level' /\ Handed' /\ owner' # NULL BY <1>1, <1>3, <1>6, <2>1, ForeignLevel
  <2>4. Waiters' = Waiters \cup {t} BY <1>3, <2>1, WaitersMove
  <2>5. t \in Threads \ (Waiters \ {t}) /\ (Waiters \ {t}) \cup {t} = Waiters \cup {t} OBVIOUS
  <2>6. pend' \in Heap /\ ListOf(pend', PendQ, (Waiters \ {t}) \cup {t})
    BY <1>2, <1>6, <2>5, EnqueuedLast
  <2>7. Pended' BY <2>3, <2>4, <2>5, <2>6 DEF Pended
  <2> QED BY <2>2, <2>3, <2>7
<1> QED BY <1>4, <1>5, <1>6

(* Sleeps, yields and the scheduler on its own.                            *)
LEMMA MtxMove ==
  ASSUME MtxInv, NEW t \in Threads, UNCHANGED mutexVars,
         Yield(t) \/ MtxSleep(t) \/ MtxSchedule(t) \/ MtxWoken(t)
  PROVE  StartInv' /\ Pended' /\ Level' /\ Handed'
<1>1. PICK to \in {"run", "mtxSlept", "mtxAsleep", "relock"} :
        pc' = [pc EXCEPT ![t] = to] /\ (to = "run" <=> pc[t] = "run")
        /\ pc[t] \in {"run"} \cup Waiting
  BY DEF Yield, MtxSleep, MtxSchedule, MtxWoken, Calls, SleepPrep, SleepEnd, At, Goto, Waiting
<1>2. /\ UNCHANGED <<start, clean>>
      /\ \/ flags' = flags
         \/ pc[t] = "pended" /\ flags' = [flags EXCEPT ![t] = flags[t] \ {"READY"}]
  BY DEF Yield, MtxSleep, MtxSchedule, MtxWoken, Calls, SleepPrep, SleepEnd, At, unitVars
<1>3. StartInv' BY <1>1, <1>2, StartMoves DEF MtxInv, Waiting
<1>4. Waiters' = Waiters
  <2>1. t \in Waiters <=> to \in Waiting BY <1>1 DEF Waiters, Waiting
  <2>2. DOMAIN pc = Threads BY DEF MtxInv, StartInv
  <2>3. Waiters' = IF to \in Waiting THEN Waiters \cup {t} ELSE Waiters \ {t}
    BY <1>1, <2>2, WaitersMove
  <2> QED BY <2>1, <2>3
<1>5. Pended' /\ Level' BY <1>4, PendedKept DEF MtxInv
<1>6. ASSUME clean, owner \in Waiters, Ready(owner), pc[owner] # "pended"
      PROVE  "READY" \in flags'[owner] /\ pc'[owner] # "pended"
  <2>1. owner \in DOMAIN flags /\ owner \in DOMAIN pc
    BY <1>6 DEF MtxInv, QueueInv, Shape, All, Waiters
  <2> QED BY <1>1, <1>2, <1>6, <2>1 DEF Ready
<1>7. Handed' BY <1>2, <1>4, <1>6, HandedKept DEF MtxInv
<1> QED BY <1>3, <1>5, <1>7

LEMMA MtxUnit ==
  ASSUME MtxInv, NEW u \in Units, UnitNext(u), UNCHANGED mutexVars
  PROVE  StartInv' /\ Pended' /\ Level' /\ Handed'
<1>1. /\ StartInv'
      /\ \A x \in Threads : \/ pc'[x] = pc[x]
                            \/ ~Started(x) /\ pc'[x] \in {"starting", "run"}
  BY StartUnit DEF MtxInv
<1>2. Waiters' = Waiters BY <1>1 DEF Waiters, Waiting, Started
<1>3. Pended' /\ Level' BY <1>2, PendedKept DEF MtxInv
<1>4. /\ clean' => clean
      /\ clean => \A t \in Threads : Ready(t) => "READY" \in flags'[t]
  BY UnitKeepsReady DEF MtxInv
<1>5. \A t \in Waiters : t \in Threads /\ pc'[t] = pc[t] BY <1>1 DEF Waiters, Waiting, Started
<1>6. Handed' BY <1>2, <1>4, <1>5, HandedKept DEF MtxInv
<1> QED BY <1>1, <1>3, <1>6

LEMMA MtxStep == MaxNest = 0 /\ ComesLast /\ MtxInv /\ [Next]_vars => MtxInv'
<1> SUFFICES ASSUME MaxNest = 0, ComesLast, MtxInv, [Next]_vars PROVE MtxInv' OBVIOUS
<1>1. HeldInv' BY HeldStep DEF MtxInv
<1>2. CASE \E u \in Units : UnitNext(u) /\ UNCHANGED mutexVars
  <2>1. PICK u \in Units : UnitNext(u) /\ UNCHANGED mutexVars BY <1>2
  <2>2. StartInv' /\ Pended' /\ Level' /\ Handed' BY <2>1, MtxUnit
  <2>3. QueueInv' /\ AwakeInv("mtxSlept", "mtxAsleep")' BY <2>1, QueueUnit, AwakeUnit DEF MtxInv
  <2> QED BY <1>1, <2>2, <2>3 DEF MtxInv
<1>3. ASSUME NEW t \in Threads,
             \/ Acquire(t) \/ Release(t) \/ Waits(t)
             \/ \E forever \in BOOLEAN : Pend(t, forever)
             \/ Yield(t) /\ UNCHANGED mutexVars
      PROVE MtxInv'
  <2>1. CASE Acquire(t) \/ Relock(t) \/ \E forever \in BOOLEAN : Pend(t, forever)
    BY <2>1, <1>1, MtxAcquire, MtxRelock, MtxPend, MtxQueue DEF MtxInv
  <2>2. CASE Release(t) BY <2>2, <1>1, MtxRelease DEF MtxInv
  <2>3. CASE (Yield(t) /\ UNCHANGED mutexVars) \/ MtxSleep(t) \/ MtxSchedule(t) \/ MtxWoken(t)
    <3>1. UNCHANGED mutexVars BY <2>3 DEF MtxSleep, MtxSchedule, MtxWoken
    <3> QED BY <2>3, <3>1, <1>1, MtxMove, MtxQueue, MtxQueueSleep DEF MtxInv
  <2> QED BY <1>3, <2>1, <2>2, <2>3 DEF Waits
<1>4. CASE UNCHANGED vars
  <2>1. UNCHANGED mutexVars
        /\ UNCHANGED <<units, cur, preempt, irq, start, unit, flags, pc, timer, heap, clean>>
    BY <1>4 DEF vars, schedVars, unitVars, threadVars
  <2>2. clean => Shape BY DEF MtxInv, QueueInv
  <2>3. QueueInv' BY <2>1, <2>2, QueueKept DEF MtxInv, Shape, Ready
  <2>4. AwakeInv("mtxSlept", "mtxAsleep")' BY <2>1, AwakeKept DEF MtxInv, Ready
  <2>5. StartInv' /\ Waiters' = Waiters BY <2>1 DEF MtxInv, StartInv, Starting, Waiters
  <2>6. Pended' /\ Level' BY <2>1, <2>5, PendedKept DEF MtxInv
  <2>7. Handed' BY <2>1, <2>5, HandedKept DEF MtxInv, Ready
  <2> QED BY <1>1, <2>3, <2>4, <2>5, <2>6, <2>7 DEF MtxInv
<1> QED BY <1>2, <1>3, <1>4 DEF Next

(* The pend queue is a well formed list of exactly the threads that wait,  *)
(* each once, and nobody waits for a free mutex: mtx_acquire and           *)
(* mtx_release without nesting, where nobody is inserted before another.   *)
THEOREM PendqIsExact == MaxNest = 0 /\ ComesLast => (Spec => []PendqExact)
<1> SUFFICES ASSUME MaxNest = 0, ComesLast PROVE Spec => []PendqExact OBVIOUS
<1>1. MtxInv /\ [Next]_vars => MtxInv' BY MtxStep
<1>2. MtxInv => PendqExact
  <2> SUFFICES ASSUME MtxInv PROVE PendqExact OBVIOUS
  <2> DEFINE b == Cardinality(Threads) + 1
             q == Forward(pend, PendQ, b)
  <2>1. b \in Nat /\ Cardinality(Threads) <= b BY FS_CardinalityType, SchedAssumption
  <2> HIDE DEF b
  <2>2. /\ q \in Seq(Nodes) /\ IsList(pend, PendQ, q) /\ {q[i] : i \in DOMAIN q} = Waiters
        /\ Len(q) = Cardinality(Waiters)
    BY <2>1, ReadList DEF MtxInv, Pended
  <2>3. owner = NULL => q = <<>>
    <3>1. ASSUME owner = NULL PROVE DOMAIN q = {} BY <3>1, <2>2 DEF MtxInv, Pended
    <3> HIDE DEF q
    <3> QED BY <2>2, <3>1, EmptySeq
  <2> QED BY <2>2, <2>3 DEF PendqExact, b
<1> QED BY <1>1, <1>2, MtxInit, PTL DEF Spec

(* A thread that was handed the mutex is still in its wait and, while      *)
(* every wake finds its thread asleep, ready to find out.                  *)
THEOREM OwnersKnow == MaxNest = 0 /\ ComesLast => (Spec => []OwnerKnows)
<1> SUFFICES ASSUME MaxNest = 0, ComesLast PROVE Spec => []OwnerKnows OBVIOUS
<1>1. MtxInv /\ [Next]_vars => MtxInv' BY MtxStep
<1>2. MtxInv => OwnerKnows BY DEF MtxInv, Handed, OwnerKnows
<1> QED BY <1>1, <1>2, MtxInit, PTL DEF Spec
===============================================================================
