---------------------------- MODULE SemaphoreProofs ----------------------------
(***************************************************************************)
(* For any number of units and threads, any count, with timeouts, and      *)
(* whatever early wakes have made of the run queues: the count stays       *)
(* within its bounds, the pend queue holds exactly the threads that are in *)
(* a wait, each once, and no unit is lost or made up.                      *)
(*                                                                         *)
(* What is missing for an inductive invariant is that the scheduler does   *)
(* not take a waiting thread for one that is being started.  That nobody   *)
(* is stranded beside a free unit needs the run queues, too: a release     *)
(* finds its waiter asleep only because ready threads are on their queue.  *)
(***************************************************************************)
EXTENDS Semaphore, SchedProofs

PendInv == TypeOK /\ PendqExact /\ StartInv

(* Sequences without repetition: one more member at the end ...            *)
LEMMA AppendNew ==
  ASSUME NEW S, NEW q \in Seq(S), NEW t \in S,
         \A i \in DOMAIN q : q[i] # t,
         \A i, j \in DOMAIN q : q[i] = q[j] => i = j
  PROVE  /\ Append(q, t) \in Seq(S)
         /\ {Append(q, t)[i] : i \in DOMAIN Append(q, t)} = {q[i] : i \in DOMAIN q} \cup {t}
         /\ \A i, j \in DOMAIN Append(q, t) : Append(q, t)[i] = Append(q, t)[j] => i = j
<1> DEFINE r == Append(q, t)
<1>1. /\ r \in Seq(S) /\ Len(r) = Len(q) + 1 /\ r[Len(q) + 1] = t
      /\ \A i \in 1 .. Len(q) : r[i] = q[i]
  BY AppendProperties
<1>2. /\ DOMAIN q = 1 .. Len(q) /\ Len(q) \in Nat
      /\ DOMAIN r = 1 .. Len(q) + 1
  BY <1>1, LenProperties
<1> HIDE DEF r
<1>3. {r[i] : i \in DOMAIN r} = {q[i] : i \in DOMAIN q} \cup {t}
  <2>1. DOMAIN r = DOMAIN q \cup {Len(q) + 1} BY <1>2
  <2> QED BY <1>1, <1>2, <2>1
<1>4. \A i, j \in DOMAIN r : r[i] = r[j] => i = j BY <1>1, <1>2
<1> QED BY <1>1, <1>3, <1>4 DEF r

(* ... and one less, from wherever it was.                                 *)
LEMMA WithoutOne ==
  ASSUME NEW S, NEW q \in Seq(S), NEW t, \E i \in DOMAIN q : q[i] = t,
         \A i, j \in DOMAIN q : q[i] = q[j] => i = j
  PROVE  /\ Without(q, t) \in Seq(S)
         /\ {Without(q, t)[i] : i \in DOMAIN Without(q, t)} = {q[i] : i \in DOMAIN q} \ {t}
         /\ \A i, j \in DOMAIN Without(q, t) : Without(q, t)[i] = Without(q, t)[j] => i = j
<1> DEFINE r == Without(q, t)
<1>1. PICK k \in DOMAIN q : q[k] = t /\ k = CHOOSE i \in DOMAIN q : q[i] = t OBVIOUS
<1>2. DOMAIN q = 1 .. Len(q) /\ Len(q) \in Nat BY LenProperties
<1>3. r = [j \in 1 .. Len(q) - 1 |-> IF j < k THEN q[j] ELSE q[j + 1]] BY <1>1 DEF Without
<1>4. /\ DOMAIN r = 1 .. Len(q) - 1
      /\ \A j \in 1 .. Len(q) - 1 : r[j] = IF j < k THEN q[j] ELSE q[j + 1]
  BY <1>3
<1> DEFINE from(j) == IF j < k THEN j ELSE j + 1
<1>5. \A j \in 1 .. Len(q) - 1 : from(j) \in DOMAIN q /\ from(j) # k /\ r[j] = q[from(j)]
  BY <1>1, <1>2, <1>4
<1>6. \A i, j \in 1 .. Len(q) - 1 : from(i) = from(j) => i = j BY <1>1, <1>2
<1> HIDE DEF from
<1>7. \A j \in 1 .. Len(q) - 1 : r[j] \in S /\ r[j] # t
  <2>1. \A i \in DOMAIN q : q[i] \in S BY <1>2, ElementOfSeq
  <2> QED BY <1>1, <1>5, <2>1
<1>8. r \in Seq(S)
  <2>1. Len(q) - 1 \in Nat BY <1>1, <1>2
  <2> QED BY <1>3, <1>7, <2>1, IsASeq
<1> HIDE DEF r
<1>9. \A j \in 1 .. Len(q) - 1 : \E i \in DOMAIN q : r[j] = q[i] BY <1>5
<1>10. \A i \in DOMAIN q : i # k => \E j \in DOMAIN r : r[j] = q[i]
  <2> SUFFICES ASSUME NEW i \in DOMAIN q, i # k PROVE \E j \in DOMAIN r : r[j] = q[i] OBVIOUS
  <2>1. CASE i < k
    <3>1. i \in 1 .. Len(q) - 1 /\ r[i] = q[i] BY <2>1, <1>2, <1>4
    <3> QED BY <3>1, <1>4
  <2>2. CASE i > k
    <3>1. i - 1 \in 1 .. Len(q) - 1 /\ r[i - 1] = q[i] BY <2>2, <1>2, <1>4
    <3> QED BY <3>1, <1>4
  <2> QED BY <2>1, <2>2, <1>2
<1>11. {r[j] : j \in DOMAIN r} = {q[i] : i \in DOMAIN q} \ {t} BY <1>1, <1>4, <1>7, <1>9, <1>10
<1>12. \A i, j \in DOMAIN r : r[i] = r[j] => i = j BY <1>4, <1>5, <1>6
<1> QED BY <1>8, <1>11, <1>12 DEF r

-------------------------------------------------------------------------------
InWait == {t \in Threads : pc[t] \in Waiting}

Places == {"new", "starting", "run"} \cup Waiting

LEMMA PendInit == Init => PendInv
<1> SUFFICES ASSUME Init PROVE PendInv OBVIOUS
<1> USE SemAssumption, SchedAssumption
<1>1. /\ count = InitCount /\ pendq = <<>>
      /\ timed = [t \in Threads |-> FALSE] /\ held = [t \in Threads |-> 0]
      /\ pc = [t \in Threads |-> "new"] /\ start = [u \in Units |-> <<>>]
  BY DEF Init, SchedInit
<1>2. TypeOK BY <1>1 DEF TypeOK
<1>3. PendqExact
  <2>1. \A t \in Threads : pc[t] \notin Waiting BY <1>1 DEF Waiting
  <2>2. DOMAIN pendq = {} BY <1>1
  <2> QED BY <2>1, <2>2 DEF PendqExact
<1>4. StartInv BY StartInit DEF Init
<1> QED BY <1>1, <1>2, <1>3, <1>4 DEF PendInv

(* t, which is not being started, goes on to another place of its code.    *)
LEMMA Moves ==
  ASSUME PendInv, NEW t \in Threads, pc[t] # "starting", start' = start,
         NEW to \in {"run"} \cup Waiting, pc' = [pc EXCEPT ![t] = to]
  PROVE  /\ StartInv' /\ DOMAIN pc' = Threads
         /\ \A x \in Threads : pc'[x] \in Places
         /\ to \in Waiting => InWait' = InWait \cup {t}
         /\ to \notin Waiting => InWait' = InWait \ {t}
<1>1. DOMAIN pc = Threads BY DEF PendInv, StartInv
<1>2. pc'[t] = to /\ DOMAIN pc' = Threads /\ \A x \in Threads : x # t => pc'[x] = pc[x] BY <1>1
<1>3. StartInv' BY <1>2 DEF PendInv, StartInv, Starting
<1>4. \A x \in Threads : pc'[x] \in Places BY <1>2 DEF PendInv, TypeOK, Places
<1> QED BY <1>2, <1>3, <1>4 DEF InWait

(* A step that leaves the semaphore alone.                                 *)
LEMMA PendKept ==
  ASSUME PendInv, UNCHANGED semVars, StartInv', DOMAIN pc' = Threads,
         \A x \in Threads : pc'[x] \in Places, InWait' = InWait
  PROVE  PendInv'
<1>1. TypeOK' BY DEF PendInv, TypeOK, Places, semVars
<1>2. PendqExact' BY DEF PendInv, PendqExact, InWait, semVars
<1> QED BY <1>1, <1>2 DEF PendInv

LEMMA PendUnit ==
  ASSUME PendInv, NEW u \in Units, UnitNext(u), UNCHANGED semVars
  PROVE  PendInv'
<1>1. /\ StartInv'
      /\ \A x \in Threads : \/ pc'[x] = pc[x]
                            \/ ~Started(x) /\ pc'[x] \in {"starting", "run"}
  BY StartUnit DEF PendInv
<1>2. DOMAIN pc' = Threads BY <1>1 DEF StartInv
<1>3. \A x \in Threads : pc'[x] \in Places BY <1>1 DEF PendInv, TypeOK, Places
<1>4. InWait' = InWait BY <1>1 DEF InWait, Started, Waiting
<1> QED BY <1>1, <1>2, <1>3, <1>4, PendKept

(* The steps between two places where t waits, or from "run" to "run".     *)
LEMMA PendMove ==
  ASSUME PendInv, NEW t \in Threads,
         Yield(t) \/ SemSleep(t) \/ SemSchedule(t) \/ SemWoken(t), UNCHANGED semVars
  PROVE  PendInv'
<1>1. /\ start' = start
      /\ \/ pc[t] = "run" /\ pc' = [pc EXCEPT ![t] = "run"]
         \/ pc[t] \in Waiting /\ \E to \in Waiting : pc' = [pc EXCEPT ![t] = to]
  BY DEF Yield, SemSleep, SemSchedule, SemWoken, Calls, SleepPrep, SleepEnd, At, Goto, Waiting,
         unitVars
<1>2. pc[t] # "starting" BY <1>1 DEF Waiting
<1>3. PICK to \in {"run"} \cup Waiting :
        pc' = [pc EXCEPT ![t] = to] /\ (to \in Waiting <=> pc[t] \in Waiting)
  BY <1>1 DEF Waiting
<1>4. StartInv' /\ DOMAIN pc' = Threads /\ \A x \in Threads : pc'[x] \in Places
  BY <1>1, <1>2, <1>3, Moves
<1>5. InWait' = InWait
  <2>1. /\ to \in Waiting => InWait' = InWait \cup {t}
        /\ to \notin Waiting => InWait' = InWait \ {t}
    BY <1>1, <1>2, <1>3, Moves
  <2> QED BY <2>1, <1>3 DEF InWait
<1> QED BY <1>4, <1>5, PendKept

(* What a step of the semaphore by t has to show: the new queue holds the  *)
(* threads that are then in a wait.                                        *)
LEMMA PendChanged ==
  ASSUME PendInv, NEW t \in Threads, pc[t] # "starting", start' = start,
         NEW to \in {"run"} \cup Waiting, pc' = [pc EXCEPT ![t] = to],
         count' \in 0 .. MaxCount, timed' \in [Threads -> BOOLEAN], held' \in [Threads -> Nat],
         pendq' \in Seq(Threads),
         {pendq'[i] : i \in DOMAIN pendq'} = IF to \in Waiting THEN InWait \cup {t} ELSE InWait \ {t},
         \A i, j \in DOMAIN pendq' : pendq'[i] = pendq'[j] => i = j
  PROVE  PendInv'
<1>1. /\ StartInv' /\ DOMAIN pc' = Threads
      /\ \A x \in Threads : pc'[x] \in Places
      /\ to \in Waiting => InWait' = InWait \cup {t}
      /\ to \notin Waiting => InWait' = InWait \ {t}
  BY Moves
<1>2. TypeOK' BY <1>1 DEF TypeOK, Places
<1>3. {pendq'[i] : i \in DOMAIN pendq'} = InWait' BY <1>1
<1>4. PendqExact' BY <1>3 DEF PendqExact, InWait
<1> QED BY <1>1, <1>2, <1>4 DEF PendInv

(* One unit more for t.                                                    *)
LEMMA TakeTypes ==
  ASSUME PendInv, NEW t \in Threads, Take(t)
  PROVE  /\ count' \in 0 .. MaxCount /\ held' \in [Threads -> Nat]
         /\ pc' = [pc EXCEPT ![t] = "run"]
<1> USE SemAssumption
<1>1. /\ count > 0 /\ count' = count - 1
      /\ held' = IF Signals THEN held ELSE [held EXCEPT ![t] = held[t] + 1]
      /\ pc' = [pc EXCEPT ![t] = "run"]
  BY DEF Take, Counts, Goto
<1>2. count \in 0 .. MaxCount /\ held \in [Threads -> Nat] BY DEF PendInv, TypeOK
<1>3. held' \in [Threads -> Nat] BY <1>1, <1>2
<1> QED BY <1>1, <1>2, <1>3

LEMMA PendAcquire ==
  ASSUME PendInv, NEW t \in Threads, Acquire(t)
  PROVE  PendInv'
<1>1. pc[t] = "run" /\ Take(t) /\ pendq' = pendq /\ timed' = timed /\ start' = start
  BY DEF Acquire, At, OnlyMoves, unitVars
<1>2. /\ count' \in 0 .. MaxCount /\ held' \in [Threads -> Nat]
      /\ pc' = [pc EXCEPT ![t] = "run"]
  BY <1>1, TakeTypes
<1>3. pendq' \in Seq(Threads) /\ timed' \in [Threads -> BOOLEAN] BY <1>1 DEF PendInv, TypeOK
<1>4. /\ {pendq'[i] : i \in DOMAIN pendq'} = InWait
      /\ \A i, j \in DOMAIN pendq' : pendq'[i] = pendq'[j] => i = j
  BY <1>1 DEF PendInv, PendqExact, InWait
<1>5. t \notin InWait /\ "run" \notin Waiting BY <1>1 DEF InWait, Waiting
<1>6. InWait \ {t} = InWait BY <1>5
<1> QED BY <1>1, <1>2, <1>3, <1>4, <1>5, <1>6, PendChanged

LEMMA PendPend ==
  ASSUME PendInv, NEW t \in Threads, NEW forever \in BOOLEAN, Pend(t, forever)
  PROVE  PendInv'
<1>1. /\ pc[t] = "run" /\ pendq' = Append(pendq, t) /\ timed' = [timed EXCEPT ![t] = ~forever]
      /\ pc' = [pc EXCEPT ![t] = "pended"] /\ UNCHANGED <<start, count, held>>
  BY DEF Pend, At, Goto, OnlyMoves, unitVars
<1>2. /\ count' \in 0 .. MaxCount /\ held' \in [Threads -> Nat]
      /\ timed' \in [Threads -> BOOLEAN]
  BY <1>1 DEF PendInv, TypeOK
<1>3. /\ pendq \in Seq(Threads) /\ {pendq[i] : i \in DOMAIN pendq} = InWait
      /\ \A i, j \in DOMAIN pendq : pendq[i] = pendq[j] => i = j
  BY DEF PendInv, TypeOK, PendqExact, InWait
<1>4. \A i \in DOMAIN pendq : pendq[i] # t
  <2>1. t \notin InWait BY <1>1 DEF InWait, Waiting
  <2> QED BY <2>1, <1>3
<1>5. /\ pendq' \in Seq(Threads)
      /\ {pendq'[i] : i \in DOMAIN pendq'} = InWait \cup {t}
      /\ \A i, j \in DOMAIN pendq' : pendq'[i] = pendq'[j] => i = j
  BY <1>1, <1>3, <1>4, AppendNew
<1>6. "pended" \in Waiting BY DEF Waiting
<1> QED BY <1>1, <1>2, <1>5, <1>6, PendChanged

(* After the sleep t is on the pend queue, which makes its removal legal.  *)
LEMMA PendRelock ==
  ASSUME PendInv, NEW t \in Threads, Relock(t)
  PROVE  PendInv'
<1>1. pc[t] = "relock" /\ timed' = timed /\ start' = start
  BY DEF Relock, At, OnlyMoves, unitVars
<1>2. /\ pendq \in Seq(Threads) /\ {pendq[i] : i \in DOMAIN pendq} = InWait
      /\ \A i, j \in DOMAIN pendq : pendq[i] = pendq[j] => i = j
  BY DEF PendInv, TypeOK, PendqExact, InWait
<1>3. t \in InWait /\ \E i \in DOMAIN pendq : pendq[i] = t
  <2>1. t \in InWait BY <1>1 DEF InWait, Waiting
  <2> QED BY <2>1, <1>2
<1> DEFINE left == Without(pendq, t)
<1>4. /\ left \in Seq(Threads)
      /\ {left[i] : i \in DOMAIN left} = InWait \ {t}
      /\ \A i, j \in DOMAIN left : left[i] = left[j] => i = j
  <2>1. /\ Without(pendq, t) \in Seq(Threads)
        /\ {Without(pendq, t)[i] : i \in DOMAIN Without(pendq, t)} = {pendq[i] : i \in DOMAIN pendq} \ {t}
        /\ \A i, j \in DOMAIN Without(pendq, t) : Without(pendq, t)[i] = Without(pendq, t)[j] => i = j
    BY <1>2, <1>3, WithoutOne
  <2> QED BY <2>1, <1>2
<1> HIDE DEF left
<1>5. timed' \in [Threads -> BOOLEAN] /\ count \in 0 .. MaxCount /\ held \in [Threads -> Nat]
  BY <1>1 DEF PendInv, TypeOK
<1>6. "run" \notin Waiting /\ "pended" \in Waiting /\ pc[t] # "starting" BY <1>1 DEF Waiting
<1>7. CASE Take(t) /\ pendq' = left
  <2>1. /\ count' \in 0 .. MaxCount /\ held' \in [Threads -> Nat]
        /\ pc' = [pc EXCEPT ![t] = "run"]
    BY <1>7, TakeTypes
  <2>2. /\ pendq' \in Seq(Threads)
        /\ {pendq'[i] : i \in DOMAIN pendq'} = InWait \ {t}
        /\ \A i, j \in DOMAIN pendq' : pendq'[i] = pendq'[j] => i = j
    BY <1>4, <1>7
  <2> QED BY <2>1, <2>2, <1>1, <1>5, <1>6, PendChanged
<1>8. CASE pendq' = left /\ pc' = [pc EXCEPT ![t] = "run"] /\ UNCHANGED <<count, held>>
  <2>1. /\ count' \in 0 .. MaxCount /\ held' \in [Threads -> Nat]
        /\ pendq' \in Seq(Threads) /\ pc' = [pc EXCEPT ![t] = "run"]
        /\ {pendq'[i] : i \in DOMAIN pendq'} = InWait \ {t}
        /\ \A i, j \in DOMAIN pendq' : pendq'[i] = pendq'[j] => i = j
    BY <1>4, <1>5, <1>8
  <2> QED BY <2>1, <1>1, <1>5, <1>6, PendChanged
<1>9. CASE pendq' = Append(left, t) /\ pc' = [pc EXCEPT ![t] = "pended"] /\ UNCHANGED <<count, held>>
  <2>1. \A i \in DOMAIN left : left[i] # t BY <1>4
  <2>2. /\ pendq' \in Seq(Threads)
        /\ {pendq'[i] : i \in DOMAIN pendq'} = (InWait \ {t}) \cup {t}
        /\ \A i, j \in DOMAIN pendq' : pendq'[i] = pendq'[j] => i = j
    BY <1>4, <1>9, <2>1, AppendNew
  <2>3. (InWait \ {t}) \cup {t} = InWait \cup {t} OBVIOUS
  <2> QED BY <2>2, <2>3, <1>1, <1>5, <1>6, <1>9, PendChanged
<1> QED BY <1>7, <1>8, <1>9 DEF Relock, Goto, left

(* The count saturates, and only where units are owned does it go by what  *)
(* the thread has.                                                         *)
LEMMA PendRelease ==
  ASSUME PendInv, NEW t \in Threads, Release(t)
  PROVE  PendInv'
<1> USE SemAssumption
<1>1. /\ Signals \/ held[t] > 0
      /\ held' = IF Signals THEN held ELSE [held EXCEPT ![t] = held[t] + (-1)]
      /\ count' = IF count < MaxCount THEN count + 1 ELSE count
      /\ UNCHANGED <<start, pc, pendq, timed>>
  BY DEF Release, Counts, unitVars
<1>2. count \in 0 .. MaxCount /\ held \in [Threads -> Nat] BY DEF PendInv, TypeOK
<1>3. count' \in 0 .. MaxCount /\ held' \in [Threads -> Nat] BY <1>1, <1>2
<1>4. TypeOK' BY <1>1, <1>3 DEF PendInv, TypeOK
<1>5. PendqExact' BY <1>1 DEF PendInv, PendqExact
<1>6. StartInv' BY <1>1 DEF PendInv, StartInv, Starting
<1> QED BY <1>1, <1>4, <1>5, <1>6 DEF PendInv

LEMMA PendStep == PendInv /\ [Next]_vars => PendInv'
<1> SUFFICES ASSUME PendInv, [Next]_vars PROVE PendInv' OBVIOUS
<1>1. CASE \E u \in Units : UnitNext(u) /\ UNCHANGED semVars BY <1>1, PendUnit
<1>2. ASSUME NEW t \in Threads,
             \/ Acquire(t) \/ Release(t) \/ Waits(t)
             \/ \E forever \in BOOLEAN : Pend(t, forever)
             \/ Yield(t) /\ UNCHANGED semVars
      PROVE PendInv'
  <2>1. CASE Acquire(t) BY <2>1, PendAcquire
  <2>2. CASE Release(t) BY <2>2, PendRelease
  <2>3. CASE Relock(t) BY <2>3, PendRelock
  <2>4. CASE \E forever \in BOOLEAN : Pend(t, forever) BY <2>4, PendPend
  <2>5. CASE (Yield(t) /\ UNCHANGED semVars) \/ SemSleep(t) \/ SemSchedule(t) \/ SemWoken(t)
    <3>1. UNCHANGED semVars BY <2>5 DEF SemSleep, SemSchedule, SemWoken
    <3> QED BY <2>5, <3>1, PendMove
  <2> QED BY <1>2, <2>1, <2>2, <2>3, <2>4, <2>5 DEF Waits
<1>3. CASE UNCHANGED vars
  <2>1. UNCHANGED semVars /\ UNCHANGED <<pc, start>>
    BY <1>3 DEF vars, schedVars, threadVars, unitVars
  <2>2. /\ StartInv' /\ DOMAIN pc' = Threads /\ InWait' = InWait
        /\ \A x \in Threads : pc'[x] \in Places
    BY <2>1 DEF PendInv, StartInv, Starting, InWait, TypeOK, Places
  <2> QED BY <2>1, <2>2, PendKept
<1> QED BY <1>1, <1>2, <1>3 DEF Next

(* The count stays between 0 and max_count, whoever acquires and releases, *)
(* times out or signals.                                                   *)
THEOREM CountCorrect == Spec => []TypeOK
<1>1. PendInv => TypeOK BY DEF PendInv
<1> QED BY <1>1, PendInit, PendStep, PTL DEF Spec

(* sem_acquire puts every waiter on the pend queue once, and takes it off  *)
(* whether it acquires, times out or waits again.                          *)
THEOREM WaitersPended == Spec => []PendqExact
<1>1. PendInv => PendqExact BY DEF PendInv
<1> QED BY <1>1, PendInit, PendStep, PTL DEF Spec

-------------------------------------------------------------------------------
(* The run queues under the semaphore.                                     *)
SemInv == PendInv /\ QueueInv /\ AwakeInv("semSlept", "semAsleep")

LEMMA SemInit == Init => SemInv
<1> SUFFICES ASSUME Init PROVE SemInv OBVIOUS
<1>1. SchedInit /\ PendInv /\ QueueInv BY PendInit, QueueInit DEF Init
<1>2. AwakeInv("semSlept", "semAsleep")
  BY <1>1, SchedAssumption DEF SchedInit, AwakeInv, Ready, All
<1> QED BY <1>1, <1>2 DEF SemInv

(* A thread that waits has been started.                                   *)
LEMMA WaiterStarted ==
  ASSUME PendInv, pendq # <<>>
  PROVE  Head(pendq) \in Threads /\ pc[Head(pendq)] \in Waiting /\ Started(Head(pendq))
<1>1. pendq \in Seq(Threads) /\ {pendq[i] : i \in DOMAIN pendq} = {t \in Threads : pc[t] \in Waiting}
  BY DEF PendInv, TypeOK, PendqExact
<1>2. 1 \in DOMAIN pendq /\ Head(pendq) = pendq[1] BY <1>1, EmptySeq
<1>3. Head(pendq) \in Threads /\ pc[Head(pendq)] \in Waiting BY <1>1, <1>2
<1> QED BY <1>3 DEF Waiting, Started

(* What the calls of the semaphore do to the run queues.                   *)
LEMMA SemQueue ==
  ASSUME SemInv, NEW t \in Threads,
         \/ Acquire(t) \/ Relock(t) \/ SemWoken(t)
         \/ \E forever \in BOOLEAN : Pend(t, forever)
  PROVE  QueueInv' /\ AwakeInv("semSlept", "semAsleep")'
<1> DEFINE slept == "semSlept"  asleep == "semAsleep"
<1>1. /\ unit[t] # NULL /\ cur[unit[t]] = t /\ pc[t] \in {"run", "relock", "semAsleep"}
      /\ \E to \in {"run", "pended", "relock"} : pc' = [pc EXCEPT ![t] = to]
      /\ UNCHANGED <<units, cur, preempt, irq, start, unit, flags, heap, clean>>
      /\ timer' = timer \/ timer' = [timer EXCEPT ![t] = FALSE]
  BY DEF Acquire, Relock, SemWoken, Pend, SleepEnd, Take, Goto, At, OnlyMoves, unitVars
<1>2. Started(t) BY <1>1 DEF Started
<1>3. QueueInv' BY <1>1, <1>2, QueueMoves DEF SemInv
<1>4. ASSUME clean, NEW x \in Threads PROVE pc'[x] = pc[x] \/ Ready(x)
  <2>1. unit[t] \in Units BY <1>1, <1>4, SchedAssumption DEF SemInv, QueueInv, Shape
  <2>2. Ready(t) BY <1>1, <1>4, <2>1 DEF SemInv, AwakeInv
  <2> QED BY <1>1, <1>4, <2>2 DEF SemInv, PendInv
<1>5. AwakeInv(slept, asleep)' BY <1>1, <1>4, AwakeKept DEF SemInv, Ready
<1> QED BY <1>3, <1>5

LEMMA SemQueueSleep ==
  ASSUME SemInv, NEW t \in Threads, SemSleep(t) \/ SemSchedule(t) \/ Yield(t)
  PROVE  QueueInv' /\ AwakeInv("semSlept", "semAsleep")'
<1>1. CASE SemSleep(t)
  <2>1. /\ unit[t] # NULL /\ cur[unit[t]] = t /\ timed[t] \in BOOLEAN
        /\ SleepPrep(t, timed[t], "semSlept")
    BY <1>1 DEF SemSleep, At, SemInv, PendInv, TypeOK
  <2> QED BY <2>1, QueueSleep, AwakeSleep DEF SemInv
<1>2. CASE SemSchedule(t) \/ Yield(t)
  <2>1. PICK from \in {"run", "semSlept"}, to \in {"run", "semAsleep"} :
          Calls(t, from, to) /\ (from = "run" <=> to = "run")
    BY <1>2 DEF SemSchedule, Yield
  <2>2. QueueInv' BY <2>1, QueueCalls DEF SemInv
  <2>3. /\ pc[t] = from /\ cur[unit[t]] = t /\ unit[t] # NULL /\ Switch(unit[t])
        /\ UNCHANGED <<preempt, flags, clean>> /\ pc' = [pc EXCEPT ![t] = to]
    BY <2>1 DEF Calls, At, Goto
  <2>4. CASE ~clean BY <2>2, <2>3, <2>4 DEF SemInv, AwakeInv
  <2>5. CASE clean
    <3>1. unit[t] \in Units BY <2>3, <2>5, SchedAssumption DEF SemInv, QueueInv, Shape
    <3>2. \A x \in Threads : \/ pc'[x] = pc[x] \/ Ready(x)
                             \/ pc[x] = "semSlept" /\ pc'[x] = "semAsleep" /\ cur[unit[t]] = x
      BY <2>1, <2>3 DEF SemInv, PendInv
    <3>3. AwakeInv("semSlept", "semAsleep")'
      BY <2>3, <3>1, <3>2, AwakeSwitch DEF SemInv
    <3> QED BY <2>2, <3>3
  <2> QED BY <2>2, <2>4, <2>5
<1> QED BY <1>1, <1>2

LEMMA SemQueueRelease ==
  ASSUME SemInv, NEW t \in Threads, Release(t)
  PROVE  QueueInv' /\ AwakeInv("semSlept", "semAsleep")'
<1>1. UNCHANGED <<units, cur, preempt, irq, start, unit, pc, timer>> BY DEF Release, unitVars
<1>2. clean => Shape BY DEF SemInv, QueueInv
<1>3. CASE pendq = <<>>
  <2>1. UNCHANGED <<flags, heap, clean>> BY <1>3 DEF Release
  <2>2. QueueInv' BY <1>1, <1>2, <2>1, QueueKept DEF SemInv, Shape, Ready
  <2> QED BY <1>1, <2>1, <2>2, AwakeKept DEF SemInv, Ready
<1>4. CASE pendq # <<>>
  <2>1. Wakes(Head(pendq)) BY <1>4 DEF Release
  <2>2. Head(pendq) \in Threads /\ Started(Head(pendq)) BY <1>4, WaiterStarted DEF SemInv
  <2>3. QueueInv' BY <1>1, <1>2, <2>1, <2>2, QueueWakes DEF SemInv, Shape
  <2> QED BY <1>1, <2>1, <2>2, <2>3, AwakeWakes DEF SemInv
<1> QED BY <1>3, <1>4

LEMMA SemStep == SemInv /\ [Next]_vars => SemInv'
<1> SUFFICES ASSUME SemInv, [Next]_vars PROVE SemInv' OBVIOUS
<1>1. PendInv' BY PendStep DEF SemInv
<1>2. ASSUME NEW u \in Units, UnitNext(u) PROVE QueueInv' /\ AwakeInv("semSlept", "semAsleep")'
  BY <1>2, QueueUnit, AwakeUnit DEF SemInv
<1>3. ASSUME NEW t \in Threads,
             \/ Acquire(t) \/ Release(t) \/ Waits(t)
             \/ \E forever \in BOOLEAN : Pend(t, forever)
             \/ Yield(t) /\ UNCHANGED semVars
      PROVE  QueueInv' /\ AwakeInv("semSlept", "semAsleep")'
  BY <1>3, SemQueue, SemQueueSleep, SemQueueRelease DEF Waits
<1>4. CASE UNCHANGED vars
  <2>1. UNCHANGED <<units, cur, preempt, irq, start, unit, flags, pc, timer, heap, clean>>
    BY <1>4 DEF vars, schedVars, unitVars, threadVars
  <2>2. clean => Shape BY DEF SemInv, QueueInv
  <2>3. QueueInv' BY <2>1, <2>2, QueueKept DEF SemInv, Shape, Ready
  <2> QED BY <2>1, <2>3, <1>1, AwakeKept DEF SemInv, Ready
<1> QED BY <1>1, <1>2, <1>3, <1>4 DEF Next, SemInv

-------------------------------------------------------------------------------
(* The first waiter of a free semaphore is awake, and one unit is free, if *)
(* every wake so far has found its thread asleep: a second release would   *)
(* wake the same thread again.                                             *)
HeadAwake ==
  clean /\ count > 0 /\ pendq # <<>> =>
    count = 1 /\ Ready(Head(pendq)) /\ pc[Head(pendq)] # "pended"

WokenInv == SemInv /\ HeadAwake

LEMMA WokenInit == Init => WokenInv
BY SemInit DEF Init, WokenInv, HeadAwake

LEMMA WokenStep == WokenInv /\ [Next]_vars => WokenInv'
<1> SUFFICES ASSUME WokenInv, [Next]_vars, clean', count' > 0, pendq' # <<>>
             PROVE  count' = 1 /\ "READY" \in flags'[Head(pendq')] /\ pc'[Head(pendq')] # "pended"
  BY SemStep DEF WokenInv, HeadAwake, Ready
<1>1. SemInv /\ PendInv BY DEF WokenInv, SemInv
<1>2. count \in Nat /\ pendq \in Seq(Threads) /\ DOMAIN pc = Threads
  BY <1>1, SemAssumption DEF PendInv, StartInv, TypeOK
<1>3. CASE \E u \in Units : UnitNext(u) /\ UNCHANGED semVars
  <2>1. PICK u \in Units : UnitNext(u) /\ UNCHANGED <<count, pendq>> BY <1>3 DEF semVars
  <2>2. Head(pendq) \in Threads /\ pc[Head(pendq)] \in Waiting BY <2>1, <1>1, WaiterStarted
  <2>3. clean /\ \A t \in Threads : Ready(t) => "READY" \in flags'[t]
    BY <2>1, <1>1, UnitKeepsReady DEF SemInv
  <2>4. pc'[Head(pendq)] = pc[Head(pendq)]
    BY <2>1, <2>2, <1>1, StartUnit DEF PendInv, Started, Waiting
  <2>5. count = 1 /\ Ready(Head(pendq)) /\ pc[Head(pendq)] # "pended"
    BY <2>1, <2>3 DEF WokenInv, HeadAwake
  <2> QED BY <2>1, <2>2, <2>3, <2>4, <2>5
<1>4. ASSUME NEW t \in Threads,
             \/ Acquire(t) \/ Release(t) \/ Waits(t)
             \/ \E forever \in BOOLEAN : Pend(t, forever)
             \/ Yield(t) /\ UNCHANGED semVars
      PROVE  count' = 1 /\ "READY" \in flags'[Head(pendq')] /\ pc'[Head(pendq')] # "pended"
  <2>1. CASE \E forever \in BOOLEAN : Pend(t, forever) BY <2>1 DEF Pend
  <2>2. CASE Acquire(t)
    <3>1. count > 1 /\ pendq # <<>> /\ clean
      BY <2>2, <1>2 DEF Acquire, Take, OnlyMoves
    <3> QED BY <3>1, <1>2 DEF WokenInv, HeadAwake
  <2>3. CASE Relock(t)
    <3>1. count > 1 /\ clean /\ pc[t] = "relock" BY <2>3, <1>2 DEF Relock, Take, OnlyMoves, At
    <3>2. pendq # <<>>
      <4>1. \E i \in DOMAIN pendq : pendq[i] = t
        BY <3>1, <1>1 DEF PendInv, PendqExact, Waiting
      <4> QED BY <4>1
    <3> QED BY <3>1, <3>2, <1>2 DEF WokenInv, HeadAwake
  <2>4. CASE Release(t)
    <3>1. pendq' = pendq /\ pc' = pc /\ count' = (IF count < MaxCount THEN count + 1 ELSE count)
      BY <2>4 DEF Release
    <3>2. Wakes(Head(pendq)) BY <2>4, <3>1 DEF Release
    <3>3. /\ Head(pendq) \in Threads /\ Started(Head(pendq)) BY <3>1, <1>1, WaiterStarted
    <3>4. /\ clean /\ ~Ready(Head(pendq)) /\ pc[Head(pendq)] \in {"semSlept", "semAsleep"}
      BY <3>2, <3>3, <1>1, WakesSleeper DEF SemInv
    <3>5. count = 0 BY <3>1, <3>4, <1>2 DEF WokenInv, HeadAwake
    <3>6. "READY" \in flags'[Head(pendq)]
      <4>1. Head(pendq) \in DOMAIN flags BY <3>3, <3>4, <1>1 DEF SemInv, QueueInv, Shape, All
      <4> QED BY <3>1, <3>2, <4>1 DEF Wakes, Ready
    <3> QED BY <3>1, <3>4, <3>5, <3>6 DEF Ready
  <2>5. CASE SemSleep(t) \/ SemSchedule(t) \/ SemWoken(t) \/ (Yield(t) /\ UNCHANGED semVars)
    <3>1. UNCHANGED <<count, pendq, clean>>
      BY <2>5 DEF SemSleep, SemSchedule, SemWoken, Yield, SleepPrep, SleepEnd, Calls, semVars
    <3>2. Head(pendq) \in Threads /\ pc[Head(pendq)] \in Waiting BY <3>1, <1>1, WaiterStarted
    <3>3. count = 1 /\ Ready(Head(pendq)) /\ pc[Head(pendq)] # "pended"
      BY <3>1 DEF WokenInv, HeadAwake
    <3>4. \E to \in {"semSlept", "semAsleep", "relock", "run"} : pc' = [pc EXCEPT ![t] = to]
      BY <2>5 DEF SemSleep, SemSchedule, SemWoken, Yield, SleepPrep, SleepEnd, Calls, Goto
    <3>5. \/ flags' = flags
          \/ pc[t] = "pended" /\ flags' = [flags EXCEPT ![t] = flags[t] \ {"READY"}]
      BY <2>5 DEF SemSleep, SemSchedule, SemWoken, Yield, SleepPrep, SleepEnd, Calls, At
    <3>6. "READY" \in flags'[Head(pendq)]
      <4>1. Head(pendq) \in DOMAIN flags BY <3>1, <3>2, <1>1 DEF SemInv, QueueInv, Shape, All
      <4>2. flags'[Head(pendq)] = flags[Head(pendq)] BY <4>1, <3>3, <3>5
      <4> QED BY <4>2, <3>3 DEF Ready
    <3>7. pc'[Head(pendq)] # "pended" BY <3>2, <3>3, <3>4, <1>2
    <3> QED BY <3>1, <3>3, <3>6, <3>7 DEF Ready
  <2> QED BY <1>4, <2>1, <2>2, <2>3, <2>4, <2>5 DEF Waits
<1>5. CASE UNCHANGED vars
  <2>1. UNCHANGED <<count, pendq, clean, pc, flags>>
    BY <1>5 DEF vars, semVars, schedVars, threadVars
  <2> QED BY <2>1 DEF WokenInv, HeadAwake, Ready
<1> QED BY <1>3, <1>4, <1>5 DEF Next

(* While every wake finds its thread asleep, no waiter is stranded beside  *)
(* a free unit: the first is awake and will look at the semaphore.         *)
THEOREM FirstWaiterWakes == Spec => []WokenWhenFree
<1>1. WokenInv => WokenWhenFree
  <2> SUFFICES ASSUME WokenInv, clean, count > 0, pendq # <<>>
               PROVE  \E i \in DOMAIN pendq : Stirring(pendq[i])
    BY DEF WokenWhenFree, NoStrandedWaiter
  <2>1. pendq \in Seq(Threads) BY DEF WokenInv, SemInv, PendInv, TypeOK
  <2>2. 1 \in DOMAIN pendq /\ Head(pendq) = pendq[1] BY <2>1, EmptySeq
  <2>3. Stirring(pendq[1]) BY <2>2 DEF WokenInv, HeadAwake, Stirring
  <2> QED BY <2>2, <2>3
<1> QED BY <1>1, WokenInit, WokenStep, PTL DEF Spec

-------------------------------------------------------------------------------
(* The units that threads have, one by one: a thread gets one more ...     *)
LEMMA TakenMore ==
  ASSUME held \in [Threads -> Nat], NEW t \in Threads, IsFiniteSet(Taken),
         held' = [held EXCEPT ![t] = held[t] + 1]
  PROVE  IsFiniteSet(Taken') /\ Cardinality(Taken') = Cardinality(Taken) + 1
<1> DEFINE one == <<t, held[t] + 1>>
<1>1. \A x, k : <<x, k>> \in Taken <=> x \in Threads /\ k \in 1 .. held[x] BY DEF Taken
<1>2. \A x, k : <<x, k>> \in Taken' <=> x \in Threads /\ k \in 1 .. held'[x] BY DEF Taken
<1>3. one \notin Taken BY <1>1
<1>4. \A x \in Threads : \A k : k \in 1 .. held'[x] <=> k \in 1 .. held[x] \/ (x = t /\ k = held[t] + 1)
  <2> TAKE x \in Threads
  <2> TAKE k
  <2>1. held[x] \in Nat /\ held[t] \in Nat OBVIOUS
  <2>2. CASE x = t
    <3>1. held'[x] = held[t] + 1 BY <2>2
    <3> QED BY <2>1, <2>2, <3>1
  <2>3. CASE x # t
    <3>1. held'[x] = held[x] BY <2>3
    <3> QED BY <2>3, <3>1
  <2> QED BY <2>2, <2>3
<1>5. \A p \in Taken' : \E x, k : p = <<x, k>> BY DEF Taken
<1>6. \A p \in Taken : \E x, k : p = <<x, k>> BY DEF Taken
<1>7. Taken' = Taken \cup {one} BY <1>1, <1>2, <1>4, <1>5, <1>6
<1> QED BY <1>3, <1>7, FS_AddElement

(* ... or gives one back.                                                  *)
LEMMA TakenLess ==
  ASSUME held \in [Threads -> Nat], NEW t \in Threads, IsFiniteSet(Taken), held[t] > 0,
         held' = [held EXCEPT ![t] = held[t] + (-1)]
  PROVE  /\ IsFiniteSet(Taken') /\ Cardinality(Taken') = Cardinality(Taken) - 1
         /\ Cardinality(Taken) \in Nat \ {0}
<1> DEFINE one == <<t, held[t]>>
<1>1. \A x, k : <<x, k>> \in Taken <=> x \in Threads /\ k \in 1 .. held[x] BY DEF Taken
<1>2. \A x, k : <<x, k>> \in Taken' <=> x \in Threads /\ k \in 1 .. held'[x] BY DEF Taken
<1>3. one \in Taken
  <2>1. held[t] \in Nat /\ held[t] \in 1 .. held[t] OBVIOUS
  <2> QED BY <1>1, <2>1
<1>4. \A x \in Threads : \A k : k \in 1 .. held'[x] <=> k \in 1 .. held[x] /\ ~(x = t /\ k = held[t])
  <2> TAKE x \in Threads
  <2> TAKE k
  <2>1. held[x] \in Nat /\ held[t] \in Nat OBVIOUS
  <2>2. CASE x = t
    <3>1. held'[x] = held[t] - 1 BY <2>2, <2>1
    <3> QED BY <2>1, <2>2, <3>1
  <2>3. CASE x # t
    <3>1. held'[x] = held[x] BY <2>3
    <3> QED BY <2>3, <3>1
  <2> QED BY <2>2, <2>3
<1>5. \A p \in Taken' : \E x, k : p = <<x, k>> BY DEF Taken
<1>6. \A p \in Taken : \E x, k : p = <<x, k>> BY DEF Taken
<1>7. Taken' = Taken \ {one} BY <1>1, <1>2, <1>4, <1>5, <1>6
<1>8. Cardinality(Taken) # 0 BY <1>3, FS_EmptySet
<1> QED BY <1>3, <1>7, <1>8, FS_RemoveElement, FS_CardinalityType

ConsInv == PendInv /\ (~Signals => IsFiniteSet(Taken)) /\ Conservation

LEMMA ConsInit == Init => ConsInv
<1> SUFFICES ASSUME Init PROVE ConsInv OBVIOUS
<1>1. count = InitCount /\ held = [t \in Threads |-> 0] BY DEF Init
<1>2. \A t \in Threads : {t} \X (1 .. held[t]) = {}
  <2> TAKE t \in Threads
  <2>1. 1 .. held[t] = {} BY <1>1
  <2> QED BY <2>1
<1>3. Taken = {} BY <1>2 DEF Taken
<1>4. IsFiniteSet({}) /\ Cardinality({}) = 0 BY FS_EmptySet
<1> QED BY <1>1, <1>3, <1>4, PendInit, SemAssumption DEF ConsInv, Conservation

LEMMA ConsStep == ConsInv /\ [Next]_vars => ConsInv'
<1> SUFFICES ASSUME ConsInv, [Next]_vars, ~Signals
             PROVE  IsFiniteSet(Taken') /\ count' + Cardinality(Taken') = InitCount
  BY PendStep DEF ConsInv, Conservation
<1> USE SemAssumption
<1>1. /\ count \in 0 .. MaxCount /\ held \in [Threads -> Nat]
      /\ IsFiniteSet(Taken) /\ Cardinality(Taken) \in Nat
      /\ count + Cardinality(Taken) = InitCount
  BY FS_CardinalityType DEF ConsInv, PendInv, TypeOK, Conservation
<1>2. CASE UNCHANGED <<count, held>>
  <2>1. Taken' = Taken BY <1>2 DEF Taken
  <2> QED BY <1>1, <1>2, <2>1
<1>3. ASSUME NEW t \in Threads, Take(t)
      PROVE  IsFiniteSet(Taken') /\ count' + Cardinality(Taken') = InitCount
  <2>1. count' = count - 1 /\ held' = [held EXCEPT ![t] = held[t] + 1] BY <1>3 DEF Take, Counts
  <2>2. IsFiniteSet(Taken') /\ Cardinality(Taken') = Cardinality(Taken) + 1
    BY <1>1, <2>1, TakenMore
  <2>3. count \in Nat /\ InitCount \in Nat BY <1>1
  <2> QED BY <1>1, <2>1, <2>2, <2>3
<1>4. ASSUME NEW t \in Threads, Release(t)
      PROVE  IsFiniteSet(Taken') /\ count' + Cardinality(Taken') = InitCount
  <2>1. /\ held[t] > 0 /\ held' = [held EXCEPT ![t] = held[t] + (-1)]
        /\ count' = IF count < MaxCount THEN count + 1 ELSE count
    BY <1>4 DEF Release, Counts
  <2>2. /\ IsFiniteSet(Taken') /\ Cardinality(Taken') = Cardinality(Taken) - 1
        /\ Cardinality(Taken) \in Nat \ {0}
    BY <1>1, <2>1, TakenLess
  <2> QED BY <1>1, <2>1, <2>2
<1>5. \/ UNCHANGED <<count, held>>
      \/ \E t \in Threads : Take(t) \/ Release(t)
  <2>1. CASE UNCHANGED semVars BY <2>1 DEF semVars
  <2>2. ASSUME NEW t \in Threads, Acquire(t) \/ Relock(t) \/ (\E forever \in BOOLEAN : Pend(t, forever))
        PROVE  Take(t) \/ UNCHANGED <<count, held>>
    BY <2>2 DEF Acquire, Relock, Pend
  <2> QED BY <2>1, <2>2 DEF Next, Waits, SemSleep, SemSchedule, SemWoken, vars
<1> QED BY <1>2, <1>3, <1>4, <1>5

(* Where threads release only what they have acquired, the units that are  *)
(* free and the units that threads have are the initial ones, whoever      *)
(* times out or is woken early; with one unit, that is mutual exclusion.   *)
THEOREM UnitsConserved == Spec => []Conservation
<1>1. ConsInv => Conservation BY DEF ConsInv
<1> QED BY <1>1, ConsInit, ConsStep, PTL DEF Spec
===============================================================================
