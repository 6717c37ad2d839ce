---------------------------- MODULE SpinlockProofs ----------------------------
(***************************************************************************)
(* For any number of CPUs and locks, the spinlocks exclude each other,     *)
(* whatever is called when.  For any number of CPUs, threads, semaphores   *)
(* and mutexes, the sections that the kernel makes of them do not wait in  *)
(* a circle, a service routine never spins on a lock of the thread it      *)
(* interrupted, and threads get their interrupts back as they had set      *)
(* them.  And while no reader has subtracted from 0, the word of a         *)
(* reader/writer spinlock counts who is in, and a writer is alone.         *)
(***************************************************************************)
EXTENDS Sections, RwSpinlock, FiniteSetTheorems, TLAPS

LEMMA CtxFacts ==
  ASSUME NEW x \in Ctx
  PROVE  /\ x[1] \in Cpus /\ x[2] \in {"thread", "isr"} /\ x = <<x[1], x[2]>>
BY DEF Ctx

-------------------------------------------------------------------------------
(* The variables keep their types.                                         *)
LEMMA TypeInit == Init => TypeOK
BY SpinlockAssumption DEF Init, TypeOK

LEMMA FlagType ==
  ASSUME flag \in [Ctx -> [Locks -> BOOLEAN]], NEW x \in Ctx, NEW l \in Locks, NEW b \in BOOLEAN
  PROVE  [flag EXCEPT ![x] = [@ EXCEPT ![l] = b]] \in [Ctx -> [Locks -> BOOLEAN]]
<1>1. [flag[x] EXCEPT ![l] = b] \in [Locks -> BOOLEAN]
  OBVIOUS
<1>2. QED
  BY <1>1

LEMMA TypeStep == TypeOK /\ [Next]_vars => TypeOK'
<1> SUFFICES ASSUME TypeOK, [Next]_vars PROVE TypeOK'
  OBVIOUS
<1> USE SpinlockAssumption DEF TypeOK
<1>0. \A x \in Ctx : x[1] \in Cpus
  BY DEF Ctx
<1>1. ASSUME NEW x \in Ctx, Step(x) \/ Acquire(x)
      PROVE TypeOK'
  <2>1. CASE LockIntMask(x)
    BY <1>0, <2>1 DEF LockIntMask, Mask, Goto
  <2>2. CASE TryLockIntMask(x)
    BY <1>0, <2>2 DEF TryLockIntMask, Mask, Goto
  <2>3. CASE Acquire(x)
    BY <1>0, <2>3 DEF Acquire
  <2>4. CASE TryFail(x)
    BY <1>0, <2>4 DEF TryFail
  <2>5. CASE Unmask(x)
    BY <1>0, <2>5 DEF Unmask, Goto
  <2>6. QED
    BY <1>1, <2>1, <2>2, <2>3, <2>4, <2>5 DEF Step, TryEnds
<1>2. ASSUME NEW x \in Ctx, NEW l \in Locks,
             Lock(x, l) \/ TryLock(x, l) \/ LockInt(x, l) \/ TryLockInt(x, l)
      PROVE TypeOK'
  <2>1. PICK to \in {"spin", "try", "mask", "tryMask"}, found \in BOOLEAN : Call(x, l, found, to)
    BY <1>0, <1>2 DEF Lock, TryLock, LockInt, TryLockInt
  <2>2. flag' \in [Ctx -> [Locks -> BOOLEAN]]
    BY <2>1, FlagType, Zenon DEF Call
  <2>3. pc' = [pc EXCEPT ![x] = to] /\ want' = [want EXCEPT ![x] = l]
        /\ UNCHANGED <<word, ifl, inIsr, held>>
    BY <2>1 DEF Call, Goto
  <2>4. QED
    BY <2>2, <2>3
<1>3. ASSUME NEW x \in Ctx, NEW l \in Locks, Unlock(x, l)
      PROVE TypeOK'
  <2>1. flag' \in [Ctx -> [Locks -> BOOLEAN]]
    BY <1>3, FlagType, Zenon DEF Unlock
  <2>2. PICK to \in {"run", "unmask"} : pc[x] = "run" /\ pc' = [pc EXCEPT ![x] = to]
    BY <1>3 DEF Unlock, Goto
  <2>3. /\ word' = [word EXCEPT ![l] = IF @ = 1 THEN 0 ELSE @]
        /\ held' = [held EXCEPT ![x] = @ \ {l}]
        /\ UNCHANGED <<ifl, inIsr, want>>
    BY <1>3 DEF Unlock
  <2>4. QED
    BY <2>1, <2>2, <2>3
<1>4. ASSUME NEW x \in Ctx, NEW on \in BOOLEAN, SetFlag(x, on)
      PROVE TypeOK'
  BY <1>0, <1>4 DEF SetFlag, Goto
<1>5. ASSUME NEW c \in Cpus, Interrupt(c) \/ IsrReturn(c)
      PROVE TypeOK'
  BY <1>5 DEF Interrupt, IsrReturn, Enter, Leave
<1>6. CASE UNCHANGED vars
  BY <1>6 DEF vars
<1>7. QED
  BY <1>1, <1>2, <1>3, <1>4, <1>5, <1>6 DEF Next

(* TypeOK: the lock words stay in {0, 1}, whatever is called when.         *)
THEOREM TypeCorrect == Spec => []TypeOK
BY TypeInit, TypeStep, PTL DEF Spec

-------------------------------------------------------------------------------
(* A word only leaves 0 by the exchange of the context that then holds the *)
(* lock, and only leaves 1 by that context's release.                      *)
LEMMA ExclusionStep == TypeOK /\ MutualExclusion /\ [Next]_vars => MutualExclusion'
<1> SUFFICES ASSUME TypeOK, MutualExclusion, [Next]_vars PROVE MutualExclusion'
  OBVIOUS
<1> USE SpinlockAssumption DEF TypeOK, MutualExclusion
<1>1. ASSUME NEW x \in Ctx, Acquire(x)
      PROVE MutualExclusion'
  BY <1>1 DEF Acquire
<1>2. ASSUME NEW x \in Ctx, NEW l \in Locks, Unlock(x, l)
      PROVE MutualExclusion'
  BY <1>2 DEF Unlock, Goto
<1>3. CASE UNCHANGED <<word, held>>
  BY <1>3
<1>4. ASSUME NEW x \in Ctx, Step(x), ~Acquire(x)
      PROVE UNCHANGED <<word, held>>
  BY <1>4 DEF Step, LockIntMask, TryLockIntMask, Mask, TryEnds, TryFail, Unmask
<1>5. ASSUME NEW x \in Ctx, NEW l \in Locks,
             Lock(x, l) \/ TryLock(x, l) \/ LockInt(x, l) \/ TryLockInt(x, l)
      PROVE UNCHANGED <<word, held>>
  BY <1>5 DEF Lock, TryLock, LockInt, TryLockInt, Call
<1>6. ASSUME NEW x \in Ctx, NEW on \in BOOLEAN, SetFlag(x, on)
      PROVE UNCHANGED <<word, held>>
  BY <1>6 DEF SetFlag
<1>7. ASSUME NEW c \in Cpus, Interrupt(c) \/ IsrReturn(c)
      PROVE UNCHANGED <<word, held>>
  BY <1>7 DEF Interrupt, IsrReturn
<1>8. QED
  BY <1>1, <1>2, <1>3, <1>4, <1>5, <1>6, <1>7 DEF Next, vars

(* MutualExclusion: no two contexts of any number of CPUs hold a spinlock, *)
(* and its word is 1 exactly while one does.                               *)
THEOREM Exclusion == Spec => []MutualExclusion
<1>1. Init => MutualExclusion
  BY DEF Init, MutualExclusion
<1>2. QED
  BY <1>1, TypeCorrect, ExclusionStep, PTL DEF Spec

-------------------------------------------------------------------------------
(* What a context holds, and what its thread has done to the interrupts,   *)
(* can be told from where it is.                                           *)
Kinds == {"own", "unit", "thread", "object", "active", "pend"}

(* Before line l, the locks k of LockOf are held, or are being taken.      *)
In(l, k) ==
  \/ k = "own" /\ l \in {"in3", "self3", "main", "tick", "resched"}
  \/ k = "unit" /\ l \in {"wake1", "wake2", "due1", "due2", "start2", "start4", "start5"}
  \/ k = "thread" /\ l \in {"wake2", "wake3", "due2", "due3", "sleep1", "sleep2", "sleep3",
                            "start1", "start2", "start3", "start4", "start5", "start6"}
  \/ k = "object" /\ l \in {"in", "in1", "in2", "in3", "in4", "known",
                            "wake", "wake1", "wake2", "wake3", "out"}
  \/ k = "active" /\ l \in {"set", "deq3", "queue", "due", "due1", "due2", "due3",
                            "queue1", "queue2"}
  \/ k = "pend" /\ l \in {"sleep2", "deq5", "queue1"}

(* ... and the one of them that was taken last, where one just was.        *)
Last(l) ==
  CASE l = "in" -> "object"
    [] l \in {"in3", "self3", "main", "tick", "resched"} -> "own"
    [] l \in {"wake1", "due1", "start2", "start4"} -> "unit"
    [] l \in {"wake2", "due2", "sleep1", "start1"} -> "thread"
    [] l \in {"set", "deq3", "queue"} -> "active"
    [] l \in {"sleep2", "deq5", "queue1"} -> "pend"
    [] OTHER -> "none"

(* Which lock's flag, or own, keeps the interrupt flag of the section.     *)
Class(l) ==
  CASE l \in {"thread", "obj", "sleep", "start"} -> "free"
    [] l \in {"self1", "deq1"} -> "saving"
    [] l \in {"self2", "self3", "self4", "deq2", "deq3", "deq4", "deq5", "deq6"} -> "saved"
    [] l \in {"in", "in1", "in2", "in3", "in4", "known",
              "wake", "wake1", "wake2", "wake3", "out"} -> "object"
    [] l \in {"sleep1", "sleep2", "sleep3", "start1", "start2", "start3",
              "start4", "start5", "start6"} -> "thread"
    [] l = "main" -> "own"
    [] l = "set" -> "active"
    [] OTHER -> "service"

(* Where th is a thread, where it is being started, and where ob is an     *)
(* object.                                                                 *)
Starting == {"start", "start1", "start2", "start3", "start4"}
OfThread == Starting \cup {"start5", "start6", "sleep", "sleep1", "sleep2", "sleep3", "wake",
                           "wake1", "wake2", "wake3", "due", "due1", "due2", "due3"}
OfObject == {"obj", "in", "in1", "in2", "in3", "in4", "known",
             "wake", "wake1", "wake2", "wake3", "out"}

(* The order in which the locks are taken: that of a thread comes before   *)
(* its unit's until the thread can be woken, and after it from then on.    *)
Level(l) ==
  CASE l[1] = "object" -> 0
    [] l[1] = "active" -> 1
    [] l[1] = "thread" -> IF phase[l[2]] = "live" THEN 4 ELSE 2
    [] l[1] = "unit"   -> 3
    [] OTHER           -> 5

(* The same, of the lock k before line l.                                  *)
LevelAt(l, k) ==
  CASE k = "object" -> 0
    [] k = "active" -> 1
    [] k = "thread" -> IF l \in Starting THEN 2 ELSE 4
    [] k = "pend"   -> 5
    [] OTHER        -> 3

(* What a row does to the locks ...                                        *)
LocksRow(r) ==
  /\ r[2] \in {"lock", "lockInt"} =>
       /\ r[3] \in Kinds /\ ~In(r[1], r[3]) /\ Last(r[4]) = r[3]
       /\ \A k \in Kinds : In(r[4], k) <=> (In(r[1], k) \/ k = r[3])
  /\ r[2] = "unlock" =>
       /\ r[3] \in Kinds /\ In(r[1], r[3])
       /\ \A k \in Kinds : In(r[4], k) <=> (In(r[1], k) /\ k # r[3])
  /\ r[2] \notin {"lock", "lockInt", "unlock"} => \A k \in Kinds : In(r[4], k) <=> In(r[1], k)
  /\ ~(In(r[1], "own") /\ In(r[1], "unit")) /\ ~(In(r[4], "own") /\ In(r[4], "unit"))

(* ... to what it is about ...                                             *)
ArgsRow(r) ==
  /\ r[2] \in {"lock", "lockInt", "unlock", "check", "mask", "restore", "enqueue"} =>
       /\ r[4] \in OfThread => r[1] \in OfThread
       /\ r[4] \in OfObject => r[1] \in OfObject
       /\ r[2] # "enqueue" => (r[4] \in OfThread => (r[1] \in Starting <=> r[4] \in Starting))
       /\ r[2] # "enqueue" => (r[4] \in Starting => r[1] \in Starting)
  /\ r[2] \in {"lock", "lockInt", "unlock"} =>
       /\ r[3] \in {"unit", "thread"} => r[1] \in OfThread
       /\ r[3] = "object" => r[1] \in OfObject
  /\ r[2] = "enqueue" => r[1] \in Starting /\ r[4] \notin Starting /\ r[4] \in OfThread
  /\ r[2] = "pickObject" => r[4] \notin OfThread /\ \A k \in Kinds : ~In(r[1], k)
  /\ r[2] \in {"pickSelf", "pickLive"} => r[4] \notin Starting
  /\ r[2] = "pickNew" => r[4] \in Starting
  /\ r[2] \in {"pickSelf", "pickNew", "pickLive"} =>
       /\ r[1] \notin OfThread
       /\ r[4] \in OfObject => r[1] \in OfObject
       /\ ~In(r[1], "thread") /\ ~In(r[1], "unit")
  /\ r[4] \in {"thread", "service"} => \A k \in Kinds : ~In(r[4], k)

(* ... and to the interrupts.                                              *)
FlagsRow(r) ==
  /\ Class(r[1]) = "service" <=> Class(r[4]) = "service"
  /\ Class(r[1]) = "service" => r[2] \notin {"check", "mask", "restore"}
  /\ Class(r[1]) # "unit" /\ (Class(r[1]) = "own" => r[3] # "unit")
  /\ Class(r[1]) # "service" =>
       /\ r[2] = "lock" => Class(r[4]) = Class(r[1]) /\ Class(r[1]) \notin {"free", "saving", r[3]}
       /\ r[2] = "lockInt" =>
            \/ Class(r[1]) = "free" /\ Class(r[4]) = r[3]
            \/ Class(r[1]) = Class(r[4]) /\ Class(r[1]) \in Kinds \ {r[3]}
       /\ r[2] = "unlock" =>
            \/ Class(r[1]) = r[3] /\ r[4] = "thread"
            \/ Class(r[4]) = Class(r[1]) /\ Class(r[1]) \notin {"free", "saving", r[3]}
       /\ r[2] \in {"check", "mask", "restore"} =>
            \/ Class(r[1]) = Class(r[4]) /\ Class(r[1]) \in Kinds
            \/ r[2] = "check" /\ Class(r[1]) = "free" /\ Class(r[4]) = "saving"
            \/ r[2] = "mask" /\ Class(r[1]) = "saving" /\ Class(r[4]) = "saved"
            \/ r[2] = "restore" /\ Class(r[1]) = "saved" /\ Class(r[4]) = "free"
       /\ r[2] \in {"pickObject", "pickSelf", "pickLive", "pickNew", "enqueue"} =>
            Class(r[1]) = Class(r[4]) /\ Class(r[1]) \in Kinds \cup {"free"}

RowOK(r) == LocksRow(r) /\ ArgsRow(r) /\ FlagsRow(r)

-------------------------------------------------------------------------------
(* The invariant of the sections.                                          *)
SecTypeOK ==
  /\ at = [x \in Ctx |-> at[x]]
  /\ th \in [Ctx -> Threads \cup {None}]
  /\ ob \in [Ctx -> Objects \cup {None}]
  /\ own \in [Ctx -> BOOLEAN]
  /\ phase \in [Threads -> {"new", "starting", "live"}]
  /\ intent \in [Cpus -> BOOLEAN]

(* x is where it can be, with what its section is about.                   *)
Place(x) ==
  /\ Class(at[x]) = "service" <=> x[2] = "isr"
  /\ at[x] \in OfThread =>
       th[x] \in Threads /\ phase[th[x]] = IF at[x] \in Starting THEN "starting" ELSE "live"
  /\ at[x] \in OfObject => ob[x] \in Objects

(* It holds the locks of the lines it is between, but for the one that it  *)
(* is taking.                                                              *)
Holds(x) ==
  /\ pc[x] \in {"run", "mask", "spin", "unmask"}
  /\ pc[x] \in {"mask", "spin"} =>
       /\ Last(at[x]) \in Kinds /\ In(at[x], Last(at[x]))
       /\ want[x] = LockOf(x, Last(at[x]))
  /\ \A l \in Locks :
       l \in held[x] <=> (l # want[x] /\ \E k \in Kinds : In(at[x], k) /\ l = LockOf(x, k))

(* The thread of c can be interrupted, or is.                              *)
Open(c) == ifl[c] \/ inIsr[c]

(* A thread has the interrupts that it set, from outside of its sections   *)
(* to the first masking in one; and what keeps them is set accordingly.    *)
ThreadFlags(x) ==
  LET k == Class(at[x]) c == x[1]
  IN  /\ pc[x] = "unmask" => /\ at[x] = "thread" /\ ~Open(c) /\ intent[c] /\ ~own[x]
                             /\ \A l \in Locks : ~flag[x][l]
      /\ pc[x] # "unmask" =>
           /\ \A l \in Locks : flag[x][l] <=> (k \in Kinds /\ l = LockOf(x, k) /\ intent[c])
           /\ own[x] <=> (k \in {"saving", "saved"} /\ intent[c])
           /\ Open(c) <=> (intent[c] /\ (k \in {"free", "saving"}
                                          \/ (pc[x] = "mask" /\ Last(at[x]) = k)))

(* A service routine runs masked, and never unmasks.                       *)
ServiceFlags(x) ==
  /\ pc[x] # "unmask" /\ ~own[x] /\ \A l \in Locks : ~flag[x][l]
  /\ inIsr[x[1]] => ~ifl[x[1]]
  /\ ~inIsr[x[1]] => at[x] = "service" /\ pc[x] = "run"

Flags(x) == (x[2] = "thread" => ThreadFlags(x)) /\ (x[2] = "isr" => ServiceFlags(x))

CtxInv(x) == Place(x) /\ Holds(x) /\ Flags(x)

(* A thread is started by one context.                                     *)
OneStarter ==
  \A x, y \in Ctx : at[x] \in Starting /\ at[y] \in Starting /\ th[x] = th[y] => x = y

IInv == TypeOK /\ SecTypeOK /\ OneStarter /\ \A x \in Ctx : CtxInv(x)

-------------------------------------------------------------------------------
(* The rows, one function after the other.                                 *)
LEMMA Rows == \A r \in Program : RowOK(r)
<1>1. ASSUME NEW r \in ThreadSelf("thread", "self1", "self2", "self3", "self4", "thread")
      PROVE RowOK(r)
  <2>1. /\ RowOK(<<"thread", "check", "", "self1">>)
        /\ RowOK(<<"self1", "mask", "", "self2">>)
        /\ RowOK(<<"self2", "lock", "own", "self3">>)
        /\ RowOK(<<"self3", "unlock", "own", "self4">>)
        /\ RowOK(<<"self4", "restore", "", "thread">>)
        /\ RowOK(<<"self2", "restore", "", "thread">>)
    BY DEF RowOK, LocksRow, ArgsRow, FlagsRow, In, Last, Class, Kinds, Starting, OfThread,
           OfObject
  <2>2. QED
    BY <2>1, Zenon DEF ThreadSelf
<1>2. ASSUME NEW r \in ObjectCall
      PROVE RowOK(r)
  <2>1. /\ RowOK(<<"thread", "pickObject", "", "obj">>)
        /\ RowOK(<<"obj", "lockInt", "object", "in">>)
        /\ RowOK(<<"in", "check", "", "in1">>)
        /\ RowOK(<<"in1", "mask", "", "in2">>)
        /\ RowOK(<<"in2", "lock", "own", "in3">>)
        /\ RowOK(<<"in3", "unlock", "own", "in4">>)
        /\ RowOK(<<"in4", "restore", "", "known">>)
        /\ RowOK(<<"in2", "restore", "", "known">>)
        /\ RowOK(<<"in", "pickLive", "", "wake">>)
    BY DEF RowOK, LocksRow, ArgsRow, FlagsRow, In, Last, Class, Kinds, Starting, OfThread,
           OfObject
  <2>2. /\ RowOK(<<"known", "pickLive", "", "wake">>)
        /\ RowOK(<<"wake", "lock", "unit", "wake1">>)
        /\ RowOK(<<"wake1", "lockInt", "thread", "wake2">>)
        /\ RowOK(<<"wake2", "unlock", "unit", "wake3">>)
        /\ RowOK(<<"wake3", "unlock", "thread", "out">>)
        /\ RowOK(<<"in", "unlock", "object", "thread">>)
        /\ RowOK(<<"known", "unlock", "object", "thread">>)
        /\ RowOK(<<"out", "unlock", "object", "thread">>)
    BY DEF RowOK, LocksRow, ArgsRow, FlagsRow, In, Last, Class, Kinds, Starting, OfThread,
           OfObject
  <2>3. QED
    BY <2>1, <2>2, Zenon DEF ObjectCall, ThreadSelf, WakeThread
<1>3. ASSUME NEW r \in Sleep
      PROVE RowOK(r)
  <2>1. /\ RowOK(<<"thread", "pickSelf", "", "sleep">>)
        /\ RowOK(<<"sleep", "lockInt", "thread", "sleep1">>)
        /\ RowOK(<<"sleep1", "lockInt", "pend", "sleep2">>)
        /\ RowOK(<<"sleep2", "unlock", "pend", "sleep3">>)
        /\ RowOK(<<"sleep1", "unlock", "thread", "thread">>)
        /\ RowOK(<<"sleep3", "unlock", "thread", "thread">>)
    BY DEF RowOK, LocksRow, ArgsRow, FlagsRow, In, Last, Class, Kinds, Starting, OfThread,
           OfObject
  <2>2. QED
    BY <2>1, Zenon DEF Sleep
<1>4. ASSUME NEW r \in StartThread
      PROVE RowOK(r)
  <2>1. /\ RowOK(<<"thread", "pickNew", "", "start">>)
        /\ RowOK(<<"start", "lockInt", "thread", "start1">>)
        /\ RowOK(<<"start1", "lockInt", "unit", "start2">>)
        /\ RowOK(<<"start2", "unlock", "unit", "start3">>)
        /\ RowOK(<<"start3", "lock", "unit", "start4">>)
        /\ RowOK(<<"start4", "enqueue", "", "start5">>)
        /\ RowOK(<<"start5", "unlock", "unit", "start6">>)
        /\ RowOK(<<"start6", "unlock", "thread", "thread">>)
    BY DEF RowOK, LocksRow, ArgsRow, FlagsRow, In, Last, Class, Kinds, Starting, OfThread,
           OfObject
  <2>2. QED
    BY <2>1, Zenon DEF StartThread
<1>5. ASSUME NEW r \in TimerDequeue
      PROVE RowOK(r)
  <2>1. /\ RowOK(<<"thread", "check", "", "deq1">>)
        /\ RowOK(<<"deq1", "mask", "", "deq2">>)
        /\ RowOK(<<"deq2", "lock", "active", "deq3">>)
        /\ RowOK(<<"deq3", "unlock", "active", "deq4">>)
        /\ RowOK(<<"deq4", "lock", "pend", "deq5">>)
        /\ RowOK(<<"deq5", "unlock", "pend", "deq6">>)
        /\ RowOK(<<"deq4", "restore", "", "thread">>)
        /\ RowOK(<<"deq6", "restore", "", "thread">>)
    BY DEF RowOK, LocksRow, ArgsRow, FlagsRow, In, Last, Class, Kinds, Starting, OfThread,
           OfObject
  <2>2. QED
    BY <2>1, Zenon DEF TimerDequeue
<1>6. ASSUME NEW r \in Schedule("thread", "main") \cup Schedule("service", "resched")
      PROVE RowOK(r)
  <2>1. /\ RowOK(<<"thread", "lockInt", "own", "main">>)
        /\ RowOK(<<"service", "lockInt", "own", "resched">>)
        /\ RowOK(<<"main", "unlock", "own", "thread">>)
        /\ RowOK(<<"resched", "unlock", "own", "service">>)
    BY DEF RowOK, LocksRow, ArgsRow, FlagsRow, In, Last, Class, Kinds, Starting, OfThread,
           OfObject
  <2>2. QED
    BY <2>1, Zenon DEF Schedule
<1>7. ASSUME NEW r \in SetTimer \cup SchedTick
      PROVE RowOK(r)
  <2>1. /\ RowOK(<<"thread", "lockInt", "active", "set">>)
        /\ RowOK(<<"set", "unlock", "active", "thread">>)
        /\ RowOK(<<"service", "lock", "own", "tick">>)
        /\ RowOK(<<"tick", "unlock", "own", "service">>)
    BY DEF RowOK, LocksRow, ArgsRow, FlagsRow, In, Last, Class, Kinds, Starting, OfThread,
           OfObject
  <2>2. QED
    BY <2>1, Zenon DEF SetTimer, SchedTick
<1>8. ASSUME NEW r \in TimerCallback
      PROVE RowOK(r)
  <2>1. /\ RowOK(<<"service", "lock", "active", "queue">>)
        /\ RowOK(<<"queue", "pickLive", "", "due">>)
        /\ RowOK(<<"due", "lock", "unit", "due1">>)
        /\ RowOK(<<"due1", "lockInt", "thread", "due2">>)
        /\ RowOK(<<"due2", "unlock", "unit", "due3">>)
        /\ RowOK(<<"due3", "unlock", "thread", "queue">>)
        /\ RowOK(<<"queue", "lock", "pend", "queue1">>)
        /\ RowOK(<<"queue1", "unlock", "pend", "queue2">>)
        /\ RowOK(<<"queue2", "unlock", "active", "service">>)
    BY DEF RowOK, LocksRow, ArgsRow, FlagsRow, In, Last, Class, Kinds, Starting, OfThread,
           OfObject
  <2>2. QED
    BY <2>1, Zenon DEF TimerCallback, WakeThread
<1>9. QED
  BY <1>1, <1>2, <1>3, <1>4, <1>5, <1>6, <1>7, <1>8 DEF Program

-------------------------------------------------------------------------------
LEMMA LocksDiffer ==
  ASSUME NEW x, NEW k \in Kinds, NEW m \in Kinds, k # m,
         ~(k = "own" /\ m = "unit"), ~(k = "unit" /\ m = "own")
  PROVE  LockOf(x, k) # LockOf(x, m)
BY DEF LockOf, Kinds

LEMMA IsLock ==
  ASSUME IInv, NEW x \in Ctx, NEW k \in Kinds,
         k \in {"unit", "thread"} => at[x] \in OfThread, k = "object" => at[x] \in OfObject
  PROVE  LockOf(x, k) \in Locks
<1>1. CtxInv(x)
  BY DEF IInv
<1>2. k \in {"unit", "thread"} => th[x] \in Threads /\ Home[th[x]] \in Cpus
  BY <1>1, SectionsAssumption DEF CtxInv, Place
<1>3. k = "object" => ob[x] \in Objects
  BY <1>1 DEF CtxInv, Place
<1>4. LockOf(x, k) \in KernelLocks
  BY <1>2, <1>3, CtxFacts DEF LockOf, KernelLocks, Kinds
<1>5. QED
  BY <1>4, SectionsAssumption

(* A step of x leaves the invariant of the other contexts as it is.        *)
LEMMA Others ==
  ASSUME IInv, NEW x \in Ctx, NEW y \in Ctx, y # x, Running(x), inIsr' = inIsr,
         at'[y] = at[y], th'[y] = th[y], ob'[y] = ob[y], own'[y] = own[y],
         pc'[y] = pc[y], want'[y] = want[y], held'[y] = held[y], flag'[y] = flag[y],
         y[2] = "thread" => intent'[y[1]] = intent[y[1]],
         (y[1] = x[1] /\ x[2] = "thread") \/ ifl'[y[1]] = ifl[y[1]],
         at[y] \in OfThread => phase'[th[y]] = phase[th[y]]
  PROVE  CtxInv(y)'
<1>1. CtxInv(y)
  BY DEF IInv
<1>2. Place(y)'
  BY <1>1 DEF CtxInv, Place
<1>3. \A k : LockOf(y, k)' = LockOf(y, k)
  BY DEF LockOf
<1>4. Holds(y)'
  BY <1>1, <1>3 DEF CtxInv, Holds
<1>5. ASSUME y[2] = "thread" PROVE ThreadFlags(y)'
  <2>1. ThreadFlags(y)
    BY <1>1, <1>5 DEF CtxInv, Flags
  <2>2. ~(y[1] = x[1] /\ x[2] = "thread")
    BY <1>5, CtxFacts
  <2>3. Open(y[1])' <=> Open(y[1])
    BY <2>2 DEF Open
  <2>4. QED
    BY <1>3, <1>5, <2>1, <2>3 DEF ThreadFlags
<1>6. ASSUME y[2] = "isr" PROVE ServiceFlags(y)'
  <2>1. ServiceFlags(y)
    BY <1>1, <1>6 DEF CtxInv, Flags
  <2>2. y[1] = x[1] /\ x[2] = "thread" => ~inIsr[y[1]]
    BY DEF Running
  <2>3. QED
    BY <2>1, <2>2 DEF ServiceFlags
<1>7. QED
  BY <1>2, <1>4, <1>5, <1>6 DEF CtxInv, Flags

LEMMA SameStarter ==
  ASSUME OneStarter, NEW x \in Ctx, at'[x] \in Starting => at[x] \in Starting /\ th'[x] = th[x],
         \A y \in Ctx : y # x => at'[y] = at[y] /\ th'[y] = th[y]
  PROVE  OneStarter'
BY DEF OneStarter

(* Every step of the sections is one of the lock calls, or none.           *)
LEMMA TakeStep ==
  ASSUME IInv, NEW x \in Ctx, NEW r \in Program, Take(x, r)
  PROVE  IInv' /\ Next
<1> DEFINE k == r[3]
           l == LockOf(x, k)
<1>1. RowOK(r) /\ r[2] \in {"lock", "lockInt"} /\ at[x] = r[1] /\ at' = [at EXCEPT ![x] = r[4]]
      /\ UNCHANGED <<th, ob, own, phase, intent>>
  BY Rows DEF Take, Goes
<1>2. k \in Kinds /\ ~In(r[1], k) /\ Last(r[4]) = k /\ In(r[4], k)
      /\ \A m \in Kinds : In(r[4], m) <=> (In(r[1], m) \/ m = k)
  BY <1>1 DEF RowOK, LocksRow
<1>3. l \in Locks
  BY <1>1, <1>2, IsLock DEF RowOK, ArgsRow
<1>4. PICK found \in BOOLEAN, to \in {"spin", "mask"} :
        /\ Call(x, l, found, to)
        /\ \/ r[2] = "lock" /\ ~found /\ to = "spin"
           \/ r[2] = "lockInt" /\ found = ifl[x[1]] /\ to = "mask"
  BY <1>1, CtxFacts DEF Take, Lock, LockInt, IInv, TypeOK
<1>4a. Next
  BY <1>1, <1>3 DEF Take, Next
<1>5. /\ Running(x) /\ pc[x] = "run" /\ pc' = [pc EXCEPT ![x] = to]
      /\ want' = [want EXCEPT ![x] = l]
      /\ flag' = [flag EXCEPT ![x] = [@ EXCEPT ![l] = found]]
      /\ UNCHANGED <<ifl, inIsr, held>>
  BY <1>4 DEF Call, Goto
<1>6. TypeOK'
  BY <1>4a, TypeStep DEF IInv
<1>7. SecTypeOK'
  BY <1>1 DEF IInv, SecTypeOK
<1>8. OneStarter'
  <2>1. at'[x] \in Starting => at[x] \in Starting
    BY <1>1 DEF RowOK, ArgsRow, IInv, SecTypeOK
  <2>2. QED
    BY <1>1, <2>1, SameStarter DEF IInv, SecTypeOK
<1>9. ASSUME NEW y \in Ctx PROVE CtxInv(y)'
  <2>1. CASE y # x
    BY <1>1, <1>5, <2>1, Others DEF IInv, TypeOK, SecTypeOK
  <2>2. CASE y = x
    <3>1. CtxInv(x) /\ at'[x] = r[4] /\ pc'[x] = to /\ want'[x] = l /\ want[x] = NoLock
          /\ flag'[x] = [flag[x] EXCEPT ![l] = found]
      BY <1>1, <1>5 DEF IInv, TypeOK, SecTypeOK
    <3>2. \A m : LockOf(x, m)' = LockOf(x, m)
      BY <1>1 DEF LockOf
    <3>3. Place(x)'
      BY <1>1, <3>1 DEF CtxInv, Place, RowOK, ArgsRow, FlagsRow
    <3>4. Holds(x)'
      <4>1. \A m \in Kinds : In(r[1], m) => LockOf(x, m) # l
        BY <1>1, <1>2, LocksDiffer DEF RowOK, LocksRow
      <4>2. \A m \in Locks : m \in held[x] <=> \E n \in Kinds : In(r[1], n) /\ m = LockOf(x, n)
        BY <1>1, <3>1, SpinlockAssumption DEF CtxInv, Holds
      <4>3. QED
        BY <1>2, <1>5, <3>1, <3>2, <4>1, <4>2 DEF Holds
    <3>5. ASSUME x[2] = "thread" PROVE ThreadFlags(x)'
      <4>1. ThreadFlags(x) /\ Class(r[1]) # "service" /\ ~inIsr[x[1]]
        BY <1>1, <1>5, <3>1, <3>5 DEF CtxInv, Flags, Place, Running
      <4>2. (Open(x[1])' <=> Open(x[1])) /\ (Open(x[1]) <=> ifl[x[1]]) /\ intent' = intent /\ own' = own
        BY <1>1, <1>5, <4>1 DEF Open
      <4>3. flag'[x][l] = found /\ \A m \in Locks : m # l => flag'[x][m] = flag[x][m]
        BY <1>3, <3>1 DEF IInv, TypeOK
      <4>4. CASE Class(r[1]) = "free"
        <5>1. r[2] = "lockInt" /\ Class(r[4]) = k
          BY <1>1, <4>1, <4>4 DEF RowOK, FlagsRow, Kinds
        <5>2. QED
          BY <1>1, <1>2, <1>4, <1>5, <3>1, <3>2, <4>1, <4>2, <4>3, <4>4, <5>1 DEF ThreadFlags, Kinds
      <4>5. CASE Class(r[1]) # "free"
        <5>1. Class(r[4]) = Class(r[1]) /\ Class(r[1]) \notin {"saving", k}
          BY <1>1, <4>1, <4>5 DEF RowOK, FlagsRow, Kinds
        <5>2. Class(r[1]) \in Kinds => LockOf(x, Class(r[1])) # l
          BY <1>1, <1>2, <5>1, LocksDiffer DEF RowOK, FlagsRow
        <5>3. ~ifl[x[1]] /\ ~found
          BY <1>1, <1>4, <1>5, <4>1, <4>2, <4>5, <5>1 DEF ThreadFlags
        <5>4. QED
          BY <1>1, <1>2, <1>5, <3>1, <3>2, <4>1, <4>2, <4>3, <4>5, <5>1, <5>2, <5>3 DEF ThreadFlags
      <4>6. QED
        BY <4>4, <4>5
    <3>6. ASSUME x[2] = "isr" PROVE ServiceFlags(x)'
      <4>1. ServiceFlags(x) /\ inIsr[x[1]]
        BY <1>5, <3>1, <3>6 DEF CtxInv, Flags, Running
      <4>2. ~found
        BY <1>4, <4>1 DEF ServiceFlags
      <4>3. QED
        BY <1>1, <1>3, <1>5, <3>1, <4>1, <4>2 DEF ServiceFlags, IInv, TypeOK
    <3>7. QED
      BY <2>2, <3>3, <3>4, <3>5, <3>6 DEF CtxInv, Flags
  <2>3. QED
    BY <2>1, <2>2
<1>10. QED
  BY <1>4a, <1>6, <1>7, <1>8, <1>9 DEF IInv

LEMMA ReleaseStep ==
  ASSUME IInv, NEW x \in Ctx, NEW r \in Program, Release(x, r)
  PROVE  IInv' /\ Next
<1> DEFINE k == r[3]
           l == LockOf(x, k)
<1>1. RowOK(r) /\ r[2] = "unlock" /\ at[x] = r[1] /\ at' = [at EXCEPT ![x] = r[4]]
      /\ UNCHANGED <<own, phase, intent>>
  BY Rows DEF Release, Goes
<1>2. k \in Kinds /\ In(r[1], k) /\ \A m \in Kinds : In(r[4], m) <=> (In(r[1], m) /\ m # k)
  BY <1>1 DEF RowOK, LocksRow
<1>3. l \in Locks
  BY <1>1, <1>2, IsLock DEF RowOK, ArgsRow
<1>4. Unlock(x, l) /\ Next
  BY <1>3 DEF Release, Next
<1>5. /\ Running(x) /\ pc[x] = "run"
      /\ pc' = [pc EXCEPT ![x] = IF flag[x][l] THEN "unmask" ELSE "run"]
      /\ held' = [held EXCEPT ![x] = @ \ {l}]
      /\ flag' = [flag EXCEPT ![x] = [@ EXCEPT ![l] = FALSE]]
      /\ UNCHANGED <<ifl, inIsr, want>>
  BY <1>4 DEF Unlock, Goto
<1>6. \/ UNCHANGED <<th, ob>>
      \/ /\ r[4] \in {"thread", "service"}
         /\ th' = [th EXCEPT ![x] = None] /\ ob' = [ob EXCEPT ![x] = None]
  BY DEF Release, Rest
<1>7. TypeOK'
  BY <1>4, TypeStep DEF IInv
<1>8. SecTypeOK'
  BY <1>1, <1>6 DEF IInv, SecTypeOK
<1>9. OneStarter'
  <2>1. at'[x] \in Starting => at[x] \in Starting /\ th'[x] = th[x]
    BY <1>1, <1>6 DEF RowOK, ArgsRow, IInv, SecTypeOK, Starting, OfThread
  <2>2. QED
    BY <1>1, <1>6, <2>1, SameStarter DEF IInv, SecTypeOK
<1>10. ASSUME NEW y \in Ctx PROVE CtxInv(y)'
  <2>1. CASE y # x
    BY <1>1, <1>5, <1>6, <2>1, Others DEF IInv, TypeOK, SecTypeOK
  <2>2. CASE y = x
    <3>1. CtxInv(x) /\ at'[x] = r[4] /\ want'[x] = NoLock /\ want[x] = NoLock
          /\ pc'[x] = (IF flag[x][l] THEN "unmask" ELSE "run")
          /\ held'[x] = held[x] \ {l} /\ flag'[x] = [flag[x] EXCEPT ![l] = FALSE]
      BY <1>1, <1>5 DEF IInv, TypeOK, SecTypeOK
    <3>2. r[4] \notin {"thread", "service"} => \A m : LockOf(x, m)' = LockOf(x, m)
      BY <1>6 DEF LockOf
    <3>3. r[4] \in {"thread", "service"} => /\ \A m \in Kinds : ~In(r[4], m)
                                            /\ r[4] \notin OfThread /\ r[4] \notin OfObject
      BY <1>1 DEF RowOK, ArgsRow, OfThread, OfObject, Starting
    <3>4. Place(x)'
      BY <1>1, <1>6, <3>1, <3>3 DEF CtxInv, Place, RowOK, ArgsRow, FlagsRow
    <3>5. Holds(x)'
      <4>1. \A m \in Kinds : In(r[1], m) /\ m # k => LockOf(x, m) # l
        BY <1>1, <1>2, LocksDiffer DEF RowOK, LocksRow
      <4>2. \A m \in Locks : m \in held[x] <=> \E n \in Kinds : In(r[1], n) /\ m = LockOf(x, n)
        BY <1>1, <3>1, SpinlockAssumption DEF CtxInv, Holds
      <4>3. \A m \in Locks : m \in held'[x] <=> \E n \in Kinds : In(r[4], n) /\ m = LockOf(x, n)
        BY <1>2, <3>1, <4>1, <4>2
      <4>4. QED
        BY <1>5, <3>1, <3>2, <3>3, <4>3, SpinlockAssumption DEF Holds
    <3>6. ASSUME x[2] = "thread" PROVE ThreadFlags(x)'
      <4>1. ThreadFlags(x) /\ Class(r[1]) # "service" /\ ~inIsr[x[1]]
        BY <1>1, <1>5, <3>1, <3>6 DEF CtxInv, Flags, Place, Running
      <4>2. (Open(x[1])' <=> Open(x[1])) /\ intent' = intent /\ own' = own
        BY <1>1, <1>5 DEF Open
      <4>3. ~flag'[x][l] /\ \A m \in Locks : m # l => flag'[x][m] = flag[x][m]
        BY <1>3, <3>1 DEF IInv, TypeOK
      <4>4. CASE Class(r[1]) = k
        <5>1. r[4] = "thread" /\ Class(r[4]) = "free"
          BY <1>1, <4>1, <4>4 DEF RowOK, FlagsRow, Class
        <5>2. flag[x][l] <=> intent[x[1]]
          BY <1>1, <1>2, <1>3, <1>5, <4>1, <4>4 DEF ThreadFlags
        <5>3. ~own[x] /\ ~Open(x[1]) /\ \A m \in Locks : ~flag'[x][m]
          BY <1>1, <1>2, <1>3, <1>5, <4>1, <4>3, <4>4 DEF ThreadFlags, Kinds
        <5>4. "free" \notin Kinds \cup {"saved"}
          BY DEF Kinds
        <5>5. QED
          BY <3>1, <4>1, <4>2, <5>1, <5>2, <5>3, <5>4 DEF ThreadFlags
      <4>5. CASE Class(r[1]) # k
        <5>1. Class(r[4]) = Class(r[1]) /\ Class(r[1]) \notin {"free", "saving"}
          BY <1>1, <4>1, <4>5 DEF RowOK, FlagsRow, Kinds
        <5>2. Class(r[1]) \in Kinds => LockOf(x, Class(r[1])) # l
          BY <1>1, <1>2, <4>5, LocksDiffer DEF RowOK, FlagsRow
        <5>3. ~flag[x][l] /\ ~Open(x[1])
          BY <1>1, <1>3, <1>5, <4>1, <5>1, <5>2 DEF ThreadFlags
        <5>4. Class(r[4]) \in Kinds => LockOf(x, Class(r[4]))' = LockOf(x, Class(r[4]))
          BY <3>2, <3>3, <5>1 DEF Class, Kinds
        <5>5. QED
          BY <1>1, <1>5, <3>1, <4>1, <4>2, <4>3, <5>1, <5>2, <5>3, <5>4 DEF ThreadFlags
      <4>6. QED
        BY <4>4, <4>5
    <3>7. ASSUME x[2] = "isr" PROVE ServiceFlags(x)'
      <4>1. ServiceFlags(x) /\ inIsr[x[1]]
        BY <1>5, <3>1, <3>7 DEF CtxInv, Flags, Running
      <4>2. QED
        BY <1>1, <1>3, <1>5, <3>1, <4>1 DEF ServiceFlags, IInv, TypeOK
    <3>8. QED
      BY <2>2, <3>4, <3>5, <3>6, <3>7 DEF CtxInv, Flags
  <2>3. QED
    BY <2>1, <2>2
<1>11. QED
  BY <1>4, <1>7, <1>8, <1>9, <1>10 DEF IInv

(* The rows that are about the interrupt flag: the locks stay.             *)
LEMMA FlagRows ==
  ASSUME IInv, NEW x \in Ctx, NEW r \in Program,
         Check(x, r) \/ MaskIfOwn(x, r) \/ Restore(x, r)
  PROVE  IInv' /\ [Next]_vars
<1>0. x[1] \in Cpus /\ ifl[x[1]] \in BOOLEAN /\ own \in [Ctx -> BOOLEAN] /\ ifl \in [Cpus -> BOOLEAN]
  BY CtxFacts DEF IInv, TypeOK, SecTypeOK
<1>1. RowOK(r) /\ at[x] = r[1] /\ at' = [at EXCEPT ![x] = r[4]] /\ UNCHANGED <<th, ob, phase, intent>>
      /\ Running(x) /\ pc[x] = "run"
  BY Rows DEF Check, MaskIfOwn, Restore, Goes, Goto, SetFlag
<1>2. \/ r[2] = "check" /\ UNCHANGED vars /\ own' = [own EXCEPT ![x] = ifl[x[1]]]
      \/ r[2] = "mask" /\ ~own[x] /\ UNCHANGED <<vars, own>>
      \/ r[2] = "mask" /\ own[x] /\ SetFlag(x, FALSE) /\ UNCHANGED own
      \/ r[2] = "restore" /\ ~own[x] /\ UNCHANGED vars /\ own' = [own EXCEPT ![x] = FALSE]
      \/ r[2] = "restore" /\ own[x] /\ SetFlag(x, TRUE) /\ own' = [own EXCEPT ![x] = FALSE]
  BY DEF Check, MaskIfOwn, Restore
<1>3. [Next]_vars
  BY <1>2 DEF Next
<1>4. TypeOK'
  BY <1>3, TypeStep DEF IInv
<1>5. UNCHANGED <<pc, want, held, flag, inIsr>> /\ \A c \in Cpus : c # x[1] => ifl'[c] = ifl[c]
  BY <1>1, <1>2, CtxFacts DEF SetFlag, Goto, vars, IInv, TypeOK
<1>6. /\ r[2] = "check" => (ifl'[x[1]] <=> ifl[x[1]]) /\ (own'[x] <=> ifl[x[1]])
      /\ r[2] = "mask" => (ifl'[x[1]] <=> ifl[x[1]] /\ ~own[x]) /\ (own'[x] <=> own[x])
      /\ r[2] = "restore" => (ifl'[x[1]] <=> ifl[x[1]] \/ own[x]) /\ ~own'[x]
  <2>1. CASE UNCHANGED vars
    BY <1>0, <1>2, <2>1 DEF vars, SetFlag
  <2>2. CASE SetFlag(x, FALSE) /\ r[2] = "mask"
    BY <1>0, <1>2, <2>2 DEF SetFlag, vars
  <2>3. CASE SetFlag(x, TRUE) /\ r[2] = "restore"
    BY <1>0, <1>2, <2>3 DEF SetFlag, vars
  <2>4. QED
    BY <1>2, <2>1, <2>2, <2>3
<1>7. SecTypeOK'
  <2>1. own' \in [Ctx -> BOOLEAN]
    BY <1>0, <1>2
  <2>2. QED
    BY <1>1, <2>1 DEF IInv, SecTypeOK
<1>8. OneStarter'
  <2>1. at'[x] \in Starting => at[x] \in Starting
    BY <1>1, <1>2 DEF RowOK, ArgsRow, IInv, SecTypeOK
  <2>2. QED
    BY <1>1, <2>1, SameStarter DEF IInv, SecTypeOK
<1>9. CtxInv(x) /\ r[2] \in {"check", "mask", "restore"}
  BY <1>2 DEF IInv
<1>10. x[2] = "thread" /\ Class(r[1]) # "service"
  BY <1>1, <1>9, CtxFacts DEF RowOK, FlagsRow, CtxInv, Place
<1>11. ASSUME NEW y \in Ctx PROVE CtxInv(y)'
  <2>1. CASE y # x
    <3>1. own'[y] = own[y]
      BY <1>2, <2>1 DEF IInv, SecTypeOK
    <3>2. QED
      BY <1>1, <1>5, <1>10, <2>1, <3>1, CtxFacts, Others DEF IInv, TypeOK, SecTypeOK
  <2>2. CASE y = x
    <3>1. at'[x] = r[4] /\ \A m : LockOf(x, m)' = LockOf(x, m)
      BY <1>1 DEF IInv, SecTypeOK, LockOf
    <3>2. Place(x)'
      BY <1>1, <1>9, <3>1 DEF CtxInv, Place, RowOK, ArgsRow, FlagsRow
    <3>3. Holds(x)'
      <4>1. \A m \in Kinds : In(r[4], m) <=> In(r[1], m)
        BY <1>1, <1>9 DEF RowOK, LocksRow
      <4>2. QED
        BY <1>1, <1>5, <1>9, <3>1, <4>1 DEF CtxInv, Holds
    <3>4. ThreadFlags(x) /\ ~inIsr[x[1]] /\ own[x] \in BOOLEAN /\ ifl[x[1]] \in BOOLEAN
      BY <1>1, <1>9, <1>10, CtxFacts DEF CtxInv, Flags, Running, IInv, SecTypeOK, TypeOK
    <3>5. CASE Class(r[1]) = Class(r[4]) /\ Class(r[1]) \in Kinds
      <4>1. ~own[x] /\ ~ifl[x[1]]
        BY <1>1, <3>4, <3>5 DEF ThreadFlags, Open, Kinds
      <4>2. ~own'[x] /\ ~ifl'[x[1]]
        BY <1>6, <1>9, <4>1
      <4>3. QED
        BY <1>1, <1>5, <3>1, <3>4, <3>5, <4>1, <4>2, <3>2, <3>3, <1>10, <2>2
           DEF ThreadFlags, Open, CtxInv, Flags, Kinds
    <3>6. CASE /\ Class(r[1]) \notin Kinds /\ Class(r[4]) \notin Kinds
               /\ \/ r[2] = "check" /\ Class(r[1]) = "free" /\ Class(r[4]) = "saving"
                  \/ r[2] = "mask" /\ Class(r[1]) = "saving" /\ Class(r[4]) = "saved"
                  \/ r[2] = "restore" /\ Class(r[1]) = "saved" /\ Class(r[4]) = "free"
      <4>1. ThreadFlags(x)'
        BY <1>1, <1>5, <1>6, <3>1, <3>4, <3>6 DEF ThreadFlags, Open
      <4>2. QED
        BY <1>10, <2>2, <3>2, <3>3, <4>1 DEF CtxInv, Flags
    <3>7. QED
      BY <1>1, <1>9, <1>10, <3>5, <3>6 DEF RowOK, FlagsRow, Kinds
  <2>3. QED
    BY <2>1, <2>2
<1>12. QED
  BY <1>3, <1>4, <1>7, <1>8, <1>11 DEF IInv

(* The rows that say what a section is about.                              *)
LEMMA PickStep ==
  ASSUME IInv, NEW x \in Ctx, NEW r \in Program, Pick(x, r)
  PROVE  IInv' /\ UNCHANGED vars
<1>1. RowOK(r) /\ at[x] = r[1] /\ at' = [at EXCEPT ![x] = r[4]] /\ UNCHANGED <<vars, own, intent>>
      /\ Running(x) /\ pc[x] = "run"
  BY Rows DEF Pick, Goes, Goto
<1>2. \/ r[2] = "pickObject" /\ UNCHANGED <<th, phase>>
         /\ \E o \in Objects : ob' = [ob EXCEPT ![x] = o]
      \/ /\ UNCHANGED ob
         /\ \E t \in Threads :
              /\ th' = [th EXCEPT ![x] = t]
              /\ \/ r[2] \in {"pickSelf", "pickLive"} /\ phase[t] = "live" /\ UNCHANGED phase
                 \/ r[2] = "pickNew" /\ phase[t] = "new" /\ phase' = [phase EXCEPT ![t] = "starting"]
  BY DEF Pick
<1>3. CtxInv(x) /\ r[2] \in {"pickObject", "pickSelf", "pickLive", "pickNew"}
      /\ UNCHANGED <<ifl, inIsr, pc, want, held, flag>>
  BY <1>1, <1>2 DEF IInv, vars
<1>4. TypeOK'
  BY <1>1, TypeStep DEF IInv
<1>5. SecTypeOK'
  BY <1>1, <1>2 DEF IInv, SecTypeOK
<1>6. ASSUME NEW y \in Ctx, y # x, at[y] \in OfThread
      PROVE  /\ phase'[th[y]] = phase[th[y]]
             /\ r[2] = "pickNew" => th'[x] # th[y]
  BY <1>2, <1>6 DEF IInv, CtxInv, Place, SecTypeOK
<1>7. OneStarter'
  <2>1. CASE r[2] # "pickNew"
    <3>1. at'[x] \notin Starting \/ r[2] = "pickObject"
      BY <1>1, <1>3, <2>1 DEF RowOK, ArgsRow, IInv, SecTypeOK
    <3>2. at'[x] \notin Starting
      BY <1>1, <3>1 DEF RowOK, ArgsRow, IInv, SecTypeOK, OfThread
    <3>3. QED
      BY <1>1, <1>2, <3>2, SameStarter DEF IInv, SecTypeOK
  <2>2. CASE r[2] = "pickNew"
    <3>1. ASSUME NEW y \in Ctx, y # x, at[y] \in Starting
          PROVE  th'[x] # th[y]
      BY <1>6, <2>2, <3>1 DEF OfThread
    <3>2. \A y \in Ctx : y # x => at'[y] = at[y] /\ th'[y] = th[y]
      BY <1>1, <1>2 DEF IInv, SecTypeOK
    <3>3. QED
      BY <3>1, <3>2 DEF OneStarter, IInv
  <2>3. QED
    BY <2>1, <2>2
<1>8. ASSUME NEW y \in Ctx PROVE CtxInv(y)'
  <2>1. CASE y # x
    BY <1>1, <1>2, <1>3, <1>6, <2>1, Others DEF IInv, TypeOK, SecTypeOK
  <2>2. CASE y = x
    <3>1. at'[x] = r[4] /\ \A m \in Kinds : In(r[4], m) <=> In(r[1], m)
      BY <1>1, <1>3 DEF IInv, SecTypeOK, RowOK, LocksRow
    <3>2. \A m \in Kinds : In(r[1], m) => LockOf(x, m)' = LockOf(x, m)
      BY <1>1, <1>2, <1>3 DEF RowOK, ArgsRow, LockOf, Kinds, IInv, SecTypeOK
    <3>3. Place(x)'
      <4>1. Class(r[4]) = "service" <=> x[2] = "isr"
        BY <1>1, <1>3 DEF RowOK, FlagsRow, CtxInv, Place
      <4>2. CASE r[2] = "pickObject"
        BY <1>1, <1>2, <1>3, <3>1, <4>1, <4>2 DEF CtxInv, Place, RowOK, ArgsRow, IInv, SecTypeOK
      <4>3. CASE r[2] # "pickObject"
        BY <1>1, <1>2, <1>3, <3>1, <4>1, <4>3 DEF CtxInv, Place, RowOK, ArgsRow, IInv, SecTypeOK
      <4>4. QED
        BY <4>2, <4>3
    <3>4. Holds(x)'
      BY <1>1, <1>3, <3>1, <3>2 DEF CtxInv, Holds
    <3>5. ASSUME x[2] = "thread" PROVE ThreadFlags(x)'
      <4>1. ThreadFlags(x) /\ Class(r[1]) = Class(r[4]) /\ Class(r[1]) \in Kinds \cup {"free"}
        BY <1>1, <1>3, <3>5 DEF CtxInv, Flags, Place, RowOK, FlagsRow
      <4>2. Class(r[4]) \in Kinds => LockOf(x, Class(r[4]))' = LockOf(x, Class(r[4]))
        <5>1. CASE r[2] = "pickObject"
          BY <1>1, <5>1, <4>1 DEF RowOK, ArgsRow, FlagsRow, Class, Kinds, In
        <5>2. CASE r[2] # "pickObject"
          <6>1. Class(r[1]) = "thread" => r[1] \in OfThread
            BY DEF Class, OfThread, Starting
          <6>2. Class(r[1]) \notin {"unit", "thread"}
            BY <1>1, <1>3, <5>2, <6>1 DEF RowOK, ArgsRow, FlagsRow
          <6>3. ob' = ob
            BY <1>2, <5>2
          <6>4. QED
            BY <4>1, <6>2, <6>3 DEF LockOf, Kinds
        <5>3. QED
          BY <5>1, <5>2
      <4>3. QED
        BY <1>1, <1>3, <3>1, <4>1, <4>2 DEF ThreadFlags, Open
    <3>6. ASSUME x[2] = "isr" PROVE ServiceFlags(x)'
      BY <1>1, <1>3, <3>6 DEF CtxInv, Flags, ServiceFlags, Running
    <3>7. QED
      BY <2>2, <3>3, <3>4, <3>5, <3>6 DEF CtxInv, Flags
  <2>3. QED
    BY <2>1, <2>2
<1>9. QED
  BY <1>1, <1>4, <1>5, <1>7, <1>8 DEF IInv

LEMMA EnqueueStep ==
  ASSUME IInv, NEW x \in Ctx, NEW r \in Program, Enqueue(x, r)
  PROVE  IInv' /\ UNCHANGED vars
<1>1. RowOK(r) /\ at[x] = r[1] /\ at' = [at EXCEPT ![x] = r[4]] /\ UNCHANGED <<vars, th, ob, own, intent>>
      /\ Running(x) /\ pc[x] = "run" /\ r[2] = "enqueue"
      /\ phase' = [phase EXCEPT ![th[x]] = "live"]
  BY Rows DEF Enqueue, Goes, Goto
<1>2. CtxInv(x) /\ UNCHANGED <<ifl, inIsr, pc, want, held, flag>>
      /\ r[1] \in Starting /\ r[1] \in OfThread /\ r[4] \notin Starting /\ r[4] \in OfThread
  BY <1>1 DEF IInv, vars, RowOK, ArgsRow, OfThread
<1>3. th[x] \in Threads /\ phase[th[x]] = "starting"
  BY <1>1, <1>2 DEF CtxInv, Place
<1>4. TypeOK'
  BY <1>1, TypeStep DEF IInv
<1>5. SecTypeOK'
  BY <1>1, <1>3 DEF IInv, SecTypeOK
<1>6. OneStarter'
  BY <1>1, <1>2, SameStarter DEF IInv, SecTypeOK
<1>7. ASSUME NEW y \in Ctx, y # x, at[y] \in OfThread
      PROVE  phase'[th[y]] = phase[th[y]]
  <2>1. CASE th[y] = th[x]
    BY <1>1, <1>2, <1>3, <1>7, <2>1 DEF IInv, OneStarter, CtxInv, Place
  <2>2. CASE th[y] # th[x]
    BY <1>1, <1>3, <2>2, <1>7 DEF IInv, SecTypeOK, CtxInv, Place
  <2>3. QED
    BY <2>1, <2>2
<1>8. ASSUME NEW y \in Ctx PROVE CtxInv(y)'
  <2>1. CASE y # x
    BY <1>1, <1>2, <1>7, <2>1, Others DEF IInv, TypeOK, SecTypeOK
  <2>2. CASE y = x
    <3>1. at'[x] = r[4] /\ \A m \in Kinds : In(r[4], m) <=> In(r[1], m)
      BY <1>1 DEF IInv, SecTypeOK, RowOK, LocksRow
    <3>2. \A m : LockOf(x, m)' = LockOf(x, m)
      BY <1>1 DEF LockOf
    <3>3. Place(x)'
      BY <1>1, <1>2, <1>3, <3>1 DEF CtxInv, Place, RowOK, ArgsRow, FlagsRow, IInv, SecTypeOK, OfObject, Starting
    <3>4. Holds(x)'
      BY <1>1, <1>2, <3>1, <3>2 DEF CtxInv, Holds
    <3>5. ASSUME x[2] = "thread" PROVE ThreadFlags(x)'
      <4>1. ThreadFlags(x) /\ Class(r[1]) = Class(r[4]) /\ Class(r[1]) \in Kinds \cup {"free"}
        BY <1>1, <1>2, <3>5 DEF CtxInv, Flags, Place, RowOK, FlagsRow
      <4>2. QED
        BY <1>1, <1>2, <3>1, <3>2, <4>1 DEF ThreadFlags, Open
    <3>6. ASSUME x[2] = "isr" PROVE ServiceFlags(x)'
      BY <1>1, <1>2, <3>6 DEF CtxInv, Flags, ServiceFlags, Running
    <3>7. QED
      BY <2>2, <3>3, <3>4, <3>5, <3>6 DEF CtxInv, Flags
  <2>3. QED
    BY <2>1, <2>2
<1>9. QED
  BY <1>1, <1>4, <1>5, <1>6, <1>8 DEF IInv

(* The rest of a lock call, interrupts, and what a thread does to them     *)
(* outside of its sections.                                                *)
LEMMA ProceedStep ==
  ASSUME IInv, NEW x \in Ctx, Proceed(x)
  PROVE  IInv' /\ Next
<1>1. Next /\ UNCHANGED <<at, th, ob, own, phase, intent>> /\ Running(x)
  BY DEF Proceed, Next, Step, LockIntMask, Mask, Acquire, Unmask, Goto
<1>2. TypeOK'
  BY <1>1, TypeStep DEF IInv
<1>3. SecTypeOK' /\ OneStarter'
  BY <1>1 DEF IInv, SecTypeOK, OneStarter
<1>4. CtxInv(x) /\ x[1] \in Cpus /\ \A m : LockOf(x, m)' = LockOf(x, m)
  BY <1>1, CtxFacts DEF IInv, LockOf
<1>5. Place(x)'
  BY <1>1, <1>4 DEF CtxInv, Place
<1>6. CASE LockIntMask(x)
  <2>1. /\ pc[x] = "mask" /\ pc' = [pc EXCEPT ![x] = "spin"]
        /\ ifl' = [ifl EXCEPT ![x[1]] = FALSE] /\ UNCHANGED <<inIsr, want, held, flag>>
    BY <1>6 DEF LockIntMask, Mask, Goto
  <2>2. ASSUME x[2] = "isr" PROVE ifl' = ifl /\ ServiceFlags(x)'
    BY <1>1, <1>4, <2>1, <2>2 DEF CtxInv, Flags, ServiceFlags, Running, IInv, TypeOK
  <2>3. ASSUME NEW y \in Ctx PROVE CtxInv(y)'
    <3>1. CASE y # x
      BY <1>1, <2>1, <2>2, <3>1, CtxFacts, Others DEF IInv, TypeOK, SecTypeOK
    <3>2. CASE y = x
      <4>1. Holds(x)'
        BY <1>1, <1>4, <2>1 DEF CtxInv, Holds, IInv, TypeOK
      <4>2. ASSUME x[2] = "thread" PROVE ThreadFlags(x)'
        <5>1. ThreadFlags(x) /\ ~inIsr[x[1]] /\ ~Open(x[1])' /\ pc'[x] = "spin"
          BY <1>1, <1>4, <2>1, <4>2 DEF CtxInv, Flags, Running, Open, IInv, TypeOK
        <5>2. Last(at[x]) \in Kinds /\ In(at[x], Last(at[x]))
          BY <1>4, <2>1 DEF CtxInv, Holds
        <5>3. Class(at[x]) \notin {"free", "saving"}
          BY <5>2 DEF Class, In, Kinds
        <5>4. QED
          BY <1>1, <1>4, <2>1, <5>1, <5>3 DEF ThreadFlags
      <4>3. QED
        BY <1>5, <2>2, <3>2, <4>1, <4>2 DEF CtxInv, Flags
    <3>3. QED
      BY <3>1, <3>2
  <2>4. QED
    BY <1>1, <1>2, <1>3, <2>3 DEF IInv
<1>7. CASE Acquire(x)
  <2>1. /\ pc[x] = "spin" /\ pc' = [pc EXCEPT ![x] = "run"]
        /\ want' = [want EXCEPT ![x] = NoLock] /\ held' = [held EXCEPT ![x] = @ \cup {want[x]}]
        /\ UNCHANGED <<ifl, inIsr, flag>>
    BY <1>4, <1>7 DEF Acquire, CtxInv, Holds
  <2>2. ASSUME NEW y \in Ctx PROVE CtxInv(y)'
    <3>1. CASE y # x
      BY <1>1, <2>1, <3>1, Others DEF IInv, TypeOK, SecTypeOK
    <3>2. CASE y = x
      <4>1. pc'[x] = "run" /\ want'[x] = NoLock /\ held'[x] = held[x] \cup {want[x]}
        BY <2>1 DEF IInv, TypeOK
      <4>2. Holds(x)'
        <5>1. ASSUME NEW l \in Locks
              PROVE  l \in held'[x] <=> \E k \in Kinds : In(at[x], k) /\ l = LockOf(x, k)
          BY <1>4, <2>1, <4>1 DEF CtxInv, Holds
        <5>2. QED
          BY <1>1, <1>4, <4>1, <5>1, SpinlockAssumption DEF Holds
      <4>3. ASSUME x[2] = "thread" PROVE ThreadFlags(x)'
        BY <1>1, <1>4, <2>1, <4>1, <4>3 DEF CtxInv, Flags, ThreadFlags, Open
      <4>4. ASSUME x[2] = "isr" PROVE ServiceFlags(x)'
        BY <1>1, <1>4, <2>1, <4>1, <4>4 DEF CtxInv, Flags, ServiceFlags
      <4>5. QED
        BY <1>5, <3>2, <4>2, <4>3, <4>4 DEF CtxInv, Flags
    <3>3. QED
      BY <3>1, <3>2
  <2>3. QED
    BY <1>1, <1>2, <1>3, <2>2 DEF IInv
<1>8. CASE Unmask(x)
  <2>1. /\ pc[x] = "unmask" /\ pc' = [pc EXCEPT ![x] = "run"]
        /\ ifl' = [ifl EXCEPT ![x[1]] = TRUE] /\ UNCHANGED <<inIsr, want, held, flag>>
    BY <1>8 DEF Unmask, Goto
  <2>2. x[2] = "thread"
    BY <1>4, <2>1, CtxFacts DEF CtxInv, Flags, ServiceFlags
  <2>3. ASSUME NEW y \in Ctx PROVE CtxInv(y)'
    <3>1. CASE y # x
      BY <1>1, <2>1, <2>2, <3>1, CtxFacts, Others DEF IInv, TypeOK, SecTypeOK
    <3>2. CASE y = x
      <4>1. pc'[x] = "run" /\ ThreadFlags(x) /\ Open(x[1])'
        BY <1>4, <2>1, <2>2 DEF IInv, TypeOK, CtxInv, Flags, Open
      <4>2. Holds(x)'
        BY <1>1, <1>4, <2>1, <4>1 DEF CtxInv, Holds
      <4>3. ThreadFlags(x)'
        BY <1>1, <1>4, <2>1, <4>1 DEF ThreadFlags, Class, Kinds
      <4>4. QED
        BY <1>5, <2>2, <3>2, <4>2, <4>3 DEF CtxInv, Flags
    <3>3. QED
      BY <3>1, <3>2
  <2>4. QED
    BY <1>1, <1>2, <1>3, <2>3 DEF IInv
<1>9. QED
  BY <1>6, <1>7, <1>8 DEF Proceed

LEMMA IntentStep ==
  ASSUME IInv, NEW c \in Cpus, NEW on \in BOOLEAN, SetIntent(c, on)
  PROVE  IInv' /\ Next
<1> DEFINE x == <<c, "thread">>
<1>1. x \in Ctx /\ x[1] = c /\ x[2] = "thread" /\ CtxInv(x)
  BY DEF Ctx, IInv
<1>2. /\ at[x] = "thread" /\ Running(x) /\ pc[x] = "run" /\ pc' = [pc EXCEPT ![x] = "run"]
      /\ ifl' = [ifl EXCEPT ![c] = on] /\ intent' = [intent EXCEPT ![c] = on]
      /\ UNCHANGED <<inIsr, want, held, flag, at, th, ob, own, phase>>
  BY <1>1 DEF SetIntent, SetFlag, Goto
<1>3. Next
  BY <1>1 DEF SetIntent, Next
<1>4. TypeOK'
  BY <1>3, TypeStep DEF IInv
<1>5. SecTypeOK' /\ OneStarter'
  BY <1>2 DEF IInv, SecTypeOK, OneStarter
<1>6. ASSUME NEW y \in Ctx PROVE CtxInv(y)'
  <2>1. CASE y # x
    <3>1. y[2] = "thread" => y[1] # c
      BY <2>1, CtxFacts
    <3>2. QED
      BY <1>1, <1>2, <2>1, <3>1, CtxFacts, Others DEF IInv, TypeOK, SecTypeOK
  <2>2. CASE y = x
    <3>1. pc'[x] = "run" /\ pc[x] = "run" /\ ThreadFlags(x) /\ ~inIsr[c] /\ ifl'[c] = on /\ intent'[c] = on
      BY <1>1, <1>2 DEF IInv, TypeOK, SecTypeOK, CtxInv, Flags, Running
    <3>2. \A m : LockOf(x, m)' = LockOf(x, m)
      BY <1>2 DEF LockOf
    <3>3. Place(x)' /\ Holds(x)'
      BY <1>1, <1>2, <3>1, <3>2 DEF CtxInv, Place, Holds
    <3>4. Class("thread") = "free" /\ "free" \notin Kinds
      BY DEF Class, Kinds
    <3>5. ThreadFlags(x)'
      BY <1>1, <1>2, <3>1, <3>4 DEF ThreadFlags, Open
    <3>6. QED
      BY <1>1, <2>2, <3>3, <3>5 DEF CtxInv, Flags
  <2>3. QED
    BY <2>1, <2>2
<1>7. QED
  BY <1>3, <1>4, <1>5, <1>6 DEF IInv

LEMMA InterruptStep ==
  ASSUME IInv, NEW c \in Cpus, UNCHANGED <<at, th, ob, own, phase, intent>>,
         Interrupt(c) \/ (IsrReturn(c) /\ at[<<c, "isr">>] = "service")
  PROVE  IInv' /\ Next
<1>1. Next
  BY DEF Next
<1>2. TypeOK'
  BY <1>1, TypeStep DEF IInv
<1>3. SecTypeOK' /\ OneStarter' /\ UNCHANGED <<pc, want, held, flag>>
  BY DEF IInv, SecTypeOK, OneStarter, Interrupt, IsrReturn
<1>4. /\ \A d \in Cpus : d # c => ifl'[d] = ifl[d] /\ inIsr'[d] = inIsr[d]
      /\ \/ ifl[c] /\ ~inIsr[c] /\ ~ifl'[c] /\ inIsr'[c]
         \/ /\ inIsr[c] /\ ifl'[c] /\ ~inIsr'[c]
            /\ at[<<c, "isr">>] = "service" /\ pc[<<c, "isr">>] = "run"
  <2>1. CASE Interrupt(c)
    BY <2>1 DEF Interrupt, Enter, IInv, TypeOK
  <2>2. CASE IsrReturn(c) /\ at[<<c, "isr">>] = "service"
    BY <2>2 DEF IsrReturn, Leave, IInv, TypeOK
  <2>3. QED
    BY <2>1, <2>2
<1>5. ASSUME NEW y \in Ctx PROVE CtxInv(y)'
  <2>1. CtxInv(y) /\ \A m : LockOf(y, m)' = LockOf(y, m)
    BY DEF IInv, LockOf
  <2>2. Place(y)' /\ Holds(y)'
    BY <1>3, <2>1 DEF CtxInv, Place, Holds
  <2>3. Open(y[1])' <=> Open(y[1])
    BY <1>4, CtxFacts DEF Open
  <2>4. y[2] = "thread" => ThreadFlags(y)'
    BY <1>3, <2>1, <2>3 DEF CtxInv, Flags, ThreadFlags
  <2>5. y[2] = "isr" => ServiceFlags(y)'
    BY <1>3, <1>4, <2>1, CtxFacts DEF CtxInv, Flags, ServiceFlags
  <2>6. QED
    BY <2>2, <2>4, <2>5 DEF CtxInv, Flags
<1>6. QED
  BY <1>1, <1>2, <1>3, <1>5 DEF IInv

-------------------------------------------------------------------------------
LEMMA SectionsInit == SecInit => IInv
<1> SUFFICES ASSUME SecInit PROVE IInv
  OBVIOUS
<1>1. TypeOK /\ SecTypeOK
  BY TypeInit, SectionsAssumption DEF SecInit, SecTypeOK
<1>2. \A x \in Ctx : at[x] = Rest(x) /\ Rest(x) \notin OfThread \cup OfObject
  BY DEF SecInit, Rest, OfThread, OfObject, Starting
<1>3. OneStarter
  BY <1>2 DEF OneStarter, OfThread
<1>4. ASSUME NEW x \in Ctx PROVE CtxInv(x)
  <2>1. Class("thread") = "free" /\ Class("service") = "service" /\ "free" \notin Kinds
    BY DEF Class, Kinds
  <2>2. \A k : ~In("thread", k) /\ ~In("service", k)
    BY DEF In
  <2>3. /\ pc[x] = "run" /\ held[x] = {} /\ own[x] = FALSE /\ \A l \in Locks : ~flag[x][l]
        /\ ifl[x[1]] /\ ~inIsr[x[1]] /\ intent[x[1]]
    BY CtxFacts DEF SecInit, Init
  <2>4. \/ x[2] = "thread" /\ at[x] = "thread"
        \/ x[2] = "isr" /\ at[x] = "service"
    BY <1>2, CtxFacts DEF Rest
  <2>5. Place(x) /\ Holds(x)
    BY <1>2, <2>1, <2>2, <2>3, <2>4 DEF Place, Holds
  <2>6. Flags(x)
    BY <2>1, <2>3, <2>4 DEF Flags, ThreadFlags, ServiceFlags, Open
  <2>7. QED
    BY <2>5, <2>6 DEF CtxInv
<1>5. QED
  BY <1>1, <1>3, <1>4 DEF IInv

LEMMA SectionsStep == IInv /\ [SecNext]_secVars => IInv' /\ [Next]_vars
<1> SUFFICES ASSUME IInv, [SecNext]_secVars PROVE IInv' /\ [Next]_vars
  OBVIOUS
<1>1. ASSUME NEW x \in Ctx, NEW r \in Program, Do(x, r)
      PROVE  IInv' /\ [Next]_vars
  BY <1>1, TakeStep, ReleaseStep, FlagRows, PickStep, EnqueueStep DEF Do
<1>2. CASE UNCHANGED secVars
  BY <1>2 DEF secVars, vars, IInv, TypeOK, SecTypeOK, OneStarter, CtxInv, Place, Holds, Flags,
     ThreadFlags, ServiceFlags, Open, LockOf
<1>3. QED
  BY <1>1, <1>2, ProceedStep, IntentStep, InterruptStep DEF SecNext

(* The sections are a use of the spinlocks, and keep the invariant.        *)
LEMMA SectionsKept == SecSpec => []IInv /\ Spec
<1>1. SecInit => Init
  BY DEF SecInit
<1>2. QED
  BY <1>1, SectionsInit, SectionsStep, PTL DEF SecSpec, Spec

(* Where a thread holds or spins on a lock, its CPU is masked.             *)
LEMMA Masked ==
  ASSUME IInv, NEW x \in Ctx, held[x] # {} \/ pc[x] = "spin"
  PROVE  ~ifl[x[1]] /\ (x[2] = "thread" => ~inIsr[x[1]])
<1>1. PICK k \in Kinds : In(at[x], k)
  BY DEF IInv, TypeOK, CtxInv, Holds
<1>2. Class(at[x]) \notin {"free", "saving"} /\ at[x] \notin {"thread", "service"}
  BY <1>1 DEF Class, In, Kinds
<1>3. CASE x[2] = "isr"
  BY <1>2, <1>3 DEF IInv, CtxInv, Flags, ServiceFlags
<1>4. CASE x[2] = "thread"
  <2>1. pc[x] = "mask" => Last(at[x]) # Class(at[x])
    <3>1. SUFFICES ASSUME pc[x] = "mask", Last(at[x]) = Class(at[x]) PROVE FALSE
      OBVIOUS
    <3>2. PICK l \in held[x], m \in Kinds : In(at[x], m) /\ l # want[x] /\ l = LockOf(x, m)
      BY <3>1 DEF IInv, TypeOK, CtxInv, Holds
    <3>3. m # Last(at[x])
      BY <3>1, <3>2 DEF IInv, CtxInv, Holds
    <3>4. QED
      BY <3>1, <3>2, <3>3 DEF Last, Class, In, Kinds
  <2>2. QED
    BY <1>2, <1>4, <2>1 DEF IInv, CtxInv, Flags, ThreadFlags, Open
<1>5. QED
  BY <1>3, <1>4, CtxFacts

(* NoSelfDeadlock: a service routine never spins on a lock of the thread   *)
(* that it interrupted, in any section of any function.                    *)
THEOREM SelfDeadlockFree == SecSpec => []NoSelfDeadlock
<1>1. IInv => NoSelfDeadlock
  <2> SUFFICES ASSUME IInv, NEW c \in Cpus, inIsr[c], want[<<c, "isr">>] \in held[<<c, "thread">>]
               PROVE FALSE
    BY DEF NoSelfDeadlock
  <2>1. <<c, "thread">> \in Ctx
    BY DEF Ctx
  <2>2. QED
    BY <2>1, Masked
<1>2. QED
  BY <1>1, SectionsKept, PTL

(* InterruptsRestored: whoever holds a lock has its CPU masked, whatever   *)
(* the order of the releases, and a thread gets its interrupts back as it  *)
(* had set them.                                                           *)
THEOREM InterruptsKept == SecSpec => []InterruptsRestored
<1>1. IInv => InterruptsRestored
  <2> SUFFICES ASSUME IInv PROVE InterruptsRestored
    OBVIOUS
  <2>1. ASSUME NEW c \in Cpus, NEW k \in {"thread", "isr"}, held[<<c, k>>] # {}
        PROVE  ~ifl[c]
    <3>1. <<c, k>> \in Ctx
      BY DEF Ctx
    <3>2. QED
      BY <2>1, <3>1, Masked
  <2>2. ASSUME NEW c \in Cpus, ~inIsr[c], at[<<c, "thread">>] = "thread", pc[<<c, "thread">>] = "run"
        PROVE  ifl[c] = intent[c]
    <3>1. <<c, "thread">> \in Ctx /\ Class("thread") = "free"
      BY DEF Ctx, Class
    <3>2. ThreadFlags(<<c, "thread">>)
      BY <3>1 DEF IInv, CtxInv, Flags
    <3>3. ifl[c] <=> intent[c]
      BY <2>2, <3>1, <3>2 DEF ThreadFlags, Open
    <3>4. ifl[c] \in BOOLEAN /\ intent[c] \in BOOLEAN
      BY DEF IInv, TypeOK, SecTypeOK
    <3>5. QED
      BY <3>3, <3>4
  <2>3. QED
    BY <2>1, <2>2, Zenon DEF InterruptsRestored
<1>2. QED
  BY <1>1, SectionsKept, PTL

-------------------------------------------------------------------------------
(* The lock of a row has the level of the row, and what is spun on is of a *)
(* higher level than what is held.                                         *)
LEMMA Levels ==
  ASSUME IInv, NEW x \in Ctx, NEW k \in Kinds, In(at[x], k)
  PROVE  Level(LockOf(x, k)) = LevelAt(at[x], k)
<1>1. k = "thread" => (phase[th[x]] = "live" <=> at[x] \notin Starting)
  BY DEF IInv, CtxInv, Place, In, OfThread, Starting
<1>2. CASE k = "thread"
  BY <1>1, <1>2 DEF Level, LevelAt, LockOf
<1>3. CASE k \in {"own", "unit"}
  BY <1>3 DEF Level, LevelAt, LockOf
<1>4. CASE k \in {"object", "active", "pend"}
  BY <1>4 DEF Level, LevelAt, LockOf
<1>5. QED
  BY <1>2, <1>3, <1>4 DEF Kinds

LEMMA LastHighest ==
  ASSUME NEW l, NEW k \in Kinds, In(l, k), Last(l) \in Kinds, k # Last(l)
  PROVE  LevelAt(l, k) < LevelAt(l, Last(l))
<1>1. CASE l \in {"in", "in3", "self3", "main", "tick", "resched", "set", "deq3", "deq5", "queue", "queue1"}
  BY <1>1 DEF LevelAt, In, Last, Kinds, Starting
<1>2. CASE l \in {"wake1", "wake2", "due1", "due2"}
  BY <1>2 DEF LevelAt, In, Last, Kinds, Starting
<1>3. CASE l \in {"sleep1", "sleep2", "start1", "start2", "start4"}
  BY <1>3 DEF LevelAt, In, Last, Kinds, Starting
<1>4. QED
  BY <1>1, <1>2, <1>3 DEF Last, Kinds

LEMMA SpinsUpwards ==
  ASSUME IInv, NEW x \in Ctx, pc[x] = "spin"
  PROVE  /\ want[x] \in Locks /\ Level(want[x]) \in 0 .. 5
         /\ \A l \in held[x] : Level(l) < Level(want[x])
<1>1. Last(at[x]) \in Kinds /\ In(at[x], Last(at[x])) /\ want[x] = LockOf(x, Last(at[x]))
  BY DEF IInv, CtxInv, Holds
<1>2. Level(want[x]) = LevelAt(at[x], Last(at[x]))
  BY <1>1, Levels
<1>3. ASSUME NEW l \in held[x] PROVE Level(l) < Level(want[x])
  <2>1. PICK k \in Kinds : In(at[x], k) /\ l = LockOf(x, k) /\ l # want[x]
    BY DEF IInv, TypeOK, CtxInv, Holds
  <2>2. Level(l) = LevelAt(at[x], k) /\ k # Last(at[x])
    BY <1>1, <2>1, Levels
  <2>3. QED
    BY <1>1, <1>2, <2>1, <2>2, LastHighest
<1>4. want[x] \in Locks
  BY DEF IInv, TypeOK
<1>5. QED
  BY <1>2, <1>3, <1>4 DEF LevelAt

(* NoDeadlock: no contexts wait for each other in a circle.  In one, each  *)
(* would spin on a lock of a higher level than the one before, and there   *)
(* are six levels.                                                         *)
THEOREM DeadlockFree == SecSpec => []NoDeadlock
<1>1. IInv => NoDeadlock
  <2> SUFFICES ASSUME IInv, NEW S \in (SUBSET Ctx) \ {{}}, \A x \in S : \E y \in S : WaitsFor(x, y)
               PROVE  FALSE
    BY DEF NoDeadlock
  <2> DEFINE Spins(x) == x \in S /\ pc[x] = "spin"
             L(x) == Level(want[x])
  <2>1. ASSUME NEW x \in S, pc[x] = "spin"
        PROVE  \E y \in S : want[x] \in held[y]
    <3>1. PICK y \in S : WaitsFor(x, y)
      OBVIOUS
    <3>2. ~(x[2] = "thread" /\ inIsr[x[1]])
      BY <2>1, Masked
    <3>3. QED
      BY <3>1, <3>2 DEF WaitsFor
  <2>2. ASSUME NEW x \in S, held[x] # {}
        PROVE  pc[x] = "spin"
    <3>1. PICK y \in S : WaitsFor(x, y)
      OBVIOUS
    <3>2. ~(x[2] = "thread" /\ inIsr[x[1]])
      BY <2>2, Masked
    <3>3. QED
      BY <3>1, <3>2 DEF WaitsFor
  <2>3. \E x \in S : Spins(x)
    <3>1. PICK x \in S, y \in S : WaitsFor(x, y)
      OBVIOUS
    <3>2. CASE pc[x] = "spin"
      BY <3>2
    <3>3. CASE y = <<x[1], "isr">>
      <4>1. PICK z \in S : WaitsFor(y, z)
        OBVIOUS
      <4>2. pc[y] = "spin"
        BY <3>3, <4>1 DEF WaitsFor
      <4>3. QED
        BY <4>2
    <3>4. QED
      BY <3>1, <3>2, <3>3 DEF WaitsFor
  <2>4. ASSUME NEW x \in S, Spins(x)
        PROVE  \E y \in S : Spins(y) /\ L(x) < L(y)
    <3>1. PICK y \in S : want[x] \in held[y]
      BY <2>1, <2>4
    <3>2. pc[y] = "spin"
      BY <2>2, <3>1
    <3>3. QED
      BY <3>1, <3>2, SpinsUpwards
  <2>5. \A x \in S : Spins(x) => L(x) \in 0 .. 5
    BY SpinsUpwards
  <2> HIDE DEF Spins, L
  <2>6. \A x \in S : Spins(x) => L(x) < 5
    BY <2>4, <2>5
  <2>7. \A x \in S : Spins(x) => L(x) < 4
    BY <2>4, <2>5, <2>6
  <2>8. \A x \in S : Spins(x) => L(x) < 3
    BY <2>4, <2>5, <2>7
  <2>9. \A x \in S : Spins(x) => L(x) < 2
    BY <2>4, <2>5, <2>8
  <2>10. \A x \in S : Spins(x) => L(x) < 1
    BY <2>4, <2>5, <2>9
  <2>11. QED
    BY <2>3, <2>4, <2>5, <2>10
<1>2. QED
  BY <1>1, SectionsKept, PTL

-------------------------------------------------------------------------------
(* The reader/writer spinlocks.                                            *)

(* What the word counts, with the exclusion that makes it a count.         *)
Counted ==
  ~wrapped => /\ ReaderWriterExclusion
              /\ rwlock = IF Writers # {} THEN 0 ELSE MAXV - Cardinality(Readers)

RwIInv == RwTypeOK /\ Counted

(* The modulus of the word is out of reach of what is subtracted and added *)
(* to it in its range.                                                     *)
LEMMA InRange == ASSUME NEW a \in 0 .. MAXV PROVE a % (MAXV + 1) = a
BY RwAssumption

LEMMA CtxFinite == IsFiniteSet(Ctx) /\ Cardinality(Ctx) < MAXV
<1>1. Cardinality(Cpus) \in Nat
  BY FS_CardinalityType, RwAssumption
<1>2. IsFiniteSet({"thread", "isr"}) /\ Cardinality({"thread", "isr"}) = 2
  <2>1. IsFiniteSet({"thread"}) /\ Cardinality({"thread"}) = 1
    BY FS_Singleton
  <2>2. {"thread", "isr"} = {"thread"} \cup {"isr"} /\ "isr" \notin {"thread"}
    OBVIOUS
  <2>3. QED
    BY <2>1, <2>2, FS_AddElement
<1>3. IsFiniteSet(Ctx) /\ Cardinality(Ctx) = Cardinality(Cpus) * 2
  BY <1>2, FS_Product, RwAssumption DEF Ctx
<1>4. QED
  BY <1>1, <1>3, RwAssumption

LEMMA ReadersFinite ==
  IsFiniteSet(Readers) /\ Cardinality(Readers) \in Nat /\ Cardinality(Readers) < MAXV
BY CtxFinite, FS_Subset, FS_CardinalityType, RwAssumption DEF Readers

-------------------------------------------------------------------------------
LEMMA WordTypes ==
  ASSUME RwTypeOK PROVE Dec(rwlock) \in 0 .. MAXV /\ Inc(rwlock) \in 0 .. MAXV
BY RwAssumption DEF RwTypeOK, Dec, Inc

LEMMA RwTypeStep == RwTypeOK /\ [RwNext]_rwVars => RwTypeOK'
<1> SUFFICES ASSUME RwTypeOK, [RwNext]_rwVars PROVE RwTypeOK'
  OBVIOUS
<1> USE DEF RwTypeOK
<1>1. ASSUME NEW x \in Ctx, RwStep(x)
      PROVE RwTypeOK'
  <2>1. CASE ReadMask(x) \/ WriteMask(x)
    BY <2>1, CtxFacts DEF ReadMask, WriteMask, RwMask, Goto
  <2>2. CASE ReadTake(x)
    BY <2>2, WordTypes DEF ReadTake, Goto
  <2>3. CASE ReadLeave(x)
    BY <2>3 DEF ReadLeave, Goto, Done
  <2>4. CASE ReadDrop(x)
    BY <2>4, WordTypes DEF ReadDrop, Goto, Done
  <2>5. CASE WriteDrop(x)
    BY <2>5, RwAssumption DEF WriteDrop, Goto, Done
  <2>6. CASE RwUnmask(x)
    BY <2>6, CtxFacts DEF RwUnmask, Goto
  <2>7. QED
    BY <1>1, <2>1, <2>2, <2>3, <2>4, <2>5, <2>6 DEF RwStep
<1>2. ASSUME NEW x \in Ctx, ReadLockInt(x) \/ WriteLockInt(x)
      PROVE RwTypeOK'
  BY <1>2, CtxFacts DEF ReadLockInt, WriteLockInt, Save, Goto
<1>3. ASSUME NEW x \in Ctx, ReadLock(x) \/ ReadSeen(x)
      PROVE RwTypeOK'
  BY <1>3 DEF ReadLock, ReadSeen, Goto
<1>4. ASSUME NEW x \in Ctx, WriteTake(x)
      PROVE RwTypeOK'
  BY <1>4, RwAssumption DEF WriteTake, Goto
<1>5. ASSUME NEW c \in Cpus, RwInterrupt(c) \/ RwIsrReturn(c)
      PROVE RwTypeOK'
  BY <1>5 DEF RwInterrupt, RwIsrReturn, Enter, Leave
<1>6. CASE UNCHANGED rwVars
  BY <1>6 DEF rwVars
<1>7. QED
  BY <1>1, <1>2, <1>3, <1>4, <1>5, <1>6 DEF RwNext

-------------------------------------------------------------------------------
(* The steps that leave the readers, the writers and the word alone.       *)
LEMMA QuietStep ==
  ASSUME Counted, Readers' = Readers, Writers' = Writers, rwlock' = rwlock, wrapped' = wrapped
  PROVE  Counted'
BY DEF Counted, ReaderWriterExclusion

LEMMA Moves ==
  ASSUME RwTypeOK, NEW x \in Ctx, NEW from, NEW to, Goto(x, from, to)
  PROVE  /\ Readers' = IF to \in {"reading", "add"} THEN Readers \cup {x} ELSE Readers \ {x}
         /\ Writers' = IF to = "writing" THEN Writers \cup {x} ELSE Writers \ {x}
         /\ x \in Readers <=> from \in {"reading", "add"}
         /\ x \in Writers <=> from = "writing"
BY DEF RwTypeOK, Goto, Readers, Writers

LEMMA ReadTakeStep ==
  ASSUME RwIInv, NEW x \in Ctx, ReadTake(x)
  PROVE  Counted'
<1> SUFFICES ASSUME ~wrapped' PROVE Counted'
  BY DEF Counted
<1>1. ~wrapped /\ rwlock # 0 /\ rwlock' = Dec(rwlock)
  BY DEF ReadTake, RwIInv, RwTypeOK
<1>2. Readers' = Readers \cup {x} /\ Writers' = Writers /\ x \notin Readers
  BY Moves DEF ReadTake, RwIInv
<1>3. Writers = {} /\ rwlock = MAXV - Cardinality(Readers)
  BY <1>1 DEF RwIInv, Counted
<1>4. Cardinality(Readers') = Cardinality(Readers) + 1
  BY <1>2, ReadersFinite, FS_AddElement
<1>5. rwlock - 1 \in 0 .. MAXV
  <2>1. rwlock \in 0 .. MAXV /\ MAXV \in Nat
    BY RwAssumption DEF RwIInv, RwTypeOK
  <2>2. QED
    BY <1>1, <2>1
<1>6. rwlock' = MAXV - Cardinality(Readers')
  BY <1>1, <1>3, <1>4, <1>5, InRange, ReadersFinite, RwAssumption DEF Dec
<1>7. QED
  BY <1>2, <1>3, <1>6 DEF Counted, ReaderWriterExclusion

LEMMA ReadDropStep ==
  ASSUME RwIInv, NEW x \in Ctx, ReadDrop(x)
  PROVE  Counted'
<1> SUFFICES ASSUME ~wrapped' PROVE Counted'
  BY DEF Counted
<1>1. ~wrapped /\ rwlock' = Inc(rwlock)
  BY DEF ReadDrop, RwIInv, RwTypeOK
<1>2. Readers' = Readers \ {x} /\ Writers' = Writers /\ x \in Readers
  BY Moves DEF ReadDrop, RwIInv, Done
<1>3. Writers = {} /\ rwlock = MAXV - Cardinality(Readers)
  BY <1>1, <1>2 DEF RwIInv, Counted, ReaderWriterExclusion
<1>4. Cardinality(Readers') = Cardinality(Readers) - 1 /\ Cardinality(Readers) > 0
  BY <1>2, ReadersFinite, FS_RemoveElement, FS_EmptySet
<1>5. rwlock + 1 \in 0 .. MAXV
  BY <1>3, <1>4, ReadersFinite, RwAssumption DEF RwIInv, RwTypeOK
<1>6. rwlock' = MAXV - Cardinality(Readers')
  BY <1>1, <1>3, <1>4, <1>5, InRange, ReadersFinite, RwAssumption DEF Inc
<1>7. QED
  BY <1>2, <1>3, <1>6 DEF Counted, ReaderWriterExclusion

(* A reader that leaves an unwrapped lock always has its 1 to add.         *)
LEMMA ReadLeaveStep ==
  ASSUME RwIInv, NEW x \in Ctx, ReadLeave(x)
  PROVE  Counted'
<1> SUFFICES ASSUME ~wrapped' PROVE Counted'
  BY DEF Counted
<1>1. ~wrapped /\ rwlock' = rwlock
  BY DEF ReadLeave
<1>2. x \in Readers
  BY Moves DEF ReadLeave, RwIInv
<1>3. Writers = {} /\ rwlock = MAXV - Cardinality(Readers)
  BY <1>1, <1>2 DEF RwIInv, Counted, ReaderWriterExclusion
<1>4. Cardinality(Readers) > 0
  BY <1>2, ReadersFinite, FS_EmptySet
<1>5. rwlock < MAXV
  BY <1>3, <1>4, ReadersFinite, RwAssumption
<1>6. Goto(x, "reading", "add")
  BY <1>5 DEF ReadLeave
<1>7. Readers' = Readers /\ Writers' = Writers
  BY <1>2, <1>3, <1>6, Moves DEF RwIInv
<1>8. QED
  BY <1>1, <1>7, QuietStep DEF RwIInv, ReadLeave

LEMMA WriteTakeStep ==
  ASSUME RwIInv, NEW x \in Ctx, WriteTake(x)
  PROVE  Counted'
<1> SUFFICES ASSUME ~wrapped' PROVE Counted'
  BY DEF Counted
<1>1. ~wrapped /\ rwlock = MAXV /\ rwlock' = 0
  BY DEF WriteTake
<1>2. Readers' = Readers \ {x} /\ Writers' = Writers \cup {x}
  BY Moves DEF WriteTake, RwIInv
<1>3. Writers = {} /\ Cardinality(Readers) = 0
  BY <1>1, ReadersFinite, RwAssumption DEF RwIInv, Counted
<1>4. Readers = {}
  BY <1>3, ReadersFinite, FS_EmptySet
<1>5. QED
  BY <1>1, <1>2, <1>3, <1>4 DEF Counted, ReaderWriterExclusion

LEMMA WriteDropStep ==
  ASSUME RwIInv, NEW x \in Ctx, WriteDrop(x)
  PROVE  Counted'
<1> SUFFICES ASSUME ~wrapped' PROVE Counted'
  BY DEF Counted
<1>1. ~wrapped /\ rwlock' = IF rwlock = 0 THEN MAXV ELSE rwlock
  BY DEF WriteDrop
<1>2. Readers' = Readers \ {x} /\ Writers' = Writers \ {x} /\ x \in Writers
  BY Moves DEF WriteDrop, RwIInv, Done
<1>3. Writers = {x} /\ Readers = {} /\ rwlock = 0
  BY <1>1, <1>2 DEF RwIInv, Counted, ReaderWriterExclusion
<1>4. Writers' = {} /\ Readers' = {} /\ rwlock' = MAXV
  BY <1>1, <1>2, <1>3
<1>5. Cardinality(Readers') = 0
  BY <1>4, FS_EmptySet
<1>6. QED
  BY <1>4, <1>5, RwAssumption DEF Counted, ReaderWriterExclusion

LEMMA CountedStep == RwIInv /\ [RwNext]_rwVars => Counted'
<1> SUFFICES ASSUME RwIInv, [RwNext]_rwVars PROVE Counted'
  OBVIOUS
<1>1. ASSUME NEW x \in Ctx, ReadMask(x) \/ WriteMask(x) \/ ReadLockInt(x) \/ WriteLockInt(x)
                              \/ ReadLock(x) \/ ReadSeen(x) \/ RwUnmask(x)
      PROVE Counted'
  <2>1. rwlock' = rwlock /\ wrapped' = wrapped
    BY <1>1 DEF ReadMask, WriteMask, RwMask, ReadLockInt, WriteLockInt, Save, ReadLock, ReadSeen, RwUnmask
  <2>2. PICK from \in {"idle", "readMask", "writeMask", "readWait", "unmask"},
             to \in {"readMask", "writeMask", "readWait", "writeWait", "sub", "idle"} :
               Goto(x, from, to)
    BY <1>1 DEF ReadMask, WriteMask, RwMask, ReadLockInt, WriteLockInt, Save, ReadLock, ReadSeen, RwUnmask
  <2>3. Readers' = Readers /\ Writers' = Writers
    BY <2>2, Moves DEF RwIInv
  <2>4. QED
    BY <2>1, <2>3, QuietStep DEF RwIInv
<1>2. ASSUME NEW c \in Cpus, RwInterrupt(c) \/ RwIsrReturn(c)
      PROVE Counted'
  BY <1>2, QuietStep DEF RwIInv, RwInterrupt, RwIsrReturn, Enter, Leave, Readers, Writers
<1>3. CASE UNCHANGED rwVars
  BY <1>3, QuietStep DEF RwIInv, rwVars, Readers, Writers
<1>4. QED
  BY <1>1, <1>2, <1>3, ReadTakeStep, ReadDropStep, ReadLeaveStep, WriteTakeStep, WriteDropStep
     DEF RwNext, RwStep

LEMMA RwInitIInv == RwInit => RwIInv
<1> SUFFICES ASSUME RwInit PROVE RwIInv
  OBVIOUS
<1>0. MAXV \in Nat
  BY RwAssumption
<1>1. RwTypeOK
  <2>1. rwlock \in 0 .. MAXV
    BY <1>0 DEF RwInit
  <2>2. /\ ifl \in [Cpus -> BOOLEAN] /\ inIsr \in [Cpus -> BOOLEAN]
        /\ saved \in [Cpus -> BOOLEAN] /\ wrapped \in BOOLEAN
    BY Zenon DEF RwInit
  <2>3. pc \in [Ctx -> {"idle", "readMask", "writeMask", "readWait", "writeWait",
                        "sub", "reading", "writing", "add", "unmask"}]
    BY DEF RwInit
  <2>4. QED
    BY <2>1, <2>2, <2>3 DEF RwTypeOK
<1>2. Readers = {} /\ Writers = {}
  BY DEF RwInit, Readers, Writers
<1>3. QED
  BY <1>1, <1>2, FS_EmptySet, RwAssumption DEF RwIInv, RwInit, Counted, ReaderWriterExclusion

LEMMA RwInductive == RwSpec => []RwIInv
<1>1. RwIInv /\ [RwNext]_rwVars => RwIInv'
  BY RwTypeStep, CountedStep DEF RwIInv
<1>2. QED
  BY <1>1, RwInitIInv, PTL DEF RwSpec

(* TypeOK: the word never leaves the range of the lock, wrapped or not.    *)
THEOREM RwTypeCorrect == RwSpec => []RwTypeOK
<1>1. RwIInv => RwTypeOK
  BY DEF RwIInv
<1>2. QED
  BY <1>1, RwInductive, PTL

(* ExclusionUnlessWrapped: a writer of spinlock_rw is alone in its section *)
(* as long as no reader has subtracted from 0.                             *)
THEOREM RwExclusion == RwSpec => []ExclusionUnlessWrapped
<1>1. RwIInv => ExclusionUnlessWrapped
  BY DEF RwIInv, Counted, ExclusionUnlessWrapped
<1>2. QED
  BY <1>1, RwInductive, PTL

(* WordCounts: until then the word is MAXV less the number of readers, or  *)
(* 0 under a writer, so no take or release is ever lost.                   *)
THEOREM RwCountsExactly == RwSpec => []WordCounts
<1>1. RwIInv => WordCounts
  BY DEF RwIInv, Counted, WordCounts
<1>2. QED
  BY <1>1, RwInductive, PTL
===============================================================================
