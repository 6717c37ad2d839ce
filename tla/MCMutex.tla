-------------------------------- MODULE MCMutex --------------------------------
EXTENDS Mutex, TLC

CONSTANTS m, a, b, pq

NoPrio == [t \in Threads |-> 0]
Prios  == [t \in Threads |-> IF t = a THEN 0 ELSE 1]

UpToEarlyWake == clean

(* Links of threads off the pend queue are written before they are read.  *)
PendLinks(field) == [t \in Waiters |-> field[t]]
View == <<SchedView, owner, rlevel, timed, held, PendLinks(pend.next), PendLinks(pend.prev),
          pend.head, pend.tail, pend.count>>

(* The system when it has come up: every unit runs, every thread is        *)
(* started, m and b on unit 0, a on the last unit, and each has been       *)
(* preempted before.                                                       *)
Home(t) == IF t = a THEN CHOOSE u \in Units : \A v \in Units : v <= u ELSE 0

Queues ==
  LET h1 == AddHead(EmptyHeap, Home(m), m)
      h2 == AddHead(h1, Home(a), a)
  IN  IF b \in Threads THEN AddHead(h2, Home(b), b) ELSE h2

Booted ==
  /\ units = [i \in 1 .. Cardinality(Units) |-> i - 1]
  /\ heap = Queues
  /\ cur = [u \in Units |-> Last(Queues, u)]
  /\ preempt = [u \in Units |-> 0]
  /\ irq = [u \in Units |-> FALSE]
  /\ start = [u \in Units |-> <<>>]
  /\ unit = [t \in Threads |-> Home(t)]
  /\ flags = [x \in All |-> {"READY", "NEED_RESCHEDULE"}]
  /\ cpuLeft = [x \in All |-> 0]
  /\ pc = [t \in Threads |-> "run"]
  /\ timer = [t \in Threads |-> FALSE]
  /\ clean = TRUE
  /\ owner = NULL /\ rlevel = 0
  /\ pend = EmptyHeap
  /\ timed = [t \in Threads |-> FALSE]
  /\ held = [t \in Threads |-> 0]

BootedSpec == Booted /\ [][Next]_vars
===============================================================================
