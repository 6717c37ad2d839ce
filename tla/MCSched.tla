-------------------------------- MODULE MCSched --------------------------------
EXTENDS Sched

CONSTANTS m, a, b

(* A thread with a tick to spend beside threads without.                   *)
MCPrio == [t \in Threads |-> IF t = m THEN 1 ELSE 0]
NoPrio == [t \in Threads |-> 0]

(* Behaviours are followed up to the first early wake.                     *)
UpToEarlyWake == clean
===============================================================================
