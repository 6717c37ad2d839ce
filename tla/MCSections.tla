----------------------------- MODULE MCSections -----------------------------
(* Two CPUs, a thread of each, and one semaphore or mutex.                 *)
EXTENDS Sections, TLC

CONSTANTS c1, c2, t1, t2

HomeOf == t1 :> c1 @@ t2 :> c2
===============================================================================
