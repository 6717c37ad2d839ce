-------------------------------- MODULE MCTimer --------------------------------
EXTENDS Timer

CONSTANTS s1, s2, p, q

(* A step that does not divide a second, and needs on either side of one.  *)
MStep == [seconds |-> 0, nanosec |-> 3]
MNeed == [t \in Timers |-> CASE t = s1 -> [seconds |-> 0, nanosec |-> 4]
                             [] t = s2 -> [seconds |-> 1, nanosec |-> 1]
                             [] t = p  -> [seconds |-> 0, nanosec |-> 1]
                             [] OTHER  -> [seconds |-> 1, nanosec |-> 3]]
===============================================================================
