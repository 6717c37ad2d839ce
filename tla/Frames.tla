-------------------------------- MODULE Frames --------------------------------
(* What the page frame manager promises of frames, and the kernel's        *)
(* address space of pages: whoever asks is given some that nobody holds    *)
(* and that may be handed out, and they come back from their holder.       *)
EXTENDS Naturals

CONSTANTS Frame, Allowed     \* all, and those that may be handed out
VARIABLE out                \* of each, how many hold it

Init == out = [f \in Frame |-> 0]

Take(S) ==
  /\ \A f \in S : out[f] = 0
  /\ out' = [f \in Frame |-> IF f \in S THEN 1 ELSE out[f]]

Give(S) ==
  /\ \A f \in S : out[f] = 1
  /\ out' = [f \in Frame |-> IF f \in S THEN 0 ELSE out[f]]

Next == \E S \in SUBSET Allowed : Take(S) \/ Give(S)

Spec == Init /\ [][Next]_out
===============================================================================
