---------------------------------- MODULE Cpu ----------------------------------
(* The processors: they are started (ApStart), and those that have come up *)
(* call one another (Ipi) through the dispatcher of interrupts (Isr).      *)
EXTENDS Ipi, ApStart

vars == <<isrVars, up, callVars, apVars>>

Init ==
  /\ IpiInit /\ ApInit
  /\ up = {Bsp}

(* While the processors are started nobody calls.                          *)
Starts ==
  /\ ApNext
  /\ up' = {Bsp} \cup {a \in Aps : ap'[a] = "idle"}
  /\ UNCHANGED <<isrVars, callVars>>

Next ==
  \/ Starts
  \/ /\ issuer.pc = "done" /\ UNCHANGED apVars
     /\ \/ \E k \in Calls : Send(k) \/ \E c, d \in Cpus : Enqueue(k, c, d)
        \/ \E c \in Cpus : Service(c) \/ Begins(c) \/ Change(c)

(* A sender goes on when it is not interrupted, service routines run to    *)
(* their end, and what runs with the interrupts masked goes on.            *)
Fairness ==
  /\ \A k \in Calls : WF_vars(Send(k) /\ UNCHANGED apVars)
  /\ \A c \in Cpus : WF_vars(Service(c) /\ UNCHANGED apVars) /\ WF_vars(Change(c) /\ UNCHANGED apVars)

Spec == Init /\ [][Next]_vars
FairSpec == Spec /\ Fairness
-------------------------------------------------------------------------------
Accepted(k) == sender[k].pc \in {"queued", "sent", "silent"}

(* The nodes of a pool are free or hold a call to make, each once,         *)
(* whatever happens between the sections.  A call that was accepted is in  *)
(* its target's list, or is being made, or has been made: once, if no node *)
(* was filled again before it was read.                                    *)
CallsKept ==
  /\ \A c \in Cpus : LET all == avail[c] \o slots[c]
                     IN  Elements(all) = Nodes /\ Len(all) = Cardinality(Nodes)
  /\ ~reused => \A k \in Calls :
       LET d == sender[k].to
           waits == IF d = None THEN 0 ELSE
                      Cardinality({i \in DOMAIN slots[d] : content[d][slots[d][i]] = k})
                      + (IF At(d, "read") /\ content[d][node[d]] = k THEN 1 ELSE 0)
                      + (IF At(d, "make") /\ node[d] = k THEN 1 ELSE 0)
       IN  runs[k] + waits = IF Accepted(k) THEN 1 ELSE 0

(* Every accepted call is made in the end, if the driver could send its    *)
(* interrupt and drivers do not change a list for ever; so it is unless a  *)
(* node was filled again before it was read, a routine ahead ended the     *)
(* walk, or a list changed under a dispatcher.                             *)
CallsMade ==
  []~(reused \/ hidden \/ torn) /\ <>[](\A c \in Cpus : ~Writing(c)) =>
    \A k \in Calls : sender[k].pc = "sent" ~> runs[k] > 0
===============================================================================
