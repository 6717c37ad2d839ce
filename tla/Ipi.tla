---------------------------------- MODULE Ipi ----------------------------------
(* kernel/cpu.c, calls from one CPU to another: cpu_enqueue_call fills a   *)
(* node of the target's pool, puts it on the target's list and sends it    *)
(* the vector PLATFORM_SCHED_VECTOR, if the CPU driver can send one, whose *)
(* routine cpu_process_call_list calls what it finds.  The pools are as    *)
(* cpu_init_generic fills them.                                            *)
EXTENDS Isr

CONSTANTS
  NodeCount,  \* CPU_IPI_EXEC_NODE_COUNT
  Calls,      \* a handler with its argument, for one cpu_enqueue_call each
  Senders,    \* bound: the CPUs whose threads call, install and remove
  Receivers,  \* bound: the CPUs that they call
  CallList    \* the struct isr of cpu_process_call_list

ASSUME IpiAssumption ==
  /\ CallList \in Elements(Boot["handlers"]) /\ CallList \notin Drivers
  /\ None \notin Calls \cup Cpus /\ NodeCount \in Nat

Nodes == 1 .. NodeCount   \* exec_slots of a CPU

VARIABLES
  up,         \* the CPUs that are devices and take interrupts
  api,        \* whether the operations of the CPU driver have a send_ipi
  avail,      \* of each CPU: avail_ipi_cb_slots
  slots,      \* of each CPU: ipi_cb_slots
  content,    \* of each CPU and node: ipi_handler and pv
  node,       \* of each CPU: ipi_node in cpu_process_call_list
  sender,     \* of each call: the CPU it is made on, its target, and how far it is
  runs,       \* history: of each call, how often it has been made
  reused,     \* history: a node was filled again before it was read
  hidden      \* history: a routine ahead of CallList has ended the walk

callVars == <<api, avail, slots, content, node, sender, runs, reused, hidden>>

Free(n) == [pc |-> n, from |-> None, to |-> None]

IpiInit ==
  /\ IsrInit
  /\ api \in BOOLEAN
  /\ avail = [c \in Cpus |-> [i \in Nodes |-> i]]
  /\ slots = [c \in Cpus |-> <<>>]
  /\ content = [c \in Cpus |-> [n \in Nodes |-> None]]
  /\ node = [c \in Cpus |-> None]
  /\ sender = [k \in Calls |-> Free("new")]
  /\ runs = [k \in Calls |-> 0]
  /\ reused = FALSE /\ hidden = FALSE
-------------------------------------------------------------------------------
(* Faulty: without a free node the call replaces the newest one.           *)
Enqueue_Overwrites(k, c, d) ==
  LET n == IF avail[d] = <<>> THEN slots[d][Len(slots[d])] ELSE Head(avail[d])
  IN  /\ sender[k].pc = "new" /\ c \in up \cap Senders /\ At(c, "thread") /\ d \in up \cap Receivers
      /\ sender' = [sender EXCEPT ![k] = [pc |-> "queued", from |-> c, to |-> d]]
      /\ avail' = [avail EXCEPT ![d] = IF @ = <<>> THEN @ ELSE Tail(@)]
      /\ slots' = [slots EXCEPT ![d] = IF avail[d] = <<>> THEN @ ELSE Append(@, n)]
      /\ content' = [content EXCEPT ![d][n] = k]
      /\ reused' = (reused \/ (At(d, "read") /\ node[d] = n))
      /\ UNCHANGED <<isrVars, up, api, node, runs, hidden>>

(* cpu_enqueue_call, the section under ipi_cb_lock: a node, if there is    *)
(* one.                                                                    *)
Enqueue(k, c, d) ==
  LET n == Head(avail[d])
  IN  /\ sender[k].pc = "new" /\ c \in up \cap Senders /\ At(c, "thread") /\ d \in up \cap Receivers
      /\ sender' = [sender EXCEPT ![k] = [pc |-> IF avail[d] = <<>> THEN "refused" ELSE "queued",
                                          from |-> c, to |-> d]]
      /\ IF avail[d] = <<>> THEN UNCHANGED <<avail, slots, content, reused>>
         ELSE /\ avail' = [avail EXCEPT ![d] = Tail(@)]
              /\ slots' = [slots EXCEPT ![d] = Append(@, n)]
              /\ content' = [content EXCEPT ![d][n] = k]
              /\ reused' = (reused \/ (At(d, "read") /\ node[d] = n))
      /\ UNCHANGED <<isrVars, up, api, node, runs, hidden>>

(* After the lock the interrupt, whether there was a node or not, if the   *)
(* driver has the operation; the caller does not learn which.              *)
Send(k) ==
  LET s == sender[k]
  IN  /\ s.pc \in {"queued", "refused"} /\ At(s.from, "thread")
      /\ irr' = IF api THEN irr \cup {s.to} ELSE irr
      /\ sender' = [sender EXCEPT ![k].pc = IF s.pc = "refused" THEN "failed"
                                            ELSE IF api THEN "sent" ELSE "silent"]
      /\ UNCHANGED <<list, stale, word, disp, gone, torn, up, api, avail, slots, content, node, runs,
                     reused, hidden>>
-------------------------------------------------------------------------------
listVars == <<list, stale, word, irr, gone, torn>>

(* The walk d of the vector's list has been at r.                          *)
Behind(r, d) ==
  LET s == list["handlers"]
  IN  d.l = "handlers" => \E i, j \in DOMAIN s : s[i] = r /\ s[j] = d.at /\ i < j

(* A routine other than CallList.                                          *)
CallOther(c) ==
  /\ Call(c, "run") /\ disp[c].at # CallList
  /\ UNCHANGED <<listVars, up, callVars>>

ReturnOther(c) ==
  \E status \in {0, 1} :
    /\ Return(c, "run", status)
    /\ hidden' = (hidden \/ (status = 0 /\ ~Behind(CallList, disp[c])))
    /\ UNCHANGED <<listVars, up, api, avail, slots, content, node, sender, runs, reused>>

(* cpu_process_call_list.                                                  *)
CallProcess(c) ==
  /\ Call(c, "get") /\ disp[c].at = CallList
  /\ UNCHANGED <<listVars, up, callVars>>

(* Under the lock the node goes back to the pool ...                       *)
Get(c) ==
  /\ At(c, "get") /\ slots[c] # <<>>
  /\ node' = [node EXCEPT ![c] = Head(slots[c])]
  /\ slots' = [slots EXCEPT ![c] = Tail(@)]
  /\ avail' = [avail EXCEPT ![c] = Append(@, Head(slots[c]))]
  /\ disp' = [disp EXCEPT ![c].pc = "read"]
  /\ UNCHANGED <<listVars, up, api, content, sender, runs, reused, hidden>>

(* ... and after the lock it is read.                                      *)
Read(c) ==
  /\ At(c, "read")
  /\ node' = [node EXCEPT ![c] = content[c][@]]
  /\ disp' = [disp EXCEPT ![c].pc = "make"]
  /\ UNCHANGED <<listVars, up, api, avail, slots, content, sender, runs, reused, hidden>>

(* Faulty: one call for each interrupt.                                    *)
Make_One(c) ==
  /\ Return(c, "make", 0)
  /\ runs' = [runs EXCEPT ![node[c]] = @ + 1]
  /\ node' = [node EXCEPT ![c] = None]
  /\ UNCHANGED <<listVars, up, api, avail, slots, content, sender, reused, hidden>>

Make(c) ==
  /\ At(c, "make")
  /\ runs' = [runs EXCEPT ![node[c]] = @ + 1]
  /\ node' = [node EXCEPT ![c] = None]
  /\ disp' = [disp EXCEPT ![c].pc = "get"]
  /\ UNCHANGED <<listVars, up, api, avail, slots, content, sender, reused, hidden>>

GetNone(c) ==
  /\ slots[c] = <<>> /\ Return(c, "get", 0)
  /\ UNCHANGED <<listVars, up, callVars>>

Service(c) ==
  \/ Reads(c) /\ UNCHANGED <<up, callVars>>
  \/ CallOther(c) \/ ReturnOther(c) \/ CallProcess(c) \/ Get(c) \/ Read(c) \/ Make(c) \/ GetNone(c)

Begins(c) ==
  /\ \E r \in Drivers : Install(c, r) \/ Uninstall(c, r)
  /\ c \in up \cap Senders /\ UNCHANGED <<up, callVars>>

Change(c) == Changes(c) /\ UNCHANGED <<up, callVars>>
===============================================================================
