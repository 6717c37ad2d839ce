------------------------------- MODULE Contexts -------------------------------
(***************************************************************************)
(* What runs on the processors when they take a lock: every CPU runs a     *)
(* thread and, while its interrupt flag is set, may be interrupted: the    *)
(* service routine runs on the same CPU until it returns, on top of        *)
(* whatever the thread was doing, so it may spin on a lock its own CPU     *)
(* already holds.  A context <<c, k>> is the thread or the service routine *)
(* of CPU c.                                                               *)
(***************************************************************************)
EXTENDS Integers, FiniteSets

CONSTANT Cpus   \* the processors

VARIABLES
  ifl,     \* ifl[c]: the interrupt flag of CPU c
  inIsr,   \* inIsr[c]: CPU c is in an interrupt service routine
  pc       \* pc[x]: where context x is in a lock call

Ctx == Cpus \X {"thread", "isr"}

(* The service routine has the CPU when there is one.                      *)
Running(x) == inIsr[x[1]] = (x[2] = "isr")

Goto(x, from, to) == Running(x) /\ pc[x] = from /\ pc' = [pc EXCEPT ![x] = to]

(* The interrupt gate clears the flag; iretq restores the one it found.    *)
Enter(c) ==
  /\ ifl[c] /\ ~inIsr[c]
  /\ inIsr' = [inIsr EXCEPT ![c] = TRUE]
  /\ ifl' = [ifl EXCEPT ![c] = FALSE]

Leave(c) ==
  /\ inIsr[c]
  /\ inIsr' = [inIsr EXCEPT ![c] = FALSE]
  /\ ifl' = [ifl EXCEPT ![c] = TRUE]
===============================================================================
